------------------------ MODULE ControlPlaneEndpoint ------------------------
(***************************************************************************)
(* The control plane endpoint manager: metal/                              *)
(* eip_controlplane_reconciliation.go.  It keeps one Elastic IP (the EIP)  *)
(* assigned to a device whose kube-apiserver answers.                      *)
(*                                                                         *)
(* Four parties act on the shared state.                                   *)
(*   - The manager: one informer goroutine that handles node events one at *)
(*     a time; "task" is the event being handled.  Every call it makes to  *)
(*     the Equinix Metal API, the Kubernetes API or an API server is a     *)
(*     step of its own.                                                    *)
(*   - The service informer's goroutine, which follows the ports.          *)
(*   - Kubernetes: nodes are cordoned, deleted and recreated; the cloud    *)
(*     node controller refreshes node addresses from the device, so a node *)
(*     lists the EIP some time after it got it and until some time after   *)
(*     it lost it.                                                         *)
(*   - The world: API servers stop and start, operators assign devices by  *)
(*     hand, calls fail or lose their response, the process crashes.       *)
(*                                                                         *)
(* "faults" counts the disturbances of the world and of Kubernetes and is  *)
(* bounded by MaxFaults; the manager itself is not bounded.                *)
(***************************************************************************)
EXTENDS Integers, Sequences

CONSTANTS
    Nodes,          \* control plane nodes, each with a device of its own
    NoNode,         \* "no node" in the fields of task
    NoPort,         \* port 0: not configured, or not known
    ConfigPort,     \* configured apiServerPort, NoPort to follow the nodes' port
    KubePorts,      \* ports the API servers of the nodes may listen on
    UseHostIP,      \* eipHealthCheckUseHostIP
    BadProviderID,  \* nodes whose provider ID names no device
    Disturbances,   \* the kinds of disturbance that may happen
    MaxFaults       \* bound on their number

ASSUME NoNodeAssumption == NoNode \notin Nodes
ASSUME PortAssumption   == NoPort \notin KubePorts
ASSUME ConfigAssumption == UseHostIP \in BOOLEAN /\ BadProviderID \subseteq Nodes
ASSUME FaultsAssumption ==
    /\ Disturbances \subseteq {"call", "crash", "stop", "cordon", "delete", "operator",
                         "port"}
    /\ MaxFaults \in Nat

VARIABLES
    server,             \* port at which n's kube-apiserver answers /healthz with
                        \* 200, NoPort when it does not
    targetPort,         \* target port of the service default/kubernetes
    node,               \* the Node objects of the Kubernetes API
    assigned,           \* devices the EIP is assigned to
    apiServerPort,      \* manager's field: port of the EIP, NoPort when unknown
    nodeAPIServerPort,  \* manager's field: port of the nodes, NoPort when unknown
    queue,              \* node events the informer has still to deliver
    task,               \* the event being handled
    faults,             \* disturbances so far
    manual,             \* history: assignments made by an operator
    wasUp               \* history: nodes up at some time since task listed them

world   == <<server, faults>>
ports   == <<targetPort, apiServerPort, nodeAPIServerPort>>
metal   == <<assigned, manual>>
vars    == <<server, targetPort, node, assigned, apiServerPort, nodeAPIServerPort,
             queue, task, faults, manual, wasUp>>

-----------------------------------------------------------------------------
(* Data.                                                                    *)

\* A Node object: is it there, cordoned, marked for deletion, and does its
\* status list the EIP among the node's addresses.
NodeObject == [exists: BOOLEAN, unsched: BOOLEAN, deleting: BOOLEAN, listed: BOOLEAN]

\* What the handlers read of the copy of a Node an event carries.
Snapshot == [unsched: BOOLEAN, listed: BOOLEAN]

Event == [kind: {"update", "delete", "tombstone"}, node: Nodes,
          old: Snapshot, new: Snapshot]

Task == [pc: {"idle", "filterOld", "read", "probe", "list", "try", "detach", "attach"},
         self: Nodes \union {NoNode},
         listed: BOOLEAN,          \* the event's copy of self lists the EIP
         away: BOOLEAN,            \* tryReassignAwayFromSelf, not doHealthCheck
         assn: SUBSET Nodes,       \* assignments of the reservation as read
         cands: SUBSET Nodes,      \* candidates still to be probed
         alias: SUBSET Nodes,      \* candidates that list the EIP, then the
                                   \* target if only the EIP answered for it
         target: Nodes \union {NoNode}]

NoTask == [pc |-> "idle", self |-> NoNode, listed |-> FALSE,
           away |-> FALSE, assn |-> {}, cands |-> {}, alias |-> {},
           target |-> NoNode]

AtMostOne(S) == \A a, b \in S : a = b

SnapshotOf(obj) == [unsched |-> obj.unsched, listed |-> obj.listed]

Deliver(kind, n, old, new) ==
    queue' = Append(queue, [kind |-> kind, node |-> n,
                            old |-> SnapshotOf(old), new |-> SnapshotOf(new)])

\* An update of a Node object and the event the informer delivers for it.
UpdateNode(n, obj) ==
    /\ node' = [node EXCEPT ![n] = obj]
    /\ Deliver("update", n, node[n], obj)

PortsKnown == apiServerPort # NoPort /\ nodeAPIServerPort # NoPort

Disturb(kind) ==
    /\ kind \in Disturbances
    /\ faults < MaxFaults
    /\ faults' = faults + 1

-----------------------------------------------------------------------------
(* The filters of tryReassign, over the Node objects as they are listed.    *)

controlPlaneNodes == {n \in Nodes : node[n].exists}

filterDeletingNodes(S) == {n \in S : ~node[n].deleting}

tryFilterUnschedulableNodes(S) ==
    LET schedulable == {n \in S : ~node[n].unsched}
    IN  IF schedulable # {} THEN schedulable ELSE S

tryFilterSelf(self, S) == IF S \ {self} # {} THEN S \ {self} ELSE S

potentialNodes(t) ==
    LET live == tryFilterUnschedulableNodes(filterDeletingNodes(controlPlaneNodes))
    IN  IF t.away THEN tryFilterSelf(t.self, live) ELSE live

-----------------------------------------------------------------------------
(* The manager: one pass over one node event.                               *)

Finish == task' = NoTask /\ wasUp' = {}

\* What the informer's filter and the handler make of an event whose old and
\* new object it accepted or not: the pass that starts, or none.
Dispatch(e, old, new) ==
    IF old /\ new
      THEN [NoTask EXCEPT !.pc = "read", !.self = e.node, !.listed = e.new.listed,
                          !.away = ~e.old.unsched /\ e.new.unsched]
    ELSE IF old
      THEN [NoTask EXCEPT !.pc = "read", !.self = e.node, !.listed = e.old.listed,
                          !.away = TRUE]
    ELSE NoTask

\* FilteringResourceEventHandler.OnUpdate applies the filter to the new object
\* and then to the old one.  Known ports stay known, so that only a filter that
\* rejected the new object needs a second step: the ports may be learned between.
FilterUpdate ==
    /\ task.pc = "idle"
    /\ queue # <<>>
    /\ Head(queue).kind = "update"
    /\ IF PortsKnown
         THEN /\ task' = Dispatch(Head(queue), TRUE, TRUE)
              /\ queue' = Tail(queue)
         ELSE /\ task' = [NoTask EXCEPT !.pc = "filterOld"]
              /\ UNCHANGED queue
    /\ UNCHANGED <<world, node, metal, ports, wasUp>>

FilterOld ==
    /\ task.pc = "filterOld"
    /\ task' = Dispatch(Head(queue), PortsKnown, FALSE)
    /\ queue' = Tail(queue)
    /\ UNCHANGED <<world, node, metal, ports, wasUp>>

\* OnDelete applies the filter once, to the last state of the object.
FilterDelete ==
    /\ task.pc = "idle"
    /\ queue # <<>>
    /\ Head(queue).kind = "delete"
    /\ task' = Dispatch(Head(queue), PortsKnown, FALSE)
    /\ queue' = Tail(queue)
    /\ UNCHANGED <<world, node, metal, ports, wasUp>>

\* Mutant: an EIP assigned to no device is not looked at.
MustMoveHeldOnly == task.away /\ task.listed

\* Both handlers read the reservation first; more than one assignment is an error.
MustMove == assigned = {} \/ (task.away /\ task.listed)
MustProbe == assigned # {} /\ ~task.away /\ task.listed

GetReservation ==
    /\ task.pc = "read"
    /\ task' = IF AtMostOne(assigned) /\ MustMove
                 THEN [task EXCEPT !.pc = "list", !.assn = assigned]
               ELSE IF AtMostOne(assigned) /\ MustProbe
                 THEN [task EXCEPT !.pc = "probe", !.assn = assigned]
               ELSE NoTask
    /\ UNCHANGED <<world, node, metal, ports, queue, wasUp>>

\* The API servers that answer.
Up == {n \in Nodes : server[n] # NoPort}

\* A GET to the EIP at a port reaches device n and is answered.  The configured
\* port of the EIP is forwarded to the API server's, any other is not.
AnswersEIP(n, port) == n \in Up /\ port \in {server[n], ConfigPort}

\* The devices a health check may reach through the EIP or the host's address, and
\* those of them that answer at the port it asks.
HealthCheckServers == IF UseHostIP THEN {task.self} ELSE assigned

Healthy(n) == IF UseHostIP THEN server[n] = nodeAPIServerPort
                           ELSE AnswersEIP(n, apiServerPort)

HealthCheckPasses ==
    /\ task.pc = "probe"
    /\ \E n \in HealthCheckServers : Healthy(n)
    /\ Finish
    /\ UNCHANGED <<world, node, metal, ports, queue>>

\* Mutant: a failed health check is only logged.
HealthCheckFailsQuietly ==
    /\ task.pc = "probe"
    /\ HealthCheckServers = {} \/ \E n \in HealthCheckServers : ~Healthy(n)
    /\ Finish
    /\ UNCHANGED <<world, node, metal, ports, queue>>

HealthCheckFails ==
    /\ task.pc = "probe"
    /\ HealthCheckServers = {} \/ \E n \in HealthCheckServers : ~Healthy(n)
    /\ task' = [task EXCEPT !.pc = "list"]
    /\ UNCHANGED <<world, node, metal, ports, queue, wasUp>>

\* tryReassign lists the control plane nodes and filters them.
ListCandidates ==
    /\ task.pc = "list"
    /\ LET cands == potentialNodes(task)
       IN  task' = [task EXCEPT !.pc = "try", !.cands = cands,
                                !.alias = {n \in cands : node[n].listed}]
    /\ wasUp' = Up
    /\ UNCHANGED <<world, node, metal, ports, queue>>

\* A candidate is probed at every address it lists, at the port of the nodes.  The
\* EIP among them is skipped only if that is the port the EIP is known to listen
\* on; otherwise the device that has the EIP answers, or not.
AnswersItself(n) == server[n] = nodeAPIServerPort

ProbedAtEIP(n) == n \in task.alias /\ apiServerPort # nodeAPIServerPort

\* Mutant: any response will do, not only 200.
CandidateAnswersAnyhow(n) ==
    /\ task.pc = "try"
    /\ n \in task.cands
    /\ task' = [task EXCEPT !.target = n, !.cands = {}, !.alias = {},
                   !.pc = IF task.assn = {} THEN "attach" ELSE "detach"]
    /\ UNCHANGED <<world, node, metal, ports, queue, wasUp>>

\* Mutant: the old assignment is never deleted.
CandidateAnswersKeepingHolder(n) ==
    /\ task.pc = "try"
    /\ n \in task.cands
    /\ AnswersItself(n)
    /\ task' = [task EXCEPT !.target = n, !.cands = {}, !.alias = {}, !.pc = "attach"]
    /\ UNCHANGED <<world, node, metal, ports, queue, wasUp>>

CandidateAnswers(n) ==
    /\ task.pc = "try"
    /\ n \in task.cands
    /\ \/ AnswersItself(n)
       \/ ProbedAtEIP(n) /\ \E s \in assigned : AnswersEIP(s, nodeAPIServerPort)
    /\ IF n \in BadProviderID
         THEN Finish
         ELSE /\ task' = [task EXCEPT !.target = n, !.cands = {},
                             !.alias = IF AnswersItself(n) THEN {} ELSE {n},
                             !.pc = IF task.assn = {} THEN "attach" ELSE "detach"]
              /\ UNCHANGED wasUp
    /\ UNCHANGED <<world, node, metal, ports, queue>>

CandidateFails(n) ==
    /\ task.pc = "try"
    /\ n \in task.cands
    /\ ~AnswersItself(n)
    /\ ProbedAtEIP(n) =>
         assigned = {} \/ \E s \in assigned : ~AnswersEIP(s, nodeAPIServerPort)
    /\ task' = [task EXCEPT !.cands = @ \ {n}, !.alias = @ \ {n}]
    /\ UNCHANGED <<world, node, metal, ports, queue, wasUp>>

\* Mutant: the loop ends without a candidate and the assignment is made anyway.
NoCandidateLeftFallsThrough ==
    /\ task.pc = "try"
    /\ task.cands = {}
    /\ task' = [task EXCEPT !.pc = "attach"]
    /\ UNCHANGED <<world, node, metal, ports, queue, wasUp>>

NoCandidateLeft ==
    /\ task.pc = "try"
    /\ task.cands = {}
    /\ Finish
    /\ UNCHANGED <<world, node, metal, ports, queue>>

\* DeleteIPAddress of the assignment read; an error when it is gone meanwhile.
Detach ==
    /\ task.pc = "detach"
    /\ IF task.assn \subseteq assigned
         THEN /\ assigned' = assigned \ task.assn
              /\ manual' = manual \ task.assn
              /\ task' = [task EXCEPT !.pc = "attach"]
              /\ UNCHANGED wasUp
         ELSE Finish /\ UNCHANGED metal
    /\ UNCHANGED <<world, node, ports, queue>>

\* CreateIPAssignment to the candidate's device.
Attach ==
    /\ task.pc = "attach"
    /\ assigned' = assigned \union {task.target}
    /\ Finish
    /\ UNCHANGED <<world, node, manual, ports, queue>>

\* A new process has the configuration and an informer that delivers the
\* existing nodes as additions, which have no handler.
Restart ==
    /\ Finish
    /\ queue' = <<>>
    /\ apiServerPort' = ConfigPort
    /\ nodeAPIServerPort' = NoPort
    /\ UNCHANGED targetPort

\* A deletion the watch missed is delivered as a DeletedFinalStateUnknown: the
\* filter's type assertion yields a nil Node and dereferencing it panics.
PanicOnTombstone ==
    /\ task.pc = "idle"
    /\ queue # <<>>
    /\ Head(queue).kind = "tombstone"
    /\ Restart
    /\ UNCHANGED <<world, node, metal>>

Manager ==
    \/ FilterUpdate \/ FilterOld \/ FilterDelete \/ PanicOnTombstone
    \/ GetReservation
    \/ HealthCheckPasses \/ HealthCheckFails
    \/ ListCandidates
    \/ \E n \in Nodes : CandidateAnswers(n) \/ CandidateFails(n)
    \/ NoCandidateLeft
    \/ Detach \/ Attach

-----------------------------------------------------------------------------
(* Failures of the manager's calls, and of its process.                     *)

\* A call to the Equinix Metal or Kubernetes API fails: the handler logs the
\* error and returns.
CallFails ==
    /\ task.pc \in {"read", "list", "detach", "attach"}
    /\ Disturb("call")
    /\ Finish
    /\ UNCHANGED <<server, node, metal, ports, queue>>

\* The Equinix Metal API obeys a call whose response is lost.
ResponseLost ==
    /\ Disturb("call")
    /\ \/ /\ task.pc = "detach"
          /\ task.assn \subseteq assigned
          /\ assigned' = assigned \ task.assn
          /\ manual' = manual \ task.assn
       \/ /\ task.pc = "attach"
          /\ assigned' = assigned \union {task.target}
          /\ UNCHANGED manual
    /\ Finish
    /\ UNCHANGED <<server, node, ports, queue>>

\* A GET /healthz times out although the API server is up.
ProbeTimesOut ==
    /\ Disturb("call")
    /\ \/ /\ task.pc = "probe"
          /\ task' = [task EXCEPT !.pc = "list"]
       \/ \E n \in task.cands :
            /\ task.pc = "try"
            /\ task' = [task EXCEPT !.cands = @ \ {n}, !.alias = @ \ {n}]
    /\ UNCHANGED <<server, node, metal, ports, queue, wasUp>>

Crash ==
    /\ Disturb("crash")
    /\ Restart
    /\ UNCHANGED <<server, node, metal>>

-----------------------------------------------------------------------------
(* The service informer's goroutine.                                        *)

\* syncService, for every addition, update and resync of default/kubernetes, takes
\* over the port of the nodes; the port of the EIP keeps its first value.  It does so
\* before it calls any API; what it does to the external service is not part of
\* this module's state.
SyncService ==
    /\ nodeAPIServerPort' = targetPort
    /\ apiServerPort' = IF apiServerPort = NoPort THEN targetPort ELSE apiServerPort
    /\ UNCHANGED <<world, targetPort, node, metal, queue, task, wasUp>>

-----------------------------------------------------------------------------
(* Kubernetes.                                                              *)

\* The informer's resync, and any update of a Node that changes nothing here;
\* at most one is in the queue, and none comes before the queue is empty.
Resync(n) ==
    /\ node[n].exists
    /\ queue = <<>>
    /\ UpdateNode(n, node[n])
    /\ UNCHANGED <<world, metal, ports, task, wasUp>>

\* The cloud node controller copies the device's addresses to the Node.
RefreshAddresses(n) ==
    /\ node[n].exists
    /\ node[n].listed # (n \in assigned)
    /\ UpdateNode(n, [node[n] EXCEPT !.listed = n \in assigned])
    /\ UNCHANGED <<world, metal, ports, task, wasUp>>

Cordon(n) ==
    /\ node[n].exists /\ ~node[n].unsched
    /\ Disturb("cordon")
    /\ UpdateNode(n, [node[n] EXCEPT !.unsched = TRUE])
    /\ UNCHANGED <<server, metal, ports, task, wasUp>>

Uncordon(n) ==
    /\ node[n].exists /\ node[n].unsched
    /\ Disturb("cordon")
    /\ UpdateNode(n, [node[n] EXCEPT !.unsched = FALSE])
    /\ UNCHANGED <<server, metal, ports, task, wasUp>>

\* Deletion is requested while a finalizer holds the Node.
MarkDeleting(n) ==
    /\ node[n].exists /\ ~node[n].deleting
    /\ Disturb("delete")
    /\ UpdateNode(n, [node[n] EXCEPT !.deleting = TRUE])
    /\ UNCHANGED <<server, metal, ports, task, wasUp>>

Absent == [exists |-> FALSE, unsched |-> FALSE, deleting |-> FALSE, listed |-> FALSE]

\* The Node is gone; the watch delivers that or misses it.
RemoveNode(n) ==
    /\ node[n].exists
    /\ IF node[n].deleting THEN UNCHANGED faults ELSE Disturb("delete")
    /\ node' = [node EXCEPT ![n] = Absent]
    /\ \E kind \in {"delete", "tombstone"} : Deliver(kind, n, node[n], node[n])
    /\ UNCHANGED <<server, metal, ports, task, wasUp>>

\* A Node is created: an addition, which has no handler.
AddNode(n) ==
    /\ ~node[n].exists
    /\ node' = [node EXCEPT ![n] = [Absent EXCEPT !.exists = TRUE, !.listed = n \in assigned]]
    /\ UNCHANGED <<world, metal, ports, queue, task, wasUp>>

\* An API server with another port takes over the service default/kubernetes.
ChangePort ==
    /\ Disturb("port")
    /\ targetPort' \in KubePorts \ {targetPort}
    /\ UNCHANGED <<server, node, metal, apiServerPort, nodeAPIServerPort, queue, task,
                   wasUp>>

Kubernetes ==
    \/ ChangePort
    \/ \E n \in Nodes :
        \/ Resync(n) \/ RefreshAddresses(n)
        \/ Cordon(n) \/ Uncordon(n)
        \/ MarkDeleting(n) \/ RemoveNode(n) \/ AddNode(n)

-----------------------------------------------------------------------------
(* The devices and the operator.                                            *)

ServerStops(n) ==
    /\ n \in Up
    /\ Disturb("stop")
    /\ server' = [server EXCEPT ![n] = NoPort]
    /\ UNCHANGED <<node, metal, ports, queue, task, wasUp>>

ServerStarts(n) ==
    /\ n \notin Up
    /\ \E port \in KubePorts : server' = [server EXCEPT ![n] = port]
    /\ wasUp' = IF task.pc = "try" THEN wasUp \union {n} ELSE wasUp
    /\ UNCHANGED <<faults, node, metal, ports, queue, task>>

\* Not an assignment with the identifier the pass under way has read.
OperatorAssigns(n) ==
    /\ n \notin assigned \union task.assn
    /\ Disturb("operator")
    /\ assigned' = assigned \union {n}
    /\ manual' = manual \union {n}
    /\ UNCHANGED <<server, node, ports, queue, task, wasUp>>

OperatorUnassigns(n) ==
    /\ n \in assigned
    /\ Disturb("operator")
    /\ assigned' = assigned \ {n}
    /\ manual' = manual \ {n}
    /\ UNCHANGED <<server, node, ports, queue, task, wasUp>>

World ==
    \E n \in Nodes :
        \/ ServerStops(n) \/ ServerStarts(n)
        \/ OperatorAssigns(n) \/ OperatorUnassigns(n)

-----------------------------------------------------------------------------
\* The manager starts in a cluster in any condition, with the EIP assigned to
\* at most one device and that Node listing it.
Init ==
    /\ targetPort \in KubePorts
    /\ server \in [Nodes -> KubePorts \union {NoPort}]
    /\ assigned \in {S \in SUBSET Nodes : AtMostOne(S)}
    /\ node = [n \in Nodes |-> [exists |-> TRUE, unsched |-> FALSE,
                                deleting |-> FALSE, listed |-> n \in assigned]]
    /\ apiServerPort = ConfigPort
    /\ nodeAPIServerPort = NoPort
    /\ queue = <<>>
    /\ task = NoTask
    /\ faults = 0
    /\ manual = {}
    /\ wasUp = {}

Faults == CallFails \/ ResponseLost \/ ProbeTimesOut \/ Crash

Next == Manager \/ Faults \/ SyncService \/ Kubernetes \/ World

Spec == Init /\ [][Next]_vars

\* The informer's goroutines run, its resync period elapses for every node, and
\* the cloud node controller's period does; nothing makes the world act.
Fairness ==
    /\ WF_vars(Manager)
    /\ WF_vars(SyncService)
    /\ \A n \in Nodes : SF_vars(Resync(n)) /\ WF_vars(RefreshAddresses(n))

FairSpec == Spec /\ Fairness

-----------------------------------------------------------------------------
(* Properties.                                                              *)

\* Every variable keeps its type.
TypeOK ==
    /\ server \in [Nodes -> KubePorts \union {NoPort}]
    /\ targetPort \in KubePorts
    /\ node \in [Nodes -> NodeObject]
    /\ assigned \in SUBSET Nodes
    /\ apiServerPort \in KubePorts \union {ConfigPort}
    /\ nodeAPIServerPort \in KubePorts \union {NoPort}
    /\ queue \in Seq(Event)
    /\ task \in Task
    /\ faults \in 0 .. MaxFaults
    /\ manual \in SUBSET assigned
    /\ wasUp \in SUBSET Nodes

\* Whatever crashes, lost responses, stale addresses and operators do, at most
\* one device has the EIP by the manager's own doing (lines 271-284 detach the
\* one assignment read before they attach).
SingleHolder == AtMostOne(assigned \ manual)

\* The manager attaches the EIP only to a node whose own API server was up at
\* some time since the pass listed its candidates (lines 245-269; step 6 of the
\* comment at lines 49-50), or to one that only the EIP answered for: the EIP is
\* probed as an address of any Node that lists it once the port of the nodes is
\* no longer the one the EIP was first given (lines 246-250, 513-517).
MovesToLiveServer ==
    [][\A n \in (assigned' \ manual') \ assigned : n \in wasUp \union task.alias]_vars

\* The node that was chosen for what the EIP answered.
StoodFor == IF task.pc \in {"detach", "attach"} THEN task.alias ELSE {}

\* The manager does no more to the EIP than its abstract specification allows:
\* it releases the one device it read, finds its own assignments gone, and only
\* then assigns a device whose API server it has found up, or one that the holder
\* of the EIP has answered for (lines 232-292).
Abstract == INSTANCE ElasticIP
    WITH Nodes <- Nodes, up <- Up, assigned <- assigned, manual <- manual,
         wasUp <- wasUp, stood <- StoodFor
ImplementsElasticIP == Abstract!Spec

\* A candidate the filters let through answers at the port of the nodes.
SomeEligibleUp ==
    \E n \in tryFilterUnschedulableNodes(filterDeletingNodes(controlPlaneNodes)) :
        server[n] = targetPort

\* The EIP answers at the port it listens on.
HealthyHolder == \E n \in assigned : AnswersEIP(n, apiServerPort)

\* The EIP listens on the port of the nodes, or on one forwarded to it.
RightPort == apiServerPort \in {targetPort, ConfigPort}

\* Once the disturbances are over, a cluster with an eligible node that is up, and
\* whose EIP listens on the right port and is not on a device without a Node, gets
\* the EIP onto a device that answers, for good (doHealthCheck on every resync,
\* lines 558-626).
EventuallyHealthyHolder ==
    <>[](/\ SomeEligibleUp /\ RightPort
         /\ AtMostOne(assigned) /\ assigned \subseteq controlPlaneNodes)
        => <>[]HealthyHolder

\* An EIP left unassigned, by a crash or an error between detach and attach or by
\* an operator, is taken by some device (lines 576-580).
UnassignedIsTaken == <>[]SomeEligibleUp => []<>(assigned # {})

=============================================================================
