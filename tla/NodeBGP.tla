------------------------------- MODULE NodeBGP -------------------------------
(* What the CCM does to nodes.  The cloud node controller asks Instances for *)
(* the device of a new Node and writes its provider ID; the lifecycle        *)
(* controller deletes Nodes whose device is gone; and both workers of the    *)
(* service controller go through the nodes in addService and in              *)
(* UpdateLoadBalancer: enable BGP on the device, annotate the Node, read its *)
(* neighbours, and hand the nodes to the load balancer as peers.  The nodes  *)
(* come from the informer's cache, whose objects the workers share and       *)
(* annotateNode writes into.                                                 *)
EXTENDS Integers, FiniteSets

CONSTANTS
    Nodes,         \* names of nodes, which are the hostnames of their devices
    Slow,          \* those whose BGP neighbours take a while to appear
    Bare,          \* those that join without a single annotation
    Founders,      \* those that are there when the controller starts
    Disturbances,  \* which of "call" "crash" "race" happen
    MaxFaults,     \* bound on them
    MaxChanges     \* bound on changes of the cluster

ASSUME DisturbancesAssumption == Disturbances \subseteq {"call", "crash", "race"}
ASSUME NodesAssumption == IsFiniteSet(Nodes) /\ (Slow \union Bare \union Founders) \subseteq Nodes
ASSUME BoundsAssumption == MaxFaults \in Nat /\ MaxChanges \in Nat

VARIABLES
    device,   \* Equinix Metal: the ID of the device of this name (0: none), its BGP session and neighbours
    node,     \* the Node objects of the Kubernetes API
    copies,   \* copies of each Node in memory
    cached,   \* which of them the informer's cache points to, 0 for none
    peers,    \* the nodes the load balancer has as peers
    todo,     \* the workers with something queued
    tasks,    \* what each worker is doing
    faults, changes

vars == <<device, node, copies, cached, peers, todo, tasks, faults, changes>>

Workers == {"service", "nodes"}
Places  == 1 .. 3   \* one copy in the cache and one older in each worker's hands
DeviceIds == 0 .. MaxChanges + 1

\* network, bgp: has it the annotations of the private network, of the BGP peers?
\* others: has it annotations of somebody else?
Node(provider, others) == [provider |-> provider, network |-> FALSE, bgp |-> FALSE, others |-> others]
NoNode == Node(-1, FALSE)
Exists(n) == node[n] # NoNode

\* A nil map of annotations cannot be written into.
NilMap(copy) == ~copy.network /\ ~copy.bgp /\ ~copy.others

NoDevice == [id |-> 0, session |-> FALSE, neighbours |-> "none"]

\* own: the map annotateNode makes when the Node has none.
Idle == [pc |-> "idle", left |-> {}, at |-> [n \in Nodes |-> 0], got |-> {}, own |-> NoNode]

Init ==
    /\ device = [n \in Nodes |-> IF n \in Founders THEN [NoDevice EXCEPT !.id = 1] ELSE NoDevice]
    /\ node = [n \in Nodes |-> IF n \in Founders THEN Node(1, n \notin Bare) ELSE NoNode]
    /\ copies = [n \in Nodes |-> [p \in Places |-> IF p = 1 THEN node[n] ELSE NoNode]]
    /\ cached = [n \in Nodes |-> IF n \in Founders THEN 1 ELSE 0]
    /\ peers = {}
    /\ todo = {"service"}
    /\ tasks = [w \in Workers |-> Idle]
    /\ faults = 0
    /\ changes = 0

Disturb(kind) ==
    /\ kind \in Disturbances
    /\ faults < MaxFaults
    /\ faults' = faults + 1

Change ==
    /\ changes < MaxChanges
    /\ changes' = changes + 1

----------------------------------------------------------------------------
(* Instances (devices.go) *)

\* What a request about one device answers: "none" is a network error, without a response.
Answers(found) ==
    {IF found THEN "found" ELSE "404"}
    \union (IF "call" \in Disturbances /\ faults < MaxFaults THEN {"500", "none"} ELSE {})

Counted(answer) == faults' = faults + (IF answer \in {"500", "none"} THEN 1 ELSE 0)

\* Mutant: any error means that the device is not there.
AnyError(answer) == IF answer = "found" THEN "no" ELSE "yes"

\* The status of an answer that is not there is read.
isNotFound(answer) ==
    CASE answer = "none" -> "panic" [] answer = "404" -> "yes" [] OTHER -> "no"

\* A provider ID is required, and only a device that is not found does not exist.
InstanceExists(answer) ==
    CASE isNotFound(answer) = "panic" -> "panic"
      [] isNotFound(answer) = "yes"   -> "false"
      [] answer = "found"             -> "true"
      [] OTHER                        -> "error"

\* Mutant: the hostname in place of the ID.
deviceNamed(n) == n

\* InstanceMetadata: without a provider ID the device is found by the name of the Node.
deviceByName(n) == device[n].id

----------------------------------------------------------------------------
(* The informer, and the process *)

\* The places of copies that are still in use.
Used(n) == {cached[n]} \union {tasks[w].at[n] : w \in Workers}

\* A Node has come, gone, or got its provider ID: every service is updated.
Relevant(before, after) == before.provider # after.provider

Refresh(n) ==
    LET before == IF cached[n] = 0 THEN NoNode ELSE copies[n][cached[n]]
        place == CHOOSE p \in Places : p \notin Used(n) \/ (p = cached[n] /\ \A w \in Workers : tasks[w].at[n] # p) IN
    /\ before # node[n]
    /\ cached' = [cached EXCEPT ![n] = IF Exists(n) THEN place ELSE 0]
    /\ copies' = [copies EXCEPT ![n] =
                    [p \in Places |-> IF p = place THEN node[n]
                                      ELSE IF p \in {tasks[w].at[n] : w \in Workers} THEN @[p] ELSE NoNode]]
    /\ todo' = IF Relevant(before, node[n]) THEN todo \union {"nodes"} ELSE todo
    /\ UNCHANGED <<device, node, peers, tasks, faults, changes>>

\* A new process lists the nodes and has every service and node in its queues.
Restart ==
    /\ tasks' = [w \in Workers |-> Idle]
    /\ todo' = Workers
    /\ copies' = [n \in Nodes |-> [p \in Places |-> IF p = 1 THEN node'[n] ELSE NoNode]]
    /\ cached' = [n \in Nodes |-> IF node'[n] # NoNode THEN 1 ELSE 0]

Crash ==
    /\ Disturb("crash")
    /\ UNCHANGED node
    /\ Restart
    /\ UNCHANGED <<device, peers, changes>>

----------------------------------------------------------------------------
(* The cloud node controller and the lifecycle controller *)

\* The list of devices is read; a failure is an error and the Node is tried again.
InitializeNode(n) ==
    /\ Exists(n) /\ node[n].provider = 0
    /\ deviceByName(n) # 0
    /\ node' = [node EXCEPT ![n].provider = deviceByName(n)]
    /\ UNCHANGED <<device, copies, cached, peers, todo, tasks, faults, changes>>

\* Nodes that are not ready are looked at; a Node whose device is there is ready again some time.
CheckNode(n) ==
    /\ Exists(n) /\ node[n].provider # 0
    /\ \E answer \in Answers(device[n].id = node[n].provider) :
        /\ Counted(answer)
        /\ CASE InstanceExists(answer) = "false" ->
                  node' = [node EXCEPT ![n] = NoNode] /\ UNCHANGED <<copies, cached, todo, tasks>>
             [] InstanceExists(answer) = "panic" -> UNCHANGED node /\ Restart
             [] OTHER -> UNCHANGED <<node, copies, cached, todo, tasks>>
    /\ UNCHANGED <<device, peers, changes>>

----------------------------------------------------------------------------
(* The service controller: addService in the worker "service",               *)
(* UpdateLoadBalancer in the worker "nodes".                                 *)

At(w, pc) == tasks[w].pc = pc
Become(w, task) == tasks' = [tasks EXCEPT ![w] = task]

Begin(w) ==
    /\ At(w, "idle") /\ w \in todo
    /\ todo' = todo \ {w}
    /\ Become(w, [Idle EXCEPT !.pc = "enable", !.left = {n \in Nodes : cached[n] # 0}, !.at = cached])
    /\ UNCHANGED <<device, node, copies, cached, peers, faults, changes>>

\* The node of the list that is being worked on, and its copy.
Current(t) == CHOOSE n \in t.left : TRUE
Held(t) == copies[Current(t)][t.at[Current(t)]]

\* The loop goes on with the next node; this one is a peer, or is left out.
Skip(t) == [t EXCEPT !.pc = "enable", !.left = @ \ {Current(t)}, !.at[Current(t)] = 0, !.own = NoNode]
Take(t) == [Skip(t) EXCEPT !.got = @ \union {Current(t)}]

\* Mutant: an error of an update ends it as if it had been made.
GivesUp(w) == Become(w, Idle) /\ UNCHANGED todo

\* A service that could not be made or updated is queued with the services, whichever worker
\* failed: an update is not repeated, but followed by addService.
Requeue(w) == Become(w, Idle) /\ todo' = todo \union {"service"}

\* A node that fails is logged and left out by addService, and ends UpdateLoadBalancer.
NodeFails(w) ==
    IF w = "service" THEN Become(w, Skip(tasks[w])) /\ UNCHANGED todo ELSE Requeue(w)

NoProviderID(w) ==
    LET t == tasks[w] IN
    /\ At(w, "enable") /\ t.left # {}
    /\ Held(t).provider = 0
    /\ NodeFails(w)
    /\ UNCHANGED <<device, node, copies, cached, peers, faults, changes>>

\* The neighbours of a session appear at once or, on slow nodes, later.
WithSession(n) ==
    [device EXCEPT ![n] = [id |-> @.id, session |-> TRUE,
                           neighbours |-> IF n \in Slow \/ @.session THEN @.neighbours ELSE "full"]]

\* Mutant: only what is patched is looked for.
AnnotatedByOthers(copy) == copy.network \/ copy.others

\* A Node that has the annotation of the network has them all.
Annotated(copy) == copy.network

\* annotateNode returns at once, or makes a map where the Node has none.
Annotate(t) ==
    IF Annotated(Held(t)) THEN [t EXCEPT !.pc = "peer"]
    ELSE [t EXCEPT !.pc = "network", !.own = IF NilMap(Held(t)) THEN Node(0, FALSE) ELSE NoNode]

\* A refused session leaves the node out of updates as well; without a response
\* the status of none is read.
EnableBGP(w) ==
    LET t == tasks[w]  n == Current(t)  there == device[n].id = Held(t).provider IN
    /\ At(w, "enable") /\ t.left # {}
    /\ Held(t).provider # 0
    /\ \E answer \in Answers(there), obeyed \in BOOLEAN :
        /\ answer = "found" => obeyed
        /\ obeyed => there
        /\ Counted(answer)
        /\ device' = IF obeyed THEN WithSession(n) ELSE device
        /\ CASE answer = "none" -> UNCHANGED node /\ Restart
             [] answer = "found" -> Become(w, Annotate(t)) /\ UNCHANGED <<node, copies, cached, todo>>
             [] OTHER -> Become(w, Skip(t)) /\ UNCHANGED <<node, copies, cached, todo>>
    /\ UNCHANGED <<peers, changes>>

\* A map of annotations with those of the network, of the peers, added.
Marked(map, network, bgp) == [map EXCEPT !.network = @ \/ network, !.bgp = @ \/ bgp]

\* Mutant: the network is patched in before the neighbours are known.
PatchedAtOnce(w, network, bgp, pc) ==
    Become(w, [tasks[w] EXCEPT !.pc = "patch", !.own = Marked(Held(tasks[w]), network, bgp)]) /\ UNCHANGED copies

\* The annotations are written into the map of the copy, or into a map of its own.
Write(w, network, bgp, pc) ==
    LET t == tasks[w]  n == Current(t) IN
    IF t.own # NoNode
    THEN Become(w, [t EXCEPT !.pc = pc, !.own = Marked(@, network, bgp)]) /\ UNCHANGED copies
    ELSE /\ copies' = [copies EXCEPT ![n][t.at[n]] = Marked(@, network, bgp)]
         /\ Become(w, [t EXCEPT !.pc = pc])

\* getNodePrivateNetwork
GetNetwork(w) ==
    LET t == tasks[w] IN
    /\ At(w, "network")
    /\ \E answer \in Answers(device[Current(t)].id = Held(t).provider) :
        /\ Counted(answer)
        /\ IF answer = "found" THEN Write(w, TRUE, FALSE, "bgp") /\ UNCHANGED todo
           ELSE NodeFails(w) /\ UNCHANGED copies
    /\ UNCHANGED <<device, node, cached, peers, changes>>

\* getNodeBGPConfig: an error when there is no IPv4 neighbour.
Neighbours(w) == device[Current(tasks[w])].neighbours
Known(w) == device[Current(tasks[w])].id = Held(tasks[w]).provider /\ Neighbours(w) # "none"

\* A neighbour without peer IPs is no error.
GetPeer(w) ==
    LET t == tasks[w] IN
    /\ At(w, "bgp")
    /\ \E answer \in Answers(Known(w)) :
        /\ Counted(answer)
        /\ IF answer # "found" THEN NodeFails(w) /\ UNCHANGED copies
           ELSE IF Neighbours(w) = "empty"
           THEN Become(w, [t EXCEPT !.pc = "patch"]) /\ UNCHANGED <<copies, todo>>
           ELSE Write(w, FALSE, TRUE, "patch") /\ UNCHANGED todo
    /\ UNCHANGED <<device, node, cached, peers, changes>>

\* All annotations of the copy are patched in.
PatchNode(w) ==
    LET t == tasks[w]  n == Current(t)  map == IF t.own # NoNode THEN t.own ELSE Held(t) IN
    /\ At(w, "patch")
    /\ \E answer \in Answers(Exists(n)), obeyed \in BOOLEAN :
        /\ answer = "found" => obeyed
        /\ obeyed => Exists(n)
        /\ Counted(answer)
        /\ node' = IF obeyed THEN [node EXCEPT ![n] = Marked(@, map.network, map.bgp)] ELSE node
        /\ IF answer = "found" THEN Become(w, [t EXCEPT !.pc = "peer"]) /\ UNCHANGED todo ELSE NodeFails(w)
    /\ UNCHANGED <<device, copies, cached, peers, changes>>

\* The neighbours are read once more.
AddPeer(w) ==
    /\ At(w, "peer")
    /\ \E answer \in Answers(Known(w)) :
        /\ Counted(answer)
        /\ IF answer = "found" THEN Become(w, Take(tasks[w])) /\ UNCHANGED todo ELSE NodeFails(w)
    /\ UNCHANGED <<device, node, copies, cached, peers, changes>>

\* AddService or UpdateService of the load balancer, which only adds peers.
Finish(w) ==
    LET t == tasks[w] IN
    /\ At(w, "enable") /\ t.left = {}
    /\ \E answer \in Answers(TRUE), obeyed \in BOOLEAN :
        /\ answer = "found" => obeyed
        /\ Counted(answer)
        /\ peers' = IF obeyed THEN peers \union t.got ELSE peers
        /\ IF answer = "found" THEN Become(w, Idle) /\ UNCHANGED todo ELSE Requeue(w)
    /\ UNCHANGED <<device, node, copies, cached, changes>>

\* Both workers are at the map of one copy and one of them writes: the runtime may stop.
MapRace ==
    LET s == tasks["service"]  u == tasks["nodes"] IN
    /\ {s.pc, u.pc} \subseteq {"network", "bgp", "patch"}
    /\ {s.pc, u.pc} \intersect {"network", "bgp"} # {}
    /\ Current(s) = Current(u) /\ s.at[Current(s)] = u.at[Current(u)]
    /\ s.own = NoNode /\ u.own = NoNode
    /\ Disturb("race")
    /\ UNCHANGED node
    /\ Restart
    /\ UNCHANGED <<device, peers, changes>>

----------------------------------------------------------------------------
(* The cluster *)

\* A device is deprovisioned, or another gets its hostname.
DeviceChanges(n) ==
    /\ Change
    /\ \E id \in {0, changes + 2} \ {device[n].id} : device' = [device EXCEPT ![n] = [NoDevice EXCEPT !.id = id]]
    /\ UNCHANGED <<node, copies, cached, peers, todo, tasks, faults>>

\* The kubelet of a device registers its Node.
Register(n) ==
    /\ ~Exists(n) /\ device[n].id # 0
    /\ node' = [node EXCEPT ![n] = Node(0, n \notin Bare)]
    /\ UNCHANGED <<device, copies, cached, peers, todo, tasks, faults, changes>>

NeighboursAppear(n) ==
    /\ device[n].session /\ device[n].neighbours # "full"
    /\ \E state \in {"empty", "full"} \ {device[n].neighbours} :
        device' = [device EXCEPT ![n].neighbours = state]
    /\ UNCHANGED <<node, copies, cached, peers, todo, tasks, faults, changes>>

Next ==
    \/ \E w \in Workers :
        \/ Begin(w) \/ NoProviderID(w) \/ EnableBGP(w) \/ GetNetwork(w)
        \/ GetPeer(w) \/ PatchNode(w) \/ AddPeer(w) \/ Finish(w)
    \/ \E n \in Nodes :
        \/ Refresh(n) \/ InitializeNode(n) \/ CheckNode(n)
        \/ DeviceChanges(n) \/ Register(n) \/ NeighboursAppear(n)
    \/ Crash \/ MapRace

Spec == Init /\ [][Next]_vars

WorkerSteps(w) ==
    \/ Begin(w) \/ NoProviderID(w) \/ EnableBGP(w) \/ GetNetwork(w)
    \/ GetPeer(w) \/ PatchNode(w) \/ AddPeer(w) \/ Finish(w)

\* Workers, controllers and the informer run, and neighbours appear; no failure is assumed.
FairSpec ==
    /\ Spec
    /\ \A w \in Workers : WF_vars(WorkerSteps(w) /\ UNCHANGED faults)
    /\ \A n \in Nodes :
        /\ WF_vars(Refresh(n)) /\ WF_vars(InitializeNode(n)) /\ WF_vars(Register(n))
        /\ WF_vars(CheckNode(n) /\ UNCHANGED faults)
        /\ WF_vars(NeighboursAppear(n))

----------------------------------------------------------------------------
(* Properties *)

Object == [provider : DeviceIds \union {-1}, network : BOOLEAN, bgp : BOOLEAN, others : BOOLEAN]

TypeOK ==
    /\ device \in [Nodes -> [id : DeviceIds, session : BOOLEAN, neighbours : {"none", "empty", "full"}]]
    /\ node \in [Nodes -> Object]
    /\ copies \in [Nodes -> [Places -> Object]]
    /\ cached \in [Nodes -> Places \union {0}]
    /\ peers \subseteq Nodes /\ todo \subseteq Workers
    /\ tasks \in [Workers -> [pc : {"idle", "enable", "network", "bgp", "patch", "peer"},
                              left : SUBSET Nodes, at : [Nodes -> Places \union {0}], got : SUBSET Nodes,
                              own : Object]]
    /\ faults \in 0 .. MaxFaults /\ changes \in 0 .. MaxChanges

\* A Node never has the annotation of the network without those of its peers, although calls
\* fail between the two and both workers write into one cached object: nobody would add them,
\* since the one stands for all (loadbalancers.go:320).  Neighbours without IPs are excepted.
WholeAnnotations == \A n \in Nodes \ Slow : node[n].network => node[n].bgp

\* A Node is only deleted when its device is gone, whatever the API answers (devices.go:40).
DeletedWithItsDevice ==
    [][\A n \in Nodes : Exists(n) /\ node'[n] = NoNode => device[n].id # node[n].provider]_vars

\* When nothing is queued or under way, each failed call has left at most one node without its
\* annotations or without its peer: addService goes on without the node it fails for
\* (loadbalancers.go:515-533), and an update that fails for one node, with all those after it
\* (loadbalancers.go:224-236), is followed by addService.  Slow nodes do not count: one that
\* joins before its neighbours are known ends the update, addService leaves it out without an
\* error, and nobody comes back for it.
AtRest ==
    /\ todo = {} /\ \A w \in Workers : tasks[w] = Idle
    /\ \A n \in Nodes : IF cached[n] = 0 THEN ~Exists(n) ELSE ~Relevant(copies[n][cached[n]], node[n])
Present(n) == Exists(n) /\ device[n].id # 0 /\ device[n].id = node[n].provider
Counts == Nodes \ Slow
Served(n) == n \in peers /\ node[n].network /\ node[n].bgp
RestsServed == AtRest => Cardinality({n \in Counts : Present(n) /\ ~Served(n)}) <= faults

\* Without failures, every node that is not slow and whose device stays is annotated and a peer
\* in the end: a new node, one that was replaced, and those that come after a slow one in an
\* update that ends with it (loadbalancers.go:209-236).
EventuallyServed ==
    <>[](faults = 0 /\ \A n \in Nodes : Exists(n) => device[n].id # 0)
        => <>[](\A n \in Counts : Exists(n) => Served(n))

=============================================================================
