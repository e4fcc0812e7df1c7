-------------------------- MODULE MetalLBConfigMap --------------------------
(***************************************************************************)
(* MetalLB configured by a ConfigMap: AddService, RemoveService and        *)
(* UpdateService of metal/loadbalancers/metallb/metallb.go, and the        *)
(* CMConfigurer of configmap.go.                                           *)
(*                                                                         *)
(* Every call reads the ConfigMap into m.config, changes that, and writes  *)
(* all of it back.  There is one CMConfigurer: calls made at the same time *)
(* share m.config, without a lock, and a write takes no notice of what was *)
(* written since the read.                                                 *)
(*                                                                         *)
(* The calls come from the service controller of k8s.io/cloud-provider:    *)
(* its service workers, which set up or tear down a service, one worker at *)
(* a time for each, and its node worker, which updates the services'       *)
(* nodes.  All of them are Workers here; with a single one no two calls    *)
(* overlap.                                                                *)
(*                                                                         *)
(* An address pool is one address and the set of services joined in its    *)
(* name; a peer is a node and the services it is for.  A pool or a peer    *)
(* without services is not there.                                          *)
(***************************************************************************)
EXTENDS Integers

CONSTANTS
    Services,      \* services, by namespace and name
    IPs,           \* addresses
    Nodes,         \* nodes, each with its BGP peer
    Workers,       \* goroutines of the service controller
    Nil,           \* a nil pointer, no address, no service
    Disturbances,  \* the kinds of disturbance that may happen
    MaxFaults      \* bound on their number

Config == [pools: [IPs -> SUBSET Services], peers: [Nodes -> SUBSET Services]]

ASSUME NilAssumption == Nil \notin IPs \union Services \union Workers \union Config
ASSUME FaultsAssumption ==
    Disturbances \subseteq {"call", "crash", "node", "skip"} /\ MaxFaults \in Nat

VARIABLES
    saved,    \* the ConfigMap in the Kubernetes API
    config,   \* m.config, shared by all calls
    address,  \* address[s]: the address service s has
    cluster,  \* the nodes of the cluster
    due,      \* services to be set up: the controller's queue of services
    stale,    \* services whose nodes are to be updated
    task,     \* task[w]: the call that worker w has under way
    faults,   \* disturbances so far
    skipped,  \* history: skipped[s]: the nodes the last set-up or update of s left out
    owner,    \* history: the worker that alone used m.config since its read
    overlap   \* history: calls have met, in m.config or over one address

history == <<skipped, owner, overlap>>
vars    == <<saved, config, address, cluster, due, stale, task, faults, history>>

-----------------------------------------------------------------------------
Task == [op: {"none", "add", "remove", "update"},
         pc: {"idle", "get", "load", "pool", "storePool", "writePool",
              "reget", "reload", "peers", "storePeers", "writePeers"},
         s: Services \union {Nil},
         ip: IPs \union {Nil},
         nodes: SUBSET Nodes,
         seen: Config \union {Nil}]   \* what the step under way has read

NoTask == [op |-> "none", pc |-> "idle", s |-> Nil, ip |-> Nil, nodes |-> {},
           seen |-> Nil]

Call(op, pc, s, ip, nodes) ==
    [op |-> op, pc |-> pc, s |-> s, ip |-> ip, nodes |-> nodes, seen |-> Nil]

Empty == [pools |-> [i \in IPs |-> {}], peers |-> [n \in Nodes |-> {}]]

Disturb(kind) ==
    /\ kind \in Disturbances
    /\ faults < MaxFaults
    /\ faults' = faults + 1

\* History: w reads the ConfigMap, or stores or writes what it has read.
Owns(w) == owner' = w /\ UNCHANGED <<overlap, skipped>>
Uses(w) == /\ owner' = IF owner = w THEN w ELSE Nil
           /\ overlap' = (overlap \/ owner # w)
           /\ UNCHANGED skipped

\* The nodes a set-up or an update of s passes on: all, or those that the calls
\* about each of them have not failed for.
Passed(s, nodes) ==
    /\ \/ nodes = cluster /\ UNCHANGED faults
       \/ nodes \in SUBSET cluster /\ Disturb("skip")
    /\ skipped' = [skipped EXCEPT ![s] = cluster \ nodes]

\* History: an address is set up before the call that removes it has ended.
Meets(i) == overlap' = (overlap \/ \E w \in Workers : task[w].op = "remove" /\ task[w].ip = i)

Goto(w, pc) == task' = [task EXCEPT ![w].pc = pc]
Return(w)   == task' = [task EXCEPT ![w] = NoTask]

\* An error is returned to the controller, which queues the service of a set-up or
\* of an update to be set up.  Before a removal the reservation was released, and a
\* service without a reservation is not removed again.
Fail(w) ==
    /\ Return(w)
    /\ due' = IF task[w].op = "remove" THEN due ELSE due \union {task[w].s}
    /\ UNCHANGED stale

\* Dereferencing a nil m.config panics and the process restarts: calls and queues
\* are gone, and every service is queued.
Restart ==
    /\ config' = Nil
    /\ owner' = Nil /\ UNCHANGED <<overlap, skipped>>
    /\ task' = [w \in Workers |-> NoTask]
    /\ due' = {s \in Services : address[s] # Nil}
    /\ stale' = {}

-----------------------------------------------------------------------------
(* What a call changes in a configuration.                                  *)

\* Peer.AddService for the peers of the nodes, which are made when not there.
PeerAddService(peers, nodes, s) ==
    [n \in Nodes |-> IF n \in nodes THEN peers[n] \union {s} ELSE peers[n]]

PeerRemoveService(peers, s) == [n \in Nodes |-> peers[n] \ {s}]

AddAddressPool(pools, i, s) == [pools EXCEPT ![i] = @ \union {s}]

\* A pool of the address goes with all the services joined in its name.
RemoveAddressPoolByAddress(pools, i) == [pools EXCEPT ![i] = {}]

PoolsChanged(t, c) ==
    [c EXCEPT !.pools = IF t.op = "add" THEN AddAddressPool(c.pools, t.ip, t.s)
                        ELSE RemoveAddressPoolByAddress(c.pools, t.ip)]

PeersChanged(t, c) ==
    [c EXCEPT !.peers = IF t.op = "remove" THEN PeerRemoveService(c.peers, t.s)
                        ELSE PeerAddService(c.peers, t.nodes, t.s)]

\* Marshalling a nil configuration gives "null", which is read back as an empty one.
Bytes(c) == IF c = Nil THEN Empty ELSE c

-----------------------------------------------------------------------------
(* The service controller begins a call.                                    *)

\* No other worker sets s up or tears it down.
Alone(s) == \A w \in Workers : task[w].s = s => task[w].op = "update"

\* Mutant: a queued service is not looked up again.
StartAddUnchecked(w, s) ==
    /\ task[w].pc = "idle"
    /\ s \in due
    /\ Alone(s)
    /\ due' = due \ {s}
    /\ \E nodes \in SUBSET cluster :
         /\ task' = [task EXCEPT ![w] = Call("add", "get", s, address[s], nodes)]
         /\ Passed(s, nodes)
    /\ Meets(address[s])
    /\ UNCHANGED <<saved, config, address, cluster, stale, owner>>

\* addService leaves out the nodes whose provider ID, BGP session, annotation or
\* neighbours it does not get, and sets the service up for the others.
StartAdd(w, s) ==
    /\ task[w].pc = "idle"
    /\ s \in due /\ address[s] # Nil
    /\ Alone(s)
    /\ due' = due \ {s}
    /\ \E nodes \in SUBSET cluster :
         /\ task' = [task EXCEPT ![w] = Call("add", "get", s, address[s], nodes)]
         /\ Passed(s, nodes)
    /\ Meets(address[s])
    /\ UNCHANGED <<saved, config, address, cluster, stale, owner>>

\* The service is deleted and its reservation is released; then RemoveService.
StartRemove(w, s) ==
    /\ task[w].pc = "idle"
    /\ address[s] # Nil
    /\ Alone(s)
    /\ address' = [address EXCEPT ![s] = Nil]
    /\ task' = [task EXCEPT ![w] = Call("remove", "get", s, address[s], {})]
    /\ UNCHANGED <<saved, config, cluster, due, stale, faults, history>>

\* UpdateLoadBalancer leaves out the nodes it cannot enable BGP for.
StartUpdate(w, s) ==
    /\ task[w].pc = "idle"
    /\ s \in stale /\ address[s] # Nil
    /\ stale' = stale \ {s}
    /\ \E nodes \in SUBSET cluster :
         /\ task' = [task EXCEPT ![w] = Call("update", "reget", s, Nil, nodes)]
         /\ Passed(s, nodes)
    /\ UNCHANGED <<saved, config, address, cluster, due, owner, overlap>>

\* Anything else that it does not get of a node ends it with an error: a provider ID, or
\* neighbours, that a node does not have yet are enough.
UpdateRefused(s) ==
    /\ "skip" \in Disturbances
    /\ s \in stale /\ address[s] # Nil
    /\ stale' = stale \ {s}
    /\ due' = due \union {s}
    /\ UNCHANGED <<saved, config, address, cluster, task, faults, history>>

-----------------------------------------------------------------------------
(* AddService, RemoveService and UpdateService.                             *)

GetConfigMap(w) ==
    /\ task[w].pc \in {"get", "reget"}
    /\ task' = [task EXCEPT ![w].pc = IF @ = "get" THEN "load" ELSE "reload",
                            ![w].seen = saved]
    /\ Owns(w)
    /\ UNCHANGED <<saved, config, address, cluster, due, stale, faults>>

\* Mutant: a configuration that was read before is used again.
GetCached(w) ==
    /\ task[w].pc \in {"load", "reload"}
    /\ config' = IF config = Nil THEN task[w].seen ELSE config
    /\ task' = [task EXCEPT ![w].pc = IF @ = "load" THEN "pool" ELSE "peers", ![w].seen = Nil]
    /\ Uses(w)
    /\ UNCHANGED <<saved, address, cluster, due, stale, faults>>

Get(w) ==
    /\ task[w].pc \in {"load", "reload"}
    /\ config' = task[w].seen
    /\ task' = [task EXCEPT ![w].pc = IF @ = "load" THEN "pool" ELSE "peers", ![w].seen = Nil]
    /\ Uses(w)
    /\ UNCHANGED <<saved, address, cluster, due, stale, faults>>

\* getConfigMap returns nil with its error, and m.config is assigned both times.
GetFails(w) ==
    /\ task[w].pc \in {"get", "reget"}
    /\ Disturb("call")
    /\ config' = Nil
    /\ Fail(w)
    /\ owner' = Nil
    /\ UNCHANGED <<saved, address, cluster, overlap, skipped>>

\* Mutant: a pool that is there ends the call, before the peers are looked at.
ReadPoolsAndReturn(w) ==
    /\ task[w].pc = "pool"
    /\ config # Nil
    /\ IF task[w].op = "add" /\ task[w].s \in config.pools[task[w].ip]
         THEN Return(w)
         ELSE task' = [task EXCEPT ![w].pc = "storePool", ![w].seen = config]
    /\ UNCHANGED <<saved, config, address, cluster, due, stale, faults, history>>

\* The pools are searched.  A pool of the address that has the service in its name
\* is left as it is, and not written.
ReadPools(w) ==
    /\ task[w].pc = "pool"
    /\ config # Nil
    /\ IF task[w].op = "add" /\ task[w].s \in config.pools[task[w].ip]
         THEN Goto(w, "reget")
         ELSE task' = [task EXCEPT ![w].pc = "storePool", ![w].seen = config]
    /\ UNCHANGED <<saved, config, address, cluster, due, stale, faults, history>>

StorePools(w) ==
    /\ task[w].pc = "storePool"
    /\ config # Nil
    /\ config' = [config EXCEPT !.pools = PoolsChanged(task[w], task[w].seen).pools]
    /\ task' = [task EXCEPT ![w].pc = "writePool", ![w].seen = Nil]
    /\ Uses(w)
    /\ UNCHANGED <<saved, address, cluster, due, stale, faults>>

\* Update: all of m.config replaces what the ConfigMap holds.
WritePools(w) ==
    /\ task[w].pc = "writePool"
    /\ saved' = Bytes(config)
    /\ Goto(w, IF task[w].op = "add" THEN "reget" ELSE "peers")
    /\ Uses(w)
    /\ UNCHANGED <<config, address, cluster, due, stale, faults>>

\* The peers are searched, if there are nodes to add, or peers may go.
Looks(t) == t.op = "remove" \/ t.nodes # {}

ReadPeers(w) ==
    /\ task[w].pc = "peers"
    /\ \/ /\ Looks(task[w])
          /\ config # Nil
          /\ task' = [task EXCEPT ![w].pc = "storePeers", ![w].seen = config]
       \/ /\ ~Looks(task[w])
          /\ Return(w)
    /\ UNCHANGED <<saved, config, address, cluster, due, stale, faults, history>>

\* A removal stores the peers also when none was for the service, but does not
\* write them then.
StorePeers(w) ==
    /\ task[w].pc = "storePeers"
    /\ config # Nil
    /\ config' = [config EXCEPT !.peers = PeersChanged(task[w], task[w].seen).peers]
    /\ IF task[w].op = "remove" /\ \A n \in Nodes : task[w].s \notin task[w].seen.peers[n]
         THEN Return(w)
         ELSE task' = [task EXCEPT ![w].pc = "writePeers", ![w].seen = Nil]
    /\ Uses(w)
    /\ UNCHANGED <<saved, address, cluster, due, stale, faults>>

WritePeers(w) ==
    /\ task[w].pc = "writePeers"
    /\ saved' = Bytes(config)
    /\ Return(w)
    /\ Uses(w)
    /\ UNCHANGED <<config, address, cluster, due, stale, faults>>

\* A write fails, or is obeyed and its response lost.
WriteFails(w) ==
    /\ task[w].pc \in {"writePool", "writePeers"}
    /\ Disturb("call")
    /\ saved' \in {saved, Bytes(config)}
    /\ Fail(w)
    /\ Uses(w)
    /\ UNCHANGED <<config, address, cluster>>

\* A call finds m.config nil: another's read has failed.
Panic(w) ==
    /\ task[w].pc \in {"pool", "storePool", "peers", "storePeers"}
    /\ task[w].pc = "peers" => Looks(task[w])
    /\ config = Nil
    /\ Restart
    /\ UNCHANGED <<saved, address, cluster, faults>>

Steps(w) ==
    \/ GetConfigMap(w) \/ Get(w) \/ ReadPools(w) \/ StorePools(w) \/ WritePools(w)
    \/ ReadPeers(w) \/ StorePeers(w) \/ WritePeers(w)
    \/ Panic(w)

Crash ==
    /\ Disturb("crash")
    /\ Restart
    /\ UNCHANGED <<saved, address, cluster>>

-----------------------------------------------------------------------------
(* Services and nodes.                                                      *)

\* A service gets an address that no other has.
Assign(s, i) ==
    /\ address[s] = Nil
    /\ \A t \in Services : address[t] # i
    /\ address' = [address EXCEPT ![s] = i]
    /\ due' = due \union {s}
    /\ UNCHANGED <<saved, config, cluster, stale, task, faults, history>>

\* A service is queued again: its address was just saved in it, or it was changed.
Requeue(s) ==
    /\ address[s] # Nil
    /\ s \notin due
    /\ due' = due \union {s}
    /\ UNCHANGED <<saved, config, address, cluster, stale, task, faults, history>>

\* The nodes change, and with them those of every service.
NodesChange(n) ==
    /\ Disturb("node")
    /\ cluster' = IF n \in cluster THEN cluster \ {n} ELSE cluster \union {n}
    /\ stale' = {s \in Services : address[s] # Nil}
    /\ UNCHANGED <<saved, config, address, due, task, history>>

Init ==
    /\ saved = Empty
    /\ config = Nil
    /\ address = [s \in Services |-> Nil]
    /\ cluster = Nodes
    /\ due = {}
    /\ stale = {}
    /\ task = [w \in Workers |-> NoTask]
    /\ faults = 0
    /\ skipped = [s \in Services |-> {}]
    /\ owner = Nil
    /\ overlap = FALSE

Next ==
    \/ \E w \in Workers :
         \/ Steps(w) \/ GetFails(w) \/ WriteFails(w)
         \/ \E s \in Services : StartAdd(w, s) \/ StartRemove(w, s) \/ StartUpdate(w, s)
    \/ \E s \in Services : UpdateRefused(s) \/ Requeue(s) \/ \E i \in IPs : Assign(s, i)
    \/ \E n \in Nodes : NodesChange(n)
    \/ Crash

Spec == Init /\ [][Next]_vars

-----------------------------------------------------------------------------
(* Properties.                                                              *)

\* Every variable keeps its type, and a call under way has what it needs.
TypeOK ==
    /\ saved \in Config
    /\ config \in Config \union {Nil}
    /\ address \in [Services -> IPs \union {Nil}]
    /\ cluster \subseteq Nodes
    /\ due \subseteq Services
    /\ stale \subseteq Services
    /\ task \in [Workers -> Task]
    /\ \A w \in Workers :
         /\ task[w].op \in {"add", "remove"} => task[w].ip \in IPs
         /\ task[w].pc # "idle" => task[w].s \in Services /\ task[w].op # "none"
         /\ task[w].pc \in {"load", "reload", "storePool", "storePeers"} =>
              task[w].seen \in Config
    /\ faults \in 0 .. MaxFaults
    /\ skipped \in [Services -> SUBSET Nodes]
    /\ owner \in Workers \union {Nil}
    /\ overlap \in BOOLEAN

\* A call that no other overlaps changes what the ConfigMap holds by its own change,
\* no more and no less: it loses nothing that another call has written, and
\* brings nothing back (Update writes all of m.config, configmap.go lines 50-69).
Writes(w) ==
    /\ task[w].pc \in {"writePool", "writePeers"}
    /\ task'[w] # task[w]
    /\ faults' = faults

WritesItsChange ==
    [][\A w \in Workers : Writes(w) /\ owner = w =>
         saved' = IF task[w].pc = "writePool" THEN PoolsChanged(task[w], saved)
                  ELSE PeersChanged(task[w], saved)]_vars

\* When a set-up has succeeded and no other call for the service is to come, its
\* address is in the ConfigMap, and so is a peer for it of every node of the
\* cluster that its last set-up or update did not leave out, whatever calls failed
\* before (metallb.go lines 133-150, loadbalancers.go lines 224-227 and 515-533).
SettingUp(s) == s \in due \/ \E w \in Workers : task[w].s = s /\ task[w].op = "add"
Updating(s)  == s \in stale \/ \E w \in Workers : task[w].s = s /\ task[w].op = "update"

NodesOf(s) == cluster \ skipped[s]

Mapped(s) ==
    /\ s \in saved.pools[address[s]]
    /\ Updating(s) \/ \A n \in NodesOf(s) : s \in saved.peers[n]

CompletedIsSaved == \A s \in Services : address[s] # Nil /\ ~SettingUp(s) => Mapped(s)

\* This is so as long as no two calls overlap.
AloneCompletedIsSaved == ~overlap => CompletedIsSaved

=============================================================================
