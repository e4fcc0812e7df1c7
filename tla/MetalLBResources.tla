-------------------------- MODULE MetalLBResources --------------------------
(***************************************************************************)
(* MetalLB configured by custom resources: AddService, RemoveService and   *)
(* UpdateService of metal/loadbalancers/metallb/metallb.go, and the        *)
(* CRDConfigurer of cr.go and cr_config.go.                                *)
(*                                                                         *)
(* Each service has an IPAddressPool of its own name; one BGPAdvertisement *)
(* names the pools that are announced; each node has a BGPPeer, which      *)
(* names the services it is for.  Nothing is kept between calls: a call    *)
(* lists the resources, and creates, patches and deletes them one by one.  *)
(* A patch replaces the lists it changes by what the call has computed     *)
(* from the ones it listed, and no resource version is compared.           *)
(*                                                                         *)
(* A pool has the name of its service, which keeps all its characters, as  *)
(* it is a DNS label.  An address that is put twice into a pool counts     *)
(* once.                                                                   *)
(***************************************************************************)
EXTENDS Integers, SequencesExt

CONSTANTS
    Services,      \* services, by namespace and name
    IPs,           \* addresses
    Nodes,         \* nodes, each with one BGP peer
    Specs,         \* what the BGP data of a node may be: numbers, password
    Workers,       \* goroutines of the service controller
    Nil,           \* no resource, no address, no node
    Disturbances,  \* the kinds of disturbance that may happen
    MaxFaults      \* bound on their number

Peer   == [services: SUBSET Services, spec: Specs]
Wanted == [Nodes -> Specs \union {Nil}]
Listed == [Nodes -> Peer \union {Nil}]

ASSUME NilAssumption ==
    /\ Nil \notin IPs \union Services \union Specs \union Workers \union Peer
    /\ Nil \notin Seq(Services)
ASSUME FaultsAssumption ==
    Disturbances \subseteq {"call", "crash", "node", "spec"} /\ MaxFaults \in Nat

VARIABLES
    pool,     \* pool[s]: the address in the pool of service s, Nil if it is not there
    adv,      \* the pools the default BGPAdvertisement lists, or Nil
    peer,     \* peer[n]: the BGPPeer of node n, or Nil
    address,  \* address[s]: the address service s has
    cluster,  \* cluster[n]: the BGP data of node n, Nil if it is not in the cluster
    due,      \* services to be set up: the controller's queue of services
    stale,    \* services whose nodes are to be updated
    task,     \* task[w]: the call that worker w has under way
    faults,   \* disturbances so far
    outdated, \* history: a resource was written that had changed since it was listed
    hurt      \* history: services a call for which was cut short, joined a pool, or was
              \* an update of the nodes that met the removal

history == <<outdated, hurt>>
vars    == <<pool, adv, peer, address, cluster, due, stale, task, faults, history>>

-----------------------------------------------------------------------------
Task == [op: {"none", "add", "remove", "update"},
         pc: {"idle", "listPools", "joinPool", "createPool", "deletePool", "listAdvs",
              "writeAdv", "listPeers", "writePeer"},
         s: Services \union {Nil},
         ip: IPs \union {Nil},
         nodes: Wanted,                  \* the nodes the service is for
         into: Services \union {Nil},    \* the pool to join
         list: Seq(Services) \union {Nil}, at: Nat \ {0},   \* the advertisement, listed
         peers: Listed,                  \* the peers, listed
         left: SUBSET Nodes]             \* those yet to be written

NoNodes   == [n \in Nodes |-> Nil]
Joined(f) == {n \in Nodes : f[n] # Nil}

Call(op, pc, s, ip, nodes) ==
    [op |-> op, pc |-> pc, s |-> s, ip |-> ip, nodes |-> nodes,
     into |-> Nil, list |-> Nil, at |-> 1, peers |-> NoNodes, left |-> {}]

NoTask == Call("none", "idle", Nil, Nil, NoNodes)

Disturb(kind) ==
    /\ kind \in Disturbances
    /\ faults < MaxFaults
    /\ faults' = faults + 1

Become(w, t) == task' = [task EXCEPT ![w] = t]
Goto(w, pc)  == task' = [task EXCEPT ![w].pc = pc]
Return(w)    == task' = [task EXCEPT ![w] = NoTask]

\* An error is returned to the controller, which sets the service up again, also when
\* the update of its nodes failed.  Before a removal the reservation was released, and
\* a service without a reservation is not removed again.
Fail(w) ==
    /\ Return(w)
    /\ due' = IF task[w].op = "remove" THEN due ELSE due \union {task[w].s}
    /\ hurt' = hurt \union {task[w].s}
    /\ UNCHANGED stale

Begin(w, t) ==
    /\ task[w].pc = "idle"
    /\ Become(w, t)
    /\ UNCHANGED outdated

-----------------------------------------------------------------------------
(* What a call makes of the resources it has listed.                        *)

\* AddAddressPool creates the pool of the service, or joins that into which its
\* address was put; RemoveAddressPool deletes that of the service.
PoolAt(t) == IF t.pc = "joinPool" THEN t.into ELSE t.s

PoolRefused(t) == (pool[PoolAt(t)] = Nil) # (t.pc = "createPool")

PoolWritten(t) ==
    [pool EXCEPT ![PoolAt(t)] = IF t.pc = "deletePool" THEN Nil ELSE t.ip]

PoolOutdated(t) == t.pc = "joinPool" /\ pool[t.into] # t.ip

\* The places of the pool that the loop over the advertisement's list has yet to find.
Found(t) == IF t.list = Nil THEN {} ELSE {i \in t.at .. Len(t.list) : t.list[i] = t.s}

\* slices.Delete shortens the list that the loop goes over, and clears the place that
\* falls vacant behind it, where the loop finds no name.
Shortened(t) == RemoveAt(t.list, Min(Found(t)))

AdvRefused(t) == (adv = Nil) # (t.op = "add" /\ t.list = Nil)

\* Mutant: the list of the advertisement is replaced by the new pool.
AdvReplaced(t) ==
    IF t.op = "add" THEN <<t.s>>
    ELSE IF Len(t.list) > 1 THEN Shortened(t) ELSE Nil

\* Mutant: the place that falls vacant stays in the list.
AdvPadded(t) ==
    IF t.op = "add"
      THEN IF t.list = Nil THEN <<t.s>> ELSE Append(t.list, t.s)
      ELSE IF Len(t.list) > 1 THEN Append(Shortened(t), Nil) ELSE Nil

\* It is created for a first pool, to which later ones are appended, and deleted
\* with the last one.
AdvWritten(t) ==
    IF t.op = "add"
      THEN IF t.list = Nil THEN <<t.s>> ELSE Append(t.list, t.s)
      ELSE IF Len(t.list) > 1 THEN Shortened(t) ELSE Nil

NewPeer(services, spec) == [services |-> services, spec |-> spec]

PeerAddService(p, s) == [p EXCEPT !.services = @ \union {s}]

PeerRemoveService(p, s) == [p EXCEPT !.services = @ \ {s}]

PeerSpecEqual(p, spec) == p.spec = spec

\* A changed specification replaces that of the peer, and with it the selectors that
\* name its services, the one just added too.
PeerUpdated(p, s, spec) ==
    IF PeerSpecEqual(p, spec) THEN PeerAddService(p, s) ELSE NewPeer({}, spec)

\* Mutant: a peer goes with any of its services.
PeerDropped(p, s) == IF s \in p.services THEN Nil ELSE p

\* Mutant: a peer that has other services too is left as it is.
PeerUncut(p, s) == IF p.services = {s} THEN Nil ELSE p

\* A peer that no service is left for goes.
PeerCut(p, s) ==
    IF s \in p.services /\ PeerRemoveService(p, s).services = {}
      THEN Nil ELSE PeerRemoveService(p, s)

\* What the peer of n is to become.  When there are no peers at all the new ones are
\* made without a service.
PeerComputed(t, n) ==
    LET p == t.peers[n] IN
    IF t.nodes[n] # Nil
      THEN IF p = Nil
             THEN NewPeer(IF Joined(t.peers) = {} THEN {} ELSE {t.s}, t.nodes[n])
             ELSE PeerUpdated(p, t.s, t.nodes[n])
      ELSE IF p = Nil THEN Nil ELSE PeerCut(p, t.s)

PeerRefused(t, n) == (t.peers[n] = Nil) # (peer[n] = Nil)

\* A patch carries the fields in which the peer computed differs from that listed.
PeerWritten(t, n) ==
    LET new == PeerComputed(t, n)
        old == t.peers[n] IN
    [peer EXCEPT ![n] =
        IF new = Nil \/ old = Nil THEN new
        ELSE [services |-> IF new.services = old.services THEN @.services ELSE new.services,
              spec     |-> IF new.spec = old.spec THEN @.spec ELSE new.spec]]

-----------------------------------------------------------------------------
(* The service controller begins a call.                                    *)

\* No other worker sets s up or tears it down.
Alone(s) == \A w \in Workers : task[w].s = s => task[w].op = "update"

\* The nodes that addService and UpdateLoadBalancer pass on: all, or all but one that a
\* call to the Equinix Metal API has failed for, which is skipped.
Passed(nodes) ==
    \/ nodes = cluster /\ UNCHANGED faults
    \/ /\ Disturb("call")
       /\ \E n \in Joined(cluster) : nodes = [cluster EXCEPT ![n] = Nil]

StartAdd(w, s) ==
    /\ s \in due /\ address[s] # Nil
    /\ Alone(s)
    /\ due' = due \ {s}
    /\ \E nodes \in Wanted :
         /\ Passed(nodes)
         /\ Begin(w, Call("add", "listPools", s, address[s], nodes))
    /\ UNCHANGED <<pool, adv, peer, address, cluster, stale, hurt>>

\* The service is deleted and its reservation is released; then RemoveService.  An
\* update of the nodes of the service may be under way.
StartRemove(w, s) ==
    /\ address[s] # Nil
    /\ Alone(s)
    /\ address' = [address EXCEPT ![s] = Nil]
    /\ Begin(w, Call("remove", "listPools", s, address[s], NoNodes))
    /\ hurt' = IF \E v \in Workers : task[v].s = s THEN hurt \union {s} ELSE hurt
    /\ UNCHANGED <<pool, adv, peer, cluster, due, stale, faults>>

StartUpdate(w, s) ==
    /\ s \in stale /\ address[s] # Nil
    /\ stale' = stale \ {s}
    /\ \E nodes \in Wanted :
         /\ Passed(nodes)
         /\ Begin(w, Call("update", "listPeers", s, Nil, nodes))
    /\ UNCHANGED <<pool, adv, peer, address, cluster, due, hurt>>

\* UpdateLoadBalancer ends with an error at a node that has no provider ID or no
\* neighbours yet.
UpdateRefused(s) ==
    /\ s \in stale /\ address[s] # Nil
    /\ stale' = stale \ {s}
    /\ due' = due \union {s}
    /\ UNCHANGED <<pool, adv, peer, address, cluster, task, faults, history>>

-----------------------------------------------------------------------------
(* AddAddressPool, RemoveAddressPool, UpdatePeersByService and              *)
(* RemovePeersByService.                                                    *)

\* A pool of the service's name ends the search, whatever its address; one that
\* has the address is joined.  The first of them in the list counts.
SearchPools(w) ==
    LET t == task[w] IN
    /\ t.pc = "listPools" /\ t.op = "add"
    /\ \/ /\ pool[t.s] # Nil
          /\ Goto(w, "listPeers")
          /\ UNCHANGED hurt
       \/ \E o \in Services \ {t.s} :
            /\ pool[o] = t.ip
            /\ Become(w, [t EXCEPT !.pc = "joinPool", !.into = o])
            /\ hurt' = hurt \union {t.s}
       \/ /\ pool[t.s] = Nil /\ \A o \in Services : pool[o] # t.ip
          /\ Goto(w, "createPool")
          /\ UNCHANGED hurt
    /\ UNCHANGED <<pool, adv, peer, address, cluster, due, stale, faults, outdated>>

FindPool(w) ==
    LET t == task[w] IN
    /\ t.pc = "listPools" /\ t.op = "remove"
    /\ Goto(w, IF pool[t.s] = Nil THEN "listAdvs" ELSE "deletePool")
    /\ UNCHANGED <<pool, adv, peer, address, cluster, due, stale, faults, history>>

WritePool(w) ==
    LET t == task[w] IN
    /\ t.pc \in {"joinPool", "createPool", "deletePool"}
    /\ \/ /\ PoolRefused(t)
          /\ Fail(w)
          /\ UNCHANGED <<pool, outdated>>
       \/ /\ ~PoolRefused(t)
          /\ pool' = PoolWritten(t)
          /\ outdated' = (outdated \/ PoolOutdated(t))
          /\ Become(w, [t EXCEPT !.pc = IF @ = "joinPool" THEN "listPeers" ELSE "listAdvs",
                                 !.into = Nil])
          /\ UNCHANGED <<due, stale, hurt>>
    /\ UNCHANGED <<adv, peer, address, cluster, faults>>

ListAdvs(w) ==
    LET t == task[w] IN
    /\ t.pc = "listAdvs"
    /\ Become(w, [t EXCEPT !.list = adv, !.pc = "writeAdv"])
    /\ UNCHANGED <<pool, adv, peer, address, cluster, due, stale, faults, history>>

\* The call for one place of the list; a set-up has one call to make.
WriteAdv(w) ==
    LET t == task[w] IN
    /\ t.pc = "writeAdv"
    /\ t.op = "add" \/ Found(t) # {}
    /\ \/ /\ AdvRefused(t)
          /\ Fail(w)
          /\ UNCHANGED <<adv, outdated>>
       \/ /\ ~AdvRefused(t)
          /\ adv' = AdvWritten(t)
          /\ outdated' = (outdated \/ adv # t.list)
          /\ Become(w, IF t.op = "add"
                         THEN [t EXCEPT !.pc = "listPeers", !.list = Nil]
                         ELSE [t EXCEPT !.list = IF adv' = Nil THEN <<>> ELSE adv',
                                        !.at = Min(Found(t)) + 1])
          /\ UNCHANGED <<due, stale, hurt>>
    /\ UNCHANGED <<pool, peer, address, cluster, faults>>

NotAdvertised(w) ==
    LET t == task[w] IN
    /\ t.pc = "writeAdv" /\ t.op = "remove" /\ Found(t) = {}
    /\ Become(w, [t EXCEPT !.pc = "listPeers", !.list = Nil, !.at = 1])
    /\ UNCHANGED <<pool, adv, peer, address, cluster, due, stale, faults, history>>

ListBGPPeers(w) ==
    LET t    == [task[w] EXCEPT !.pc = "writePeer", !.peers = peer]
        left == {n \in Nodes : PeerComputed(t, n) # peer[n]} IN
    /\ task[w].pc = "listPeers"
    /\ Become(w, IF left = {} THEN NoTask ELSE [t EXCEPT !.left = left])
    /\ UNCHANGED <<pool, adv, peer, address, cluster, due, stale, faults, history>>

\* One peer after the other: first those that were there, then the new ones.
WritePeer(w, n) ==
    LET t == task[w] IN
    /\ t.pc = "writePeer" /\ n \in t.left
    /\ t.peers[n] = Nil => \A m \in t.left : t.peers[m] = Nil
    /\ \/ /\ PeerRefused(t, n)
          /\ Fail(w)
          /\ UNCHANGED <<peer, outdated>>
       \/ /\ ~PeerRefused(t, n)
          /\ peer' = PeerWritten(t, n)
          /\ outdated' = (outdated \/ peer[n] # t.peers[n])
          /\ Become(w, IF t.left = {n} THEN NoTask ELSE [t EXCEPT !.left = @ \ {n}])
          /\ UNCHANGED <<due, stale, hurt>>
    /\ UNCHANGED <<pool, adv, address, cluster, faults>>

ListFails(w) ==
    /\ task[w].pc \in {"listPools", "listAdvs", "listPeers"}
    /\ Disturb("call")
    /\ Fail(w)
    /\ UNCHANGED <<pool, adv, peer, address, cluster, outdated>>

\* A write fails, or is obeyed and its response lost.
WriteFails(w) ==
    LET t == task[w] IN
    /\ Disturb("call")
    /\ Fail(w)
    /\ \/ /\ t.pc \in {"joinPool", "createPool", "deletePool"}
          /\ pool' \in IF PoolRefused(t) THEN {pool} ELSE {pool, PoolWritten(t)}
          /\ outdated' = (outdated \/ (pool' # pool /\ PoolOutdated(t)))
          /\ UNCHANGED <<adv, peer>>
       \/ /\ t.pc = "writeAdv" /\ (t.op = "add" \/ Found(t) # {})
          /\ adv' \in IF AdvRefused(t) THEN {adv} ELSE {adv, AdvWritten(t)}
          /\ outdated' = (outdated \/ (adv' # adv /\ adv # t.list))
          /\ UNCHANGED <<pool, peer>>
       \/ /\ t.pc = "writePeer"
          /\ \E n \in t.left :
               /\ peer' \in IF PeerRefused(t, n) THEN {peer} ELSE {peer, PeerWritten(t, n)}
               /\ outdated' = (outdated \/ (peer' # peer /\ peer[n] # t.peers[n]))
          /\ UNCHANGED <<pool, adv>>
    /\ UNCHANGED <<address, cluster>>

\* Calls and queues are gone; every service is queued.
Crash ==
    /\ Disturb("crash")
    /\ hurt' = hurt \union {task[w].s : w \in {v \in Workers : task[v].pc # "idle"}}
    /\ task' = [w \in Workers |-> NoTask]
    /\ due' = {s \in Services : address[s] # Nil}
    /\ stale' = {}
    /\ UNCHANGED <<pool, adv, peer, address, cluster, outdated>>

Steps(w) ==
    \/ SearchPools(w) \/ FindPool(w) \/ WritePool(w)
    \/ ListAdvs(w) \/ WriteAdv(w) \/ NotAdvertised(w)
    \/ ListBGPPeers(w) \/ \E n \in Nodes : WritePeer(w, n)

-----------------------------------------------------------------------------
(* Services and nodes.                                                      *)

\* A service gets an address that no other has; it is a new life of the service.
Assign(s, i) ==
    /\ address[s] = Nil
    /\ \A t \in Services : address[t] # i
    /\ address' = [address EXCEPT ![s] = i]
    /\ due' = due \union {s}
    /\ UNCHANGED <<pool, adv, peer, cluster, stale, task, faults, history>>

\* A service is queued again: its address was just saved in it, or it was changed.
Requeue(s) ==
    /\ address[s] # Nil
    /\ s \notin due
    /\ due' = due \union {s}
    /\ UNCHANGED <<pool, adv, peer, address, cluster, stale, task, faults, history>>

\* A node leaves, or one comes; the nodes of every service are to be updated.
NodesChange(n) ==
    /\ Disturb("node")
    /\ \E c \in IF cluster[n] = Nil THEN Specs ELSE {Nil} :
         cluster' = [cluster EXCEPT ![n] = c]
    /\ stale' = {s \in Services : address[s] # Nil}
    /\ UNCHANGED <<pool, adv, peer, address, due, task, history>>

\* The BGP data of a node changes, of which nothing tells the controller.
SpecChanges(n) ==
    /\ Disturb("spec")
    /\ cluster[n] # Nil
    /\ \E c \in Specs \ {cluster[n]} : cluster' = [cluster EXCEPT ![n] = c]
    /\ UNCHANGED <<pool, adv, peer, address, due, stale, task, history>>

Init ==
    /\ pool = [s \in Services |-> Nil]
    /\ adv = Nil
    /\ peer = NoNodes
    /\ address = [s \in Services |-> Nil]
    /\ cluster \in [Nodes -> Specs]
    /\ due = {}
    /\ stale = {}
    /\ task = [w \in Workers |-> NoTask]
    /\ faults = 0
    /\ outdated = FALSE
    /\ hurt = {}

Next ==
    \/ \E w \in Workers :
         \/ Steps(w) \/ ListFails(w) \/ WriteFails(w)
         \/ \E s \in Services : StartAdd(w, s) \/ StartRemove(w, s) \/ StartUpdate(w, s)
    \/ \E s \in Services : UpdateRefused(s) \/ Requeue(s) \/ \E i \in IPs : Assign(s, i)
    \/ \E n \in Nodes : NodesChange(n) \/ SpecChanges(n)
    \/ Crash

Spec == Init /\ [][Next]_vars

-----------------------------------------------------------------------------
(* Properties.                                                              *)

\* Every variable keeps its type, and a call under way has what it needs.
TypeOK ==
    /\ pool \in [Services -> IPs \union {Nil}]
    /\ adv = Nil \/ adv \in Seq(Services)
    /\ peer \in Listed
    /\ address \in [Services -> IPs \union {Nil}]
    /\ cluster \in Wanted
    /\ due \subseteq Services /\ stale \subseteq Services
    /\ task \in [Workers -> Task]
    /\ \A w \in Workers :
         /\ task[w].pc = "idle" => task[w] = NoTask
         /\ task[w].pc # "idle" => task[w].s \in Services /\ task[w].op # "none"
         /\ task[w].pc = "joinPool" => task[w].into \in Services
         /\ task[w].op \in {"add", "remove"} => task[w].ip \in IPs
    /\ faults \in 0 .. MaxFaults
    /\ outdated \in BOOLEAN /\ hurt \subseteq Services

Advertised(s) == adv # Nil /\ \E i \in DOMAIN adv : adv[i] = s

\* When a set-up has ended and no other call for the service is under way, MetalLB
\* has its address and announces it, unless a call wrote what another had changed since it
\* was listed, a call for this very service was cut short, or the address was still
\* in another's pool: what fails for one service does no harm to another's
\* addresses (cr.go lines 137-237).
SettingUp(s) == s \in due \/ \E w \in Workers : task[w].s = s /\ task[w].op = "add"

CompletedIsAdvertised ==
    \A s \in Services :
        address[s] # Nil /\ ~SettingUp(s) /\ s \notin hurt /\ ~outdated
            => pool[s] = address[s] /\ Advertised(s)

\* A service that is gone leaves neither a pool nor its name anywhere, with the
\* same exceptions (cr.go lines 239-291).
GoneLeavesNothing ==
    \A s \in Services :
        /\ address[s] = Nil /\ s \notin hurt /\ ~outdated
        /\ \A w \in Workers : task[w].s # s
        => /\ pool[s] = Nil /\ ~Advertised(s)
           /\ \A n \in Nodes : peer[n] # Nil => s \notin peer[n].services

\* As long as no call writes what has changed since it was listed, a service loses its place in the advertisement
\* by its own removal only, and a node's peer only by that, by an update
\* without the node, or when the peer's data change, whatever calls fail.
Serves(n, s) == peer[n] # Nil /\ s \in peer[n].services

LosesOnlyItsOwn ==
    [][\A s \in Services : ~outdated' =>
         /\ Advertised(s) /\ ~Advertised(s)' =>
              \E w \in Workers : task[w].s = s /\ task[w].op = "remove"
         /\ \A n \in Nodes : Serves(n, s) /\ ~Serves(n, s)' =>
              \/ \E w \in Workers : task[w].s = s /\ task[w].nodes[n] = Nil
              \/ peer'[n] # Nil /\ peer'[n].spec # peer[n].spec]_vars

=============================================================================
