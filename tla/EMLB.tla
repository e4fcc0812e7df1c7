-------------------------------- MODULE EMLB --------------------------------
(* The Equinix Metal Load Balancer implementation (loadbalancers/emlb) for   *)
(* one service: ReconcileLoadBalancer and DeleteLoadBalancer call the API    *)
(* once per resource, two workers of the service controller run them, and    *)
(* the ID of the load balancer is remembered in an annotation that is only   *)
(* written when the last call has succeeded.                                 *)
EXTENDS LBaaSClient, FiniteSets

CONSTANTS
    Ports,         \* port numbers a service can have
    Nodes,         \* nodes with an external address
    Project,       \* the project the resources are created in
    Nil,           \* no ID, no pool
    Overlap,       \* do the two workers of the service controller run at once?
    Disturbances,  \* which of "call" "crash" "node" "ports" "delete" happen
    MaxFaults,     \* bound on failed calls and crashes
    MaxChanges     \* bound on changes of the cluster

ASSUME DisturbancesAssumption ==
    Disturbances \subseteq {"call", "crash", "node", "ports", "delete"}

ASSUME BoundsAssumption == MaxFaults \in Nat /\ MaxChanges \in Nat

ASSUME ClusterAssumption == IsFiniteSet(Ports) /\ IsFiniteSet(Nodes)

\* What anybody has of the Service object.
Copies == [ports : SUBSET Ports, id : Nat \union {Nil}, phase : {"live", "deleting", "gone"}]

ASSUME NilAssumption == Nil \notin Nat /\ Nil \notin Ports /\ Nil \notin Copies

VARIABLES
    lbs,      \* the API's load balancers: ID -> port number -> [id, pool]
    pools,    \* the API's pools: ID -> set of origins <<node, k>>
    service,  \* the Service object: ports, id (the annotation), phase
    seen,     \* the informer's copy of it
    news,     \* the changes of it that the watch has yet to deliver
    held,     \* the copy the service controller's cache points to, or Nil
    shared,   \* is that the informer's object itself?
    hidden,   \* history: the answer to a patch took the place of a change nobody worked for
    nodes,    \* the ready nodes
    todo,     \* the workers with something queued
    tasks,    \* what each worker is doing
    faults, changes

api  == <<lbs, pools>>
k8s  == <<service, seen, news, held, shared, hidden, nodes>>
vars == <<api, k8s, todo, tasks, faults, changes>>

\* The queue of services and that of nodes are worked on separately.
Workers == {"service", "nodes"}

\* given: the ID in the object it was given, or got back; cached: is that object still in
\* the cache?
Idle == [pc |-> "idle", given |-> Nil, cached |-> FALSE, lb |-> Nil, ports |-> {}, nodes |-> {},
         snap |-> <<>>, want |-> {}, port |-> Nil, pool |-> Nil, left |-> {}, old |-> {}]

Busy(w) == tasks[w].pc # "idle"

\* Nodes and listed origins are gone through in the order of their list.
First(S) == CHOOSE x \in S : TRUE
Fresh(S) == CHOOSE n \in 1 .. Cardinality(S) + 1 : n \notin S
Without(f, x) == [y \in (DOMAIN f) \ {x} |-> f[y]]
Plus(f, x, v) == [y \in (DOMAIN f) \union {x} |-> IF y = x THEN v ELSE f[y]]

\* IDs are never used twice: a fresh one is not in anybody's hands either.
FreshBalancer == Fresh(((DOMAIN lbs) \union {service.id, seen.id} \union {tasks[w].lb : w \in Workers}
                        \union (IF held = Nil THEN {} ELSE {held.id})) \ {Nil})
PoolsInHand(w) == {tasks[w].pool} \union (UNION {{tasks[w].snap[p].id, tasks[w].snap[p].pool} : p \in DOMAIN tasks[w].snap})
PoolsNamed == UNION {{lbs[b][p].id : p \in DOMAIN lbs[b]} : b \in DOMAIN lbs}
FreshPool == Fresh(((DOMAIN pools) \union PoolsNamed \union (UNION {PoolsInHand(w) : w \in Workers})) \ {Nil})
FreshOrigin(q, n) ==
    <<n, Fresh({o[2] : o \in {o \in pools[q] \union (UNION {tasks[w].old : w \in Workers}) : o[1] = n}})>>

----------------------------------------------------------------------------
(* One call of the API.  What may come back: what was asked for; that there  *)
(* is no such resource; nothing done; done, but the answer was lost.         *)

Good == Reply("granted", 200, "json", TRUE)
NotFound == Reply("granted", 404, "json", FALSE)
Unserved == { Reply("refused", 0, "empty", FALSE), Reply("granted", 0, "empty", FALSE),
              Reply("granted", 500, "json", FALSE) }
Unheard == { Reply("granted", 0, "empty", TRUE), Reply("granted", 200, "other", TRUE) }

Replies(exists) ==
    (IF exists THEN {Good} ELSE {NotFound})
    \union (IF "call" \in Disturbances /\ faults < MaxFaults
            THEN Unserved \union (IF exists THEN Unheard ELSE {}) ELSE {})

\* A failed call ends the task, and the service is queued: a failed host update is not
\* repeated, but followed by a reconciliation of the service.  It is given up when the
\* object it was given has no load balancer ID.
Fail(w) ==
    /\ tasks' = [tasks EXCEPT ![w] = Idle]
    /\ todo' = IF w = "nodes" /\ tasks[w].given = Nil THEN todo ELSE todo \union {"service"}

Call(w, op, exists, Effect, Continue) ==
    \E reply \in Replies(exists) :
        /\ IF reply.obeyed THEN Effect ELSE UNCHANGED api
        /\ IF Execute(op, "json", reply) = "error" THEN Fail(w) ELSE Continue /\ UNCHANGED todo
        /\ faults' = faults + (IF reply \in {Good, NotFound} THEN 0 ELSE 1)
        /\ UNCHANGED <<k8s, changes>>

Step(w, task) == tasks' = [tasks EXCEPT ![w] = task]

----------------------------------------------------------------------------
(* ReconcileLoadBalancer *)

At(w, pc) == tasks[w].pc = pc

CreateBalancer(w) ==
    LET b == FreshBalancer IN
    /\ At(w, "create")
    /\ Call(w, CreateLoadBalancer(Project), TRUE,
            lbs' = Plus(lbs, b, <<>>) /\ UNCHANGED pools,
            Step(w, [tasks[w] EXCEPT !.pc = "get", !.lb = b]))

\* What is to be done is read once, before the first change.
ReadBalancer(w) ==
    LET t == tasks[w] IN
    /\ At(w, "get")
    /\ Call(w, GetLoadBalancer(t.lb), t.lb \in DOMAIN lbs, UNCHANGED api,
            Step(w, [t EXCEPT !.pc = "ports", !.snap = lbs[t.lb], !.want = t.ports]))

KeptButCreated(t, p) == [t EXCEPT !.snap = Without(t.snap, p)]
\* A wanted port is kept: it need not be created.
Kept(t, p) == [t EXCEPT !.snap = Without(t.snap, p), !.want = @ \ {p}]

OnlyAdded(t, q) == [t EXCEPT !.pc = "origins", !.pool = q, !.port = Nil, !.left = t.nodes, !.old = {}]
DroppedFirst(t, q) == [t EXCEPT !.pc = "origins", !.pool = q, !.port = Nil, !.left = {}, !.old = pools[q]]
\* The origins of its pool are listed; a new one is made for every node, then the listed ones go.
Renewed(t, q) == [t EXCEPT !.pc = "origins", !.pool = q, !.port = Nil, !.left = t.nodes, !.old = pools[q]]

\* After its origins a kept port is done; a new pool gets its port.
AfterOrigins(t) ==
    IF t.left = {} /\ t.old = {}
    THEN IF t.port = Nil THEN [t EXCEPT !.pc = "ports", !.pool = Nil] ELSE [t EXCEPT !.pc = "port"]
    ELSE t

\* A port that has lost its pool is kept as it is.
KeepPort(w) ==
    LET t == tasks[w] IN
    /\ At(w, "ports")
    /\ \E p \in (DOMAIN t.snap) \intersect t.ports :
        LET q == t.snap[p].pool IN
        IF q = Nil
        THEN Step(w, Kept(t, p)) /\ UNCHANGED <<api, k8s, todo, faults, changes>>
        ELSE Call(w, ListLoadBalancerPoolOrigins(q), q \in DOMAIN pools, UNCHANGED api,
                  Step(w, AfterOrigins(Renewed(Kept(t, p), q))))

AddOrigin(w) ==
    LET t == tasks[w] IN
    /\ At(w, "origins") /\ t.left # {}
    /\ LET n == First(t.left) IN
        Call(w, CreateLoadBalancerPoolOrigin(t.pool), t.pool \in DOMAIN pools,
             pools' = [pools EXCEPT ![t.pool] = @ \union {FreshOrigin(t.pool, n)}] /\ UNCHANGED lbs,
             Step(w, AfterOrigins([t EXCEPT !.left = @ \ {n}])))

\* The old origins go once all the new ones are there.
DropOrigin(w) ==
    LET t == tasks[w] IN
    /\ At(w, "origins") /\ t.left = {} /\ t.old # {}
    /\ LET o == First(t.old) IN
        Call(w, DeleteLoadBalancerOrigin(o), t.pool \in DOMAIN pools /\ o \in pools[t.pool],
             pools' = [pools EXCEPT ![t.pool] = @ \ {o}] /\ UNCHANGED lbs,
             Step(w, AfterOrigins([t EXCEPT !.old = @ \ {o}])))

\* The API takes a deleted pool out of the ports that had it.
PoolDeleted(q) ==
    /\ pools' = Without(pools, q)
    /\ lbs' = [b \in DOMAIN lbs |-> [p \in DOMAIN lbs[b] |->
                 IF lbs[b][p].pool = q THEN [lbs[b][p] EXCEPT !.pool = Nil] ELSE lbs[b][p]]]

\* A port no longer wanted loses its pool, then it is deleted.
DropPool(w) ==
    LET t == tasks[w] IN
    /\ At(w, "ports")
    /\ \E p \in (DOMAIN t.snap) \ t.ports :
        LET q == t.snap[p].pool IN
        /\ q # Nil
        /\ Call(w, DeleteLoadBalancerPool(q), q \in DOMAIN pools, PoolDeleted(q),
                Step(w, [t EXCEPT !.snap[p].pool = Nil]))

DropPort(w) ==
    LET t == tasks[w] IN
    /\ At(w, "ports")
    /\ \E p \in (DOMAIN t.snap) \ t.ports :
        /\ t.snap[p].pool = Nil
        /\ Call(w, DeleteLoadBalancerPort(t.snap[p].id),
                t.lb \in DOMAIN lbs /\ p \in DOMAIN lbs[t.lb] /\ lbs[t.lb][p].id = t.snap[p].id,
                lbs' = [lbs EXCEPT ![t.lb] = Without(@, p)] /\ UNCHANGED pools,
                Step(w, [t EXCEPT !.snap = Without(t.snap, p)]))

AllPorts(t) == t.ports
\* The wanted ports that were not there.
NewPorts(t) == t.want

\* A new port gets a pool with its origins first, and is created with it.

AddPool(w) ==
    LET t == tasks[w]
        q == FreshPool IN
    /\ At(w, "ports") /\ DOMAIN t.snap = {}
    /\ \E p \in NewPorts(t) :
        Call(w, CreatePool(Project), TRUE,
             pools' = Plus(pools, q, {}) /\ UNCHANGED lbs,
             Step(w, AfterOrigins([t EXCEPT !.pc = "origins", !.pool = q, !.port = p, !.left = t.nodes])))

AddPort(w) ==
    LET t == tasks[w] IN
    /\ At(w, "port")
    /\ Call(w, CreateLoadBalancerPort(t.lb), t.lb \in DOMAIN lbs /\ t.port \notin DOMAIN lbs[t.lb],
            /\ lbs' = [lbs EXCEPT ![t.lb] = Plus(@, t.port, [id |-> t.pool, pool |-> t.pool])]
            /\ UNCHANGED pools,
            Step(w, [t EXCEPT !.pc = "ports", !.pool = Nil, !.port = Nil, !.want = @ \ {t.port}]))

\* The load balancer is read again, for the ID that is annotated.
ReadResult(w) ==
    LET t == tasks[w] IN
    /\ At(w, "ports") /\ DOMAIN t.snap = {} /\ NewPorts(t) = {}
    /\ Call(w, GetLoadBalancer(t.lb), t.lb \in DOMAIN lbs, UNCHANGED api,
            Step(w, [t EXCEPT !.pc = "patch"]))

----------------------------------------------------------------------------
(* reconcileService: the annotation.  A host update was given the object of  *)
(* the cache, not a copy of it: it is changed before the patch can fail, and *)
(* the answer is decoded into it.                                            *)

\* Nothing is sent when the object has the ID already, whatever the API server has.
Patched(t) == IF t.given = t.lb THEN service ELSE [service EXCEPT !.id = t.lb]

\* A change is delivered as an event of its own ...
Changed(n) == IF n = "none" THEN "one" ELSE "more"

\* ... in which nothing shows when the informer's object has become what it is about.
Shown(n) == IF n = "one" THEN "shown" ELSE n

\* The object of the cache, and so the informer's if it is the same, becomes copy.
PutInCache(w, copy) ==
    LET n      == IF service' = service THEN news ELSE Changed(news)
        seeing == tasks[w].cached /\ shared IN
    /\ held' = IF tasks[w].cached THEN copy ELSE held
    /\ seen' = IF seeing THEN copy ELSE seen
    /\ news' = IF seeing /\ copy = service' THEN Shown(n) ELSE n
    /\ hidden' = (hidden \/ (seeing /\ <<copy.ports, copy.id>> # <<tasks[w].ports, tasks[w].lb>>))

\* What EnsureLoadBalancer goes on with is the answer.
AfterPatch(w) ==
    IF w = "service" THEN [tasks[w] EXCEPT !.pc = "status", !.given = service'.id] ELSE Idle

PatchService(w) ==
    /\ At(w, "patch")
    /\ service.phase # "gone"
    /\ service' = Patched(tasks[w])
    /\ PutInCache(w, service')
    /\ Step(w, AfterPatch(w))
    /\ UNCHANGED <<api, shared, nodes, todo, faults, changes>>

\* The patch is refused, or obeyed without an answer.
PatchFails(w) ==
    /\ At(w, "patch")
    /\ \/ service.phase = "gone" /\ UNCHANGED <<service, faults>>
       \/ /\ "call" \in Disturbances /\ faults < MaxFaults
          /\ faults' = faults + 1
          /\ service' \in IF service.phase = "gone" THEN {service} ELSE {service, Patched(tasks[w])}
    /\ PutInCache(w, [held EXCEPT !.id = tasks[w].lb])
    /\ tasks' = [tasks EXCEPT ![w] = Idle]
    /\ todo' = todo \union {"service"}
    /\ UNCHANGED <<api, shared, nodes, changes>>

\* EnsureLoadBalancer ends with GetLoadBalancer; without an ID there is no status, which
\* is an error.
ReadStatus(w) ==
    LET b == tasks[w].given IN
    /\ At(w, "status")
    /\ IF b = Nil
       THEN Fail(w) /\ UNCHANGED <<api, k8s, faults, changes>>
       ELSE Call(w, GetLoadBalancer(b), b \in DOMAIN lbs, UNCHANGED api, Step(w, Idle))

----------------------------------------------------------------------------
(* EnsureLoadBalancerDeleted: the controller asks whether the load balancer  *)
(* exists, then DeleteLoadBalancer reads it, deletes its pools one by one    *)
(* and the load balancer, and the controller takes its finalizer off.        *)

Exists(w) ==
    LET t == tasks[w] IN
    /\ At(w, "exists")
    /\ Call(w, GetLoadBalancer(t.lb), t.lb \in DOMAIN lbs, UNCHANGED api,
            Step(w, [t EXCEPT !.pc = "read"]))

ReadDoomed(w) ==
    LET t == tasks[w] IN
    /\ At(w, "read")
    /\ Call(w, GetLoadBalancer(t.lb), t.lb \in DOMAIN lbs, UNCHANGED api,
            Step(w, [t EXCEPT !.pc = "doomed", !.snap = lbs[t.lb]]))

DropDoomedPool(w) ==
    LET t == tasks[w] IN
    /\ At(w, "doomed")
    /\ \E p \in DOMAIN t.snap :
        LET q == t.snap[p].pool
            rest == [t EXCEPT !.snap = Without(t.snap, p)] IN
        IF q = Nil
        THEN Step(w, rest) /\ UNCHANGED <<api, k8s, todo, faults, changes>>
        ELSE Call(w, DeleteLoadBalancerPool(q), q \in DOMAIN pools, PoolDeleted(q), Step(w, rest))

DropBalancer(w) ==
    LET t == tasks[w] IN
    /\ At(w, "doomed") /\ DOMAIN t.snap = {}
    /\ Call(w, DeleteLoadBalancer(t.lb), t.lb \in DOMAIN lbs,
            lbs' = Without(lbs, t.lb) /\ UNCHANGED pools,
            Step(w, [t EXCEPT !.pc = "finalizer"]))

RemoveFinalizer(w) ==
    /\ At(w, "finalizer")
    /\ \/ /\ service' = [service EXCEPT !.phase = "gone"]
          /\ news' = Changed(news)
          /\ held' = Nil /\ shared' = FALSE
          /\ tasks' = [service |-> Idle, nodes |-> [tasks["nodes"] EXCEPT !.cached = FALSE]]
          /\ UNCHANGED <<todo, faults>>
       \/ /\ "call" \in Disturbances /\ faults < MaxFaults
          /\ faults' = faults + 1 /\ todo' = todo \union {w}
          /\ Step(w, Idle)
          /\ UNCHANGED <<service, news, held, shared>>
    /\ UNCHANGED <<api, seen, hidden, nodes, changes>>

----------------------------------------------------------------------------
(* The service controller *)

Free(w) == ~Busy(w) /\ (Overlap \/ \A v \in Workers : ~Busy(v))

Reconcile(copy) ==
    [Idle EXCEPT !.pc = IF copy.id = Nil THEN "create" ELSE "get",
                 !.given = copy.id, !.lb = copy.id, !.ports = copy.ports, !.nodes = nodes]

\* GetLoadBalancer finds nothing for a service without the annotation.
Remove(copy) ==
    [Idle EXCEPT !.pc = IF copy.id = Nil THEN "finalizer" ELSE "exists",
                 !.given = copy.id, !.lb = copy.id]

\* The service worker takes the informer's object and puts it in the cache.
SyncService ==
    /\ "service" \in todo /\ Free("service")
    /\ todo' = todo \ {"service"}
    /\ IF seen.phase = "gone"
       THEN UNCHANGED <<held, shared, hidden, tasks>>
       ELSE /\ held' = seen /\ shared' = TRUE /\ hidden' = FALSE
            /\ tasks' = [service |-> IF seen.phase = "live" THEN Reconcile(seen) ELSE Remove(seen),
                         nodes   |-> [tasks["nodes"] EXCEPT !.cached = @ /\ shared]]
    /\ UNCHANGED <<api, service, seen, news, nodes, faults, changes>>

\* The node worker updates the hosts of the cached service.
SyncNodes ==
    /\ "nodes" \in todo /\ Free("nodes")
    /\ todo' = todo \ {"nodes"}
    /\ IF held = Nil
       THEN UNCHANGED <<hidden, tasks>>
       ELSE Step("nodes", [Reconcile(held) EXCEPT !.cached = TRUE]) /\ hidden' = FALSE
    /\ UNCHANGED <<api, service, seen, news, held, shared, nodes, faults, changes>>

\* The watch delivers what it has.  The service is queued if the new object differs from
\* the informer's, or is to be cleaned up or gone.
Observe ==
    /\ news # "none"
    /\ news' = "none"
    /\ seen' = service
    /\ shared' = FALSE
    /\ todo' = IF news = "shown" /\ service.phase = "live" THEN todo ELSE todo \union {"service"}
    /\ UNCHANGED <<api, service, held, hidden, nodes, tasks, faults, changes>>

Crash ==
    /\ "crash" \in Disturbances /\ faults < MaxFaults
    /\ faults' = faults + 1
    /\ tasks' = [w \in Workers |-> Idle]
    /\ seen' = service /\ news' = "none"
    /\ held' = Nil /\ shared' = FALSE /\ hidden' = FALSE
    /\ todo' = Workers
    /\ UNCHANGED <<api, service, nodes, changes>>

----------------------------------------------------------------------------
(* The cluster *)

Change(kind) ==
    /\ kind \in Disturbances /\ changes < MaxChanges
    /\ changes' = changes + 1
    /\ UNCHANGED <<api, seen, held, shared, hidden, tasks, faults>>

ChangeNodes ==
    /\ Change("node")
    /\ nodes' \in (SUBSET Nodes) \ {nodes}
    /\ todo' = todo \union {"nodes"}
    /\ UNCHANGED <<service, news>>

ChangePorts ==
    /\ Change("ports")
    /\ service.phase = "live"
    /\ \E P \in (SUBSET Ports) \ {{}, service.ports} : service' = [service EXCEPT !.ports = P]
    /\ news' = Changed(news)
    /\ UNCHANGED <<nodes, todo>>

DeleteService ==
    /\ Change("delete")
    /\ service.phase = "live"
    /\ service' = [service EXCEPT !.phase = "deleting"]
    /\ news' = Changed(news)
    /\ UNCHANGED <<nodes, todo>>

----------------------------------------------------------------------------

Init ==
    /\ lbs = <<>> /\ pools = <<>>
    /\ service \in [ports : (SUBSET Ports) \ {{}}, id : {Nil}, phase : {"live"}]
    /\ seen = service /\ news = "none" /\ held = Nil /\ shared = FALSE /\ hidden = FALSE
    /\ nodes = Nodes
    /\ todo = {"service"}
    /\ tasks = [w \in Workers |-> Idle]
    /\ faults = 0 /\ changes = 0

Work(w) ==
    \/ CreateBalancer(w) \/ ReadBalancer(w)
    \/ KeepPort(w) \/ AddOrigin(w) \/ DropOrigin(w) \/ DropPool(w) \/ DropPort(w)
    \/ AddPool(w) \/ AddPort(w) \/ ReadResult(w)
    \/ PatchService(w) \/ PatchFails(w) \/ ReadStatus(w)
    \/ Exists(w) \/ ReadDoomed(w) \/ DropDoomedPool(w) \/ DropBalancer(w) \/ RemoveFinalizer(w)

Next ==
    \/ \E w \in Workers : Work(w)
    \/ SyncService \/ SyncNodes \/ Observe \/ Crash
    \/ ChangeNodes \/ ChangePorts \/ DeleteService

Spec == Init /\ [][Next]_vars

\* Workers take what is queued and go on with what they have begun; the watch delivers.
FairSpec ==
    /\ Spec
    /\ \A w \in Workers : WF_vars(Work(w))
    /\ WF_vars(SyncService) /\ WF_vars(SyncNodes) /\ WF_vars(Observe)

----------------------------------------------------------------------------
(* Properties *)

Has(b, p) == b \in DOMAIN lbs /\ p \in DOMAIN lbs[b]

\* Traffic to port p of b reaches node n.
Serves(b, p, n) ==
    /\ Has(b, p)
    /\ lbs[b][p].pool # Nil
    /\ \E o \in pools[lbs[b][p].pool] : o[1] = n

IDs == Nat \union {Nil}
Origins == Nodes \X Nat
PortRecords == [id : Nat, pool : IDs]
IsPortMap(m) == DOMAIN m \subseteq Ports /\ m \in [DOMAIN m -> PortRecords]
Steps == {"idle", "create", "get", "ports", "origins", "port", "patch", "status",
          "exists", "read", "doomed", "finalizer"}
TaskOK(t) ==
    /\ t \in [pc : Steps, given : IDs, cached : BOOLEAN, lb : IDs, ports : SUBSET Ports, nodes : SUBSET Nodes,
             snap : {t.snap}, want : SUBSET t.ports, port : t.want \union {Nil}, pool : IDs,
             left : SUBSET t.nodes, old : SUBSET Origins]
    /\ IsPortMap(t.snap)

\* The state is of the expected shape, and every port's pool exists (manager.go:20-33,
\* emlb.go:18-22).
TypeOK ==
    /\ DOMAIN lbs \subseteq Nat /\ DOMAIN pools \subseteq Nat
    /\ \A b \in DOMAIN lbs :
         IsPortMap(lbs[b]) /\ \A p \in DOMAIN lbs[b] : lbs[b][p].pool \in (DOMAIN pools) \union {Nil}
    /\ \A q \in DOMAIN pools : pools[q] \subseteq Origins
    /\ service \in Copies /\ seen \in Copies /\ held \in Copies \union {Nil}
    /\ news \in {"none", "one", "more", "shown"}
    /\ shared \in BOOLEAN /\ hidden \in BOOLEAN /\ nodes \subseteq Nodes
    /\ todo \subseteq Workers
    /\ DOMAIN tasks = Workers /\ \A w \in Workers : TaskOK(tasks[w])
    /\ faults \in 0 .. MaxFaults /\ changes \in 0 .. MaxChanges

\* A node that gets the traffic of a port loses it only by the hand of a worker that
\* does not want that port or that node, or that is removing the load balancer: new
\* origins are made before old ones go (manager.go:148-163), whatever calls fail, as long
\* as the two workers take turns.
KeepsServing ==
    [][\A b \in DOMAIN lbs, p \in Ports, n \in Nodes :
          Serves(b, p, n) /\ ~Serves(b, p, n)' =>
            \E w \in Workers : Busy(w) /\ ~(p \in tasks[w].ports /\ n \in tasks[w].nodes)]_vars

\* A pool without a port is the trace of a failed call or a crash, one for each at most,
\* as long as the two workers take turns: a pool is made before its port (manager.go:179-199).
\* (Of load balancers more are lost: a worker whose copy of the service is older than
\* the annotation makes another, without any failure.)
Orphans ==
    (DOMAIN pools) \ ({tasks[w].pool : w \in Workers} \union
                      (UNION {{lbs[b][p].pool : p \in DOMAIN lbs[b]} : b \in DOMAIN lbs}))
OneOrphanPerFault == Cardinality(Orphans) <= faults

\* Nothing is being done, nothing is queued, nothing is yet to be observed.
Quiet == todo = {} /\ news = "none" /\ \A w \in Workers : ~Busy(w)

\* A live service's load balancer has its ports, and every pool on them the cluster's nodes.
Balanced ==
    LET b == service.id IN
    /\ b \in DOMAIN lbs
    /\ DOMAIN lbs[b] = service.ports
    /\ \A p \in service.ports : lbs[b][p].pool # Nil => {o[1] : o \in pools[lbs[b][p].pool]} = nodes

\* When the workers that take turns have come to rest, what was asked for is there: a
\* failure in the middle of manager.go:102-204 is made good by what is queued after it.
\* But for one change, of the ports or by another's patch of the ID: one that came while the
\* hosts were updated for the object before it, and that the answer to the patch
\* (emlb.go:103) put into the informer's object before its event, so that none shows.
RestsBalanced == Quiet /\ service.phase = "live" /\ ~hidden => Balanced

\* A deleted service goes away (loadbalancers.go:254), provided no answer gets lost: the
\* load balancer deleted by the call that seemed to fail is an error from then on.
DeletionEnds == service.phase = "deleting" ~> service.phase = "gone"

=============================================================================
