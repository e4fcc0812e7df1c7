----------------------- MODULE MetalLBConfigMapProofs -----------------------
(***************************************************************************)
(* Theorems about MetalLBConfigMap, for any number of services, addresses, *)
(* nodes and workers.                                                      *)
(***************************************************************************)
EXTENDS MetalLBConfigMap, TLAPS

\* What the owner has read is what is saved, and what it has stored is its change.
OwnerInv ==
    \A w \in Workers : owner = w =>
        /\ task[w].pc \in {"load", "reload"} => task[w].seen = saved
        /\ task[w].pc \in {"pool", "storePool", "peers", "storePeers"} => config = saved
        /\ task[w].pc \in {"storePool", "storePeers"} => task[w].seen = config
        /\ task[w].pc = "writePool" => config = PoolsChanged(task[w], saved)
        /\ task[w].pc = "writePeers" => config = PeersChanged(task[w], saved)

\* Services have addresses of their own, and one set-up or removal each; a set-up
\* is for the address the service has, and a service that is being removed has
\* none, or is to be set up afterwards.
CallInv ==
    /\ \A s, t \in Services : address[s] # Nil /\ address[s] = address[t] => s = t
    /\ \A w \in Workers :
         /\ task[w].op = "add" => address[task[w].s] = task[w].ip
         /\ task[w].op = "remove" => address[task[w].s] = Nil \/ task[w].s \in due
         /\ task[w].pc \in {"get", "load", "pool", "storePool", "writePool"} =>
              task[w].op \in {"add", "remove"}
         /\ task[w].pc = "idle" => task[w] = NoTask
    /\ \A v, w \in Workers :
         task[v].op \in {"add", "remove"} /\ task[w].op \in {"add", "remove"}
             /\ task[v].s = task[w].s => v = w

\* The peers of s are all saved, or a set-up or an update will see to them.
NodesKnown(s) ==
    \/ s \in stale \union due
    \/ \A n \in NodesOf(s) : s \in saved.peers[n]
    \/ \E w \in Workers : /\ task[w].op = "update" /\ task[w].s = s
                          /\ NodesOf(s) \subseteq task[w].nodes

\* A set-up finds its address in m.config only when it is saved, and has it saved
\* when it goes on to the peers.
SetUp(w) ==
    /\ task[w].pc = "pool" /\ config # Nil /\ task[w].s \in config.pools[task[w].ip] =>
         task[w].s \in saved.pools[task[w].ip]
    /\ task[w].pc \in {"reget", "reload", "peers", "storePeers", "writePeers"} =>
         task[w].s \in saved.pools[task[w].ip]
    /\ NodesOf(task[w].s) \subseteq task[w].nodes \/ NodesKnown(task[w].s)

Complete(s) ==
    address[s] # Nil /\ ~SettingUp(s) =>
        s \in saved.pools[address[s]] /\ NodesKnown(s)

\* While no two calls have met: an address that is being removed is not set up,
\* what a set-up has done is saved, and so is what completed set-ups have done.
AloneInv ==
    ~overlap =>
        /\ \A w \in Workers, s \in Services :
             task[w].op = "remove" /\ address[s] = task[w].ip => s \in due
        /\ \A v, w \in Workers :
             task[v].op = "remove" /\ task[w].op = "add" => task[v].ip # task[w].ip
        /\ \A w \in Workers : task[w].op = "add" => SetUp(w)
        /\ \A s \in Services : Complete(s)

IInv == TypeOK /\ OwnerInv /\ CallInv /\ AloneInv

-----------------------------------------------------------------------------
(* Lemmas about the data.                                                   *)

\* Idle is a task, and the ConfigMap may be empty.
LEMMA RestingTypes == NoTask \in Task /\ Empty \in Config
  BY DEF NoTask, Task, Empty, Config

\* A call that begins is a task.
LEMMA CallType ==
  ASSUME NEW op \in {"add", "remove", "update"}, NEW pc \in {"get", "reget"},
         NEW s \in Services, NEW ip \in IPs \union {Nil}, NEW nodes \in SUBSET Nodes
  PROVE  Call(op, pc, s, ip, nodes) \in Task
  BY DEF Call, Task

\* The changes of a call keep a configuration one.
LEMMA ChangedTypes ==
  ASSUME NEW c \in Config, NEW t \in Task, t.s \in Services
  PROVE  PoolsChanged(t, c) \in Config /\ PeersChanged(t, c) \in Config
<1>1. c.pools \in [IPs -> SUBSET Services] /\ c.peers \in [Nodes -> SUBSET Services]
  BY DEF Config
<1>2. AddAddressPool(c.pools, t.ip, t.s) \in [IPs -> SUBSET Services]
  BY <1>1 DEF AddAddressPool
<1>3. RemoveAddressPoolByAddress(c.pools, t.ip) \in [IPs -> SUBSET Services]
  BY <1>1 DEF RemoveAddressPoolByAddress
<1>4. PeerRemoveService(c.peers, t.s) \in [Nodes -> SUBSET Services]
  BY <1>1 DEF PeerRemoveService
<1>5. PeerAddService(c.peers, t.nodes, t.s) \in [Nodes -> SUBSET Services]
  BY <1>1 DEF PeerAddService
<1> QED BY <1>1, <1>2, <1>3, <1>4, <1>5 DEF PoolsChanged, PeersChanged, Config

\* What a call changes in the pools, entry by entry.
LEMMA ChangedPools ==
  ASSUME NEW c \in Config, NEW t \in Task, NEW s \in Services, NEW i \in IPs
  PROVE  /\ PeersChanged(t, c).pools = c.pools
         /\ s \in PoolsChanged(t, c).pools[i] <=>
              IF t.op = "add" THEN s \in c.pools[i] \/ (s = t.s /\ i = t.ip)
              ELSE s \in c.pools[i] /\ i # t.ip
<1>1. c.pools \in [IPs -> SUBSET Services]
  BY DEF Config
<1>2. PeersChanged(t, c).pools = c.pools
  BY DEF PeersChanged, Config
<1>3. PoolsChanged(t, c).pools = IF t.op = "add" THEN AddAddressPool(c.pools, t.ip, t.s)
                                 ELSE RemoveAddressPoolByAddress(c.pools, t.ip)
  BY DEF PoolsChanged, Config
<1>4. s \in AddAddressPool(c.pools, t.ip, t.s)[i] <=>
        s \in c.pools[i] \/ (s = t.s /\ i = t.ip)
  BY <1>1 DEF AddAddressPool
<1>5. s \in RemoveAddressPoolByAddress(c.pools, t.ip)[i] <=> s \in c.pools[i] /\ i # t.ip
  BY <1>1 DEF RemoveAddressPoolByAddress
<1> QED BY <1>2, <1>3, <1>4, <1>5

\* What a call changes in the peers, entry by entry.
LEMMA ChangedPeers ==
  ASSUME NEW c \in Config, NEW t \in Task, NEW s \in Services, NEW n \in Nodes
  PROVE  /\ PoolsChanged(t, c).peers = c.peers
         /\ s \in PeersChanged(t, c).peers[n] <=>
              IF t.op = "remove" THEN s \in c.peers[n] /\ s # t.s
              ELSE s \in c.peers[n] \/ (s = t.s /\ n \in t.nodes)
<1>1. c.peers \in [Nodes -> SUBSET Services]
  BY DEF Config
<1>2. PoolsChanged(t, c).peers = c.peers
  BY DEF PoolsChanged, Config
<1>3. PeersChanged(t, c).peers = IF t.op = "remove" THEN PeerRemoveService(c.peers, t.s)
                                 ELSE PeerAddService(c.peers, t.nodes, t.s)
  BY DEF PeersChanged, Config
<1>4. s \in PeerAddService(c.peers, t.nodes, t.s)[n] <=>
        s \in c.peers[n] \/ (s = t.s /\ n \in t.nodes)
  BY <1>1 DEF PeerAddService
<1>5. s \in PeerRemoveService(c.peers, t.s)[n] <=> s \in c.peers[n] /\ s # t.s
  BY <1>1 DEF PeerRemoveService
<1> QED BY <1>2, <1>3, <1>4, <1>5

-----------------------------------------------------------------------------
(* Types.                                                                   *)

\* What the types of the calls ask of one call.
CallOK(t) ==
    /\ t \in Task
    /\ t.op \in {"add", "remove"} => t.ip \in IPs
    /\ t.pc # "idle" => t.s \in Services /\ t.op # "none"
    /\ t.pc \in {"load", "reload", "storePool", "storePeers"} => t.seen \in Config

\* One call moves on, and the others stay as they are.
LEMMA OneCall ==
  ASSUME TypeOK, NEW w \in Workers, NEW t, CallOK(t), task' = [task EXCEPT ![w] = t]
  PROVE  /\ task' \in [Workers -> Task]
         /\ \A v \in Workers : CallOK(task'[v])
<1>1. \A v \in Workers : CallOK(task[v])
  BY DEF TypeOK, CallOK
<1> QED BY <1>1 DEF TypeOK, CallOK

\* The call of w after each of the steps that leave it under way.
LEMMA MovesOn ==
  ASSUME TypeOK, NEW w \in Workers, task[w].pc # "idle",
         NEW pc \in {"pool", "writePool", "reget", "peers", "writePeers"}
  PROVE  /\ CallOK([task[w] EXCEPT !.pc = pc])
         /\ CallOK([task[w] EXCEPT !.pc = pc, !.seen = Nil])
         /\ \A p \in {"load", "reload", "storePool", "storePeers"}, c \in Config :
              CallOK([task[w] EXCEPT !.pc = p, !.seen = c])
         /\ CallOK(NoTask)
<1>1. CallOK(task[w])
  BY DEF TypeOK, CallOK
<1>2. task[w] \in Task /\ Nil \in Config \union {Nil}
  BY <1>1 DEF CallOK
<1>3. CallOK([task[w] EXCEPT !.pc = pc])
  BY <1>1, <1>2 DEF CallOK, Task
<1>4. CallOK([task[w] EXCEPT !.pc = pc, !.seen = Nil])
  BY <1>1, <1>2 DEF CallOK, Task
<1>5. ASSUME NEW p \in {"load", "reload", "storePool", "storePeers"}, NEW c \in Config
      PROVE  CallOK([task[w] EXCEPT !.pc = p, !.seen = c])
  BY <1>1, <1>2, <1>5 DEF CallOK, Task
<1>6. CallOK(NoTask)
  BY RestingTypes DEF CallOK, NoTask
<1> QED BY <1>3, <1>4, <1>5, <1>6

\* Each step moves one call on, ends them all, or leaves them alone.
LEMMA TasksStep ==
  ASSUME TypeOK, Next
  PROVE  /\ task' \in [Workers -> Task]
         /\ \A v \in Workers : CallOK(task'[v])
<1>0. /\ \A v \in Workers : CallOK(task[v])
      /\ task \in [Workers -> Task]
  BY DEF TypeOK, CallOK
<1>1. ASSUME NEW w \in Workers, NEW s \in Services,
             StartAdd(w, s) \/ StartRemove(w, s) \/ StartUpdate(w, s)
      PROVE  \E t : CallOK(t) /\ task' = [task EXCEPT ![w] = t]
  <2>1. CASE StartAdd(w, s)
    <3>1. PICK nodes \in SUBSET cluster :
              task' = [task EXCEPT ![w] = Call("add", "get", s, address[s], nodes)]
      BY <2>1 DEF StartAdd
    <3>2. CallOK(Call("add", "get", s, address[s], nodes))
      <4>1. address[s] \in IPs /\ nodes \in SUBSET Nodes
        BY <2>1 DEF StartAdd, TypeOK
      <4>2. Call("add", "get", s, address[s], nodes) \in Task
        BY <4>1, CallType
      <4> QED BY <4>1, <4>2 DEF CallOK, Call
    <3> QED BY <3>1, <3>2
  <2>2. CASE StartRemove(w, s)
    <3>1. CallOK(Call("remove", "get", s, address[s], {}))
      <4>1. address[s] \in IPs
        BY <2>2 DEF StartRemove, TypeOK
      <4>2. Call("remove", "get", s, address[s], {}) \in Task
        BY <4>1, CallType
      <4> QED BY <4>1, <4>2 DEF CallOK, Call
    <3> QED BY <2>2, <3>1 DEF StartRemove
  <2>3. CASE StartUpdate(w, s)
    <3>1. PICK nodes \in SUBSET cluster :
              task' = [task EXCEPT ![w] = Call("update", "reget", s, Nil, nodes)]
      BY <2>3 DEF StartUpdate
    <3>2. CallOK(Call("update", "reget", s, Nil, nodes))
      <4>1. nodes \in SUBSET Nodes
        BY DEF TypeOK
      <4>2. Call("update", "reget", s, Nil, nodes) \in Task
        BY <4>1, CallType
      <4> QED BY <4>2 DEF CallOK, Call
    <3> QED BY <3>1, <3>2
  <2> QED BY <1>1, <2>1, <2>2, <2>3
<1>2. ASSUME NEW w \in Workers,
             GetConfigMap(w) \/ Get(w) \/ ReadPools(w) \/ StorePools(w) \/ WritePools(w)
      PROVE  \E t : CallOK(t) /\ task' = [task EXCEPT ![w] = t]
  <2>1. task[w].pc # "idle"
    BY <1>2 DEF GetConfigMap, Get, ReadPools, StorePools, WritePools
  <2>2. CASE Get(w)
    <3>1. \E pc \in {"pool", "peers"} :
            task' = [task EXCEPT ![w] = [task[w] EXCEPT !.pc = pc, !.seen = Nil]]
      BY <1>0, <2>2 DEF Get
    <3> QED BY <2>1, <3>1, MovesOn
  <2>6. CASE GetConfigMap(w)
    <3>1. saved \in Config
      BY DEF TypeOK
    <3>2. \E pc \in {"load", "reload"} :
            task' = [task EXCEPT ![w] = [task[w] EXCEPT !.pc = pc, !.seen = saved]]
      BY <1>0, <2>6 DEF GetConfigMap
    <3> QED BY <2>1, <3>1, <3>2, MovesOn
  <2>3. CASE ReadPools(w)
    <3>1. config \in Config
      BY <2>3 DEF ReadPools, TypeOK
    <3>2. \/ task' = [task EXCEPT ![w] = [task[w] EXCEPT !.pc = "reget"]]
          \/ task' = [task EXCEPT ![w] = [task[w] EXCEPT !.pc = "storePool", !.seen = config]]
      BY <1>0, <2>3 DEF ReadPools, Goto
    <3> QED BY <2>1, <3>1, <3>2, MovesOn
  <2>4. CASE StorePools(w)
    <3>1. task' = [task EXCEPT ![w] = [task[w] EXCEPT !.pc = "writePool", !.seen = Nil]]
      BY <1>0, <2>4 DEF StorePools
    <3> QED BY <2>1, <3>1, MovesOn
  <2>5. CASE WritePools(w)
    <3>1. \E pc \in {"reget", "peers"} : task' = [task EXCEPT ![w] = [task[w] EXCEPT !.pc = pc]]
      BY <1>0, <2>5 DEF WritePools, Goto
    <3> QED BY <2>1, <3>1, MovesOn
  <2> QED BY <1>2, <2>2, <2>3, <2>4, <2>5, <2>6
<1>3. ASSUME NEW w \in Workers,
             ReadPeers(w) \/ StorePeers(w) \/ WritePeers(w) \/ GetFails(w) \/ WriteFails(w)
      PROVE  \E t : CallOK(t) /\ task' = [task EXCEPT ![w] = t]
  <2>1. task[w].pc # "idle"
    BY <1>3 DEF ReadPeers, StorePeers, WritePeers, GetFails, WriteFails
  <2>2. CASE ReadPeers(w)
    <3>1. \/ /\ task' = [task EXCEPT ![w] = [task[w] EXCEPT !.pc = "storePeers", !.seen = config]]
             /\ config \in Config
          \/ task' = [task EXCEPT ![w] = NoTask]
      BY <1>0, <2>2 DEF ReadPeers, Return, TypeOK
    <3> QED BY <2>1, <3>1, MovesOn
  <2>3. CASE StorePeers(w)
    <3>1. \/ task' = [task EXCEPT ![w] = [task[w] EXCEPT !.pc = "writePeers", !.seen = Nil]]
          \/ task' = [task EXCEPT ![w] = NoTask]
      BY <1>0, <2>3 DEF StorePeers, Return
    <3> QED BY <2>1, <3>1, MovesOn
  <2>4. CASE WritePeers(w) \/ GetFails(w) \/ WriteFails(w)
    <3>1. task' = [task EXCEPT ![w] = NoTask]
      BY <2>4 DEF WritePeers, GetFails, WriteFails, Fail, Return
    <3> QED BY <2>1, <3>1, MovesOn
  <2> QED BY <1>3, <2>2, <2>3, <2>4
<1>4. ASSUME Restart
      PROVE  task' \in [Workers -> Task] /\ \A v \in Workers : CallOK(task'[v])
  BY <1>4, RestingTypes DEF Restart, CallOK, NoTask
<1>5. CASE \/ \E s \in Services : UpdateRefused(s) \/ Requeue(s) \/ \E i \in IPs : Assign(s, i)
           \/ \E n \in Nodes : NodesChange(n)
  <2>1. task' = task
    BY <1>5 DEF UpdateRefused, Requeue, Assign, NodesChange
  <2> QED BY <1>0, <2>1
<1>6. CASE Crash \/ \E w \in Workers : Panic(w)
  BY <1>4, <1>6 DEF Crash, Panic
<1> QED BY <1>1, <1>2, <1>3, <1>5, <1>6, OneCall DEF Next, Steps


\* Types are preserved.
LEMMA TypeStep ==
  ASSUME TypeOK, [Next]_vars
  PROVE  TypeOK'
<1>1. CASE Next
  <2>1. task' \in [Workers -> Task] /\ \A v \in Workers : CallOK(task'[v])
    BY <1>1, TasksStep
  <2>2. /\ \A w \in Workers : CallOK(task[w])
        /\ Bytes(config) \in Config
    BY RestingTypes DEF TypeOK, CallOK, Bytes
  <2>3. saved' \in Config
    BY <1>1, <2>2 DEF TypeOK, Next, Steps, GetConfigMap, Get, GetFails, ReadPools, StorePools,
       WritePools, ReadPeers, StorePeers, WritePeers, WriteFails, Panic, Crash, StartAdd, StartRemove,
       StartUpdate, UpdateRefused, Requeue, Assign, NodesChange
  <2>4. config' \in Config \union {Nil}
    <3>1. ASSUME NEW w \in Workers, StorePools(w) \/ StorePeers(w)
          PROVE  config' \in Config
      <4>1. config \in Config
        BY <3>1 DEF TypeOK, StorePools, StorePeers
      <4>2. task[w] \in Task /\ task[w].s \in Services /\ task[w].seen \in Config
        BY <2>2, <3>1 DEF CallOK, StorePools, StorePeers
      <4>3. /\ PoolsChanged(task[w], task[w].seen) \in Config
            /\ PeersChanged(task[w], task[w].seen) \in Config
        BY <4>2, ChangedTypes
      <4> QED BY <3>1, <4>1, <4>3 DEF StorePools, StorePeers, Config
    <3>2. ASSUME NEW w \in Workers, Get(w)
          PROVE  config' \in Config
      BY <2>2, <3>2 DEF Get, CallOK
    <3> QED BY <1>1, <3>1, <3>2 DEF TypeOK, Next, Steps, GetConfigMap, GetFails, ReadPools,
       WritePools,
       ReadPeers, WritePeers, WriteFails, Panic, Crash, Restart, StartAdd, StartRemove,
       StartUpdate, UpdateRefused, Requeue, Assign, NodesChange
  <2>5. address' \in [Services -> IPs \union {Nil}]
    BY <1>1 DEF TypeOK, Next, Steps, GetConfigMap, Get, GetFails, ReadPools, StorePools, WritePools,
       ReadPeers, StorePeers, WritePeers, WriteFails, Panic, Crash, StartAdd, StartRemove,
       StartUpdate, UpdateRefused, Requeue, Assign, NodesChange
  <2>6. cluster' \subseteq Nodes
    BY <1>1 DEF TypeOK, Next, Steps, GetConfigMap, Get, GetFails, ReadPools, StorePools, WritePools,
       ReadPeers, StorePeers, WritePeers, WriteFails, Panic, Crash, StartAdd, StartRemove,
       StartUpdate, UpdateRefused, Requeue, Assign, NodesChange
  <2>7. due' \subseteq Services /\ stale' \subseteq Services
    <3>1. ASSUME NEW w \in Workers, GetFails(w) \/ WriteFails(w)
          PROVE  due' \subseteq Services /\ stale' \subseteq Services
      <4>1. task[w].s \in Services
        BY <2>2, <3>1 DEF CallOK, GetFails, WriteFails
      <4> QED BY <3>1, <4>1 DEF GetFails, WriteFails, Fail, TypeOK
    <3> QED BY <1>1, <3>1 DEF TypeOK, Next, Steps, GetConfigMap, Get, ReadPools, StorePools,
       WritePools,
       ReadPeers, StorePeers, WritePeers, Panic, Crash, Restart, StartAdd, StartRemove,
       StartUpdate, UpdateRefused, Requeue, Assign, NodesChange
  <2>8. faults' \in 0 .. MaxFaults
    <3>1. ASSUME NEW k, Disturb(k)
          PROVE  faults' \in 0 .. MaxFaults
      BY <3>1, FaultsAssumption DEF Disturb, TypeOK
    <3>2. CASE faults' = faults
      BY <3>2 DEF TypeOK
    <3>3. ASSUME NEW s, NEW nodes, Passed(s, nodes)
          PROVE  faults' \in 0 .. MaxFaults
      BY <3>1, <3>2, <3>3 DEF Passed
    <3> QED BY <1>1, <3>1, <3>2, <3>3 DEF Next, Steps, GetConfigMap, Get, GetFails, ReadPools, StorePools,
       WritePools, ReadPeers, StorePeers, WritePeers, WriteFails, Panic, Crash, StartAdd,
       StartRemove, StartUpdate, UpdateRefused, Requeue, Assign, NodesChange
  <2>9. owner' \in Workers \union {Nil} /\ overlap' \in BOOLEAN
    BY <1>1 DEF TypeOK, Next, Steps, GetConfigMap, Get, GetFails, ReadPools, StorePools, WritePools,
       ReadPeers, StorePeers, WritePeers, WriteFails, Panic, Crash, Restart, StartAdd,
       StartRemove, StartUpdate, UpdateRefused, Requeue, Assign, NodesChange, Owns, Uses, Meets, history
  <2>10. skipped' \in [Services -> SUBSET Nodes]
    <3>1. ASSUME NEW s \in Services, NEW nodes, Passed(s, nodes)
          PROVE  skipped' \in [Services -> SUBSET Nodes]
      BY <3>1 DEF Passed, TypeOK
    <3>2. CASE UNCHANGED skipped
      BY <3>2 DEF TypeOK
    <3> QED BY <1>1, <3>1, <3>2 DEF Next, Steps, GetConfigMap, Get, GetFails, ReadPools, StorePools,
       WritePools, ReadPeers, StorePeers, WritePeers, WriteFails, Panic, Crash, Restart, StartAdd,
       StartRemove, StartUpdate, UpdateRefused, Requeue, Assign, NodesChange, Owns, Uses, history
  <2> QED BY <2>1, <2>3, <2>4, <2>5, <2>6, <2>7, <2>8, <2>9, <2>10 DEF TypeOK, CallOK
<1>2. CASE UNCHANGED vars
  BY <1>2 DEF vars, history, TypeOK
<1> QED BY <1>1, <1>2

-----------------------------------------------------------------------------
(* The owner of m.config.                                                   *)

\* Storing one part of a change to m.config stores the change.
LEMMA Stored ==
  ASSUME NEW c \in Config, NEW t
  PROVE  /\ [c EXCEPT !.pools = PoolsChanged(t, c).pools] = PoolsChanged(t, c)
         /\ [c EXCEPT !.peers = PeersChanged(t, c).peers] = PeersChanged(t, c)
  BY DEF PoolsChanged, PeersChanged, Config

\* The steps of a call leave the owner of m.config with what it has read or stored.
LEMMA OwnerStep ==
  ASSUME TypeOK, OwnerInv, [Next]_vars
  PROVE  OwnerInv'
<1> USE DEF Config
<1> SUFFICES ASSUME NEW v \in Workers, owner' = v
             PROVE  /\ task'[v].pc \in {"load", "reload"} => task'[v].seen = saved'
                    /\ task'[v].pc \in {"pool", "storePool", "peers", "storePeers"} =>
                         config' = saved'
                    /\ task'[v].pc \in {"storePool", "storePeers"} => task'[v].seen = config'
                    /\ task'[v].pc = "writePool" => config' = PoolsChanged(task'[v], saved')
                    /\ task'[v].pc = "writePeers" => config' = PeersChanged(task'[v], saved')
  BY DEF OwnerInv
<1>0. /\ task \in [Workers -> Task] /\ saved \in Config /\ Nil \notin Workers
      /\ \A w \in Workers : CallOK(task[w])
  BY NilAssumption DEF TypeOK, CallOK
<1>1. CASE UNCHANGED <<task, config, saved, owner>>
  BY <1>1 DEF OwnerInv
<1>2. ASSUME NEW w \in Workers, NEW s \in Services,
             StartAdd(w, s) \/ StartRemove(w, s) \/ StartUpdate(w, s)
      PROVE  \/ v # w /\ task'[v] = task[v]
             \/ task'[v].pc \in {"get", "reget"}
  BY <1>0, <1>2 DEF StartAdd, StartRemove, StartUpdate, Call
<1>3. ASSUME NEW w \in Workers, NEW s \in Services,
             StartAdd(w, s) \/ StartRemove(w, s) \/ StartUpdate(w, s)
      PROVE  UNCHANGED <<config, saved, owner>>
  BY <1>3 DEF StartAdd, StartRemove, StartUpdate, history
<1>4. CASE \E w \in Workers, s \in Services :
              StartAdd(w, s) \/ StartRemove(w, s) \/ StartUpdate(w, s)
  BY <1>2, <1>3, <1>4 DEF OwnerInv
<1>5. CASE \E w \in Workers : GetConfigMap(w) \/ Get(w)
  <2>1. PICK w \in Workers : GetConfigMap(w) \/ Get(w)
    BY <1>5
  <2>2. CASE GetConfigMap(w)
    <3>1. v = w /\ saved' = saved
      BY <2>2 DEF GetConfigMap, Owns
    <3>2. task'[v].pc \in {"load", "reload"} /\ task'[v].seen = saved
      BY <1>0, <2>2, <3>1 DEF GetConfigMap, CallOK, Task
    <3> QED BY <3>1, <3>2
  <2>3. CASE Get(w)
    <3>1. v = w /\ owner = v /\ saved' = saved
      BY <1>0, <2>3 DEF Get, Uses
    <3>2. config' = saved
      BY <2>3, <3>1 DEF Get, OwnerInv
    <3>3. task'[v].pc \in {"pool", "peers"}
      BY <1>0, <2>3, <3>1 DEF Get, CallOK, Task
    <3> QED BY <3>1, <3>2, <3>3
  <2> QED BY <2>1, <2>2, <2>3
<1>6. CASE \E w \in Workers : ReadPools(w) \/ ReadPeers(w)
  <2>1. PICK w \in Workers : ReadPools(w) \/ ReadPeers(w)
    BY <1>6
  <2>2. UNCHANGED <<config, saved, owner>> /\ task[w].pc \in {"pool", "peers"}
    BY <2>1 DEF ReadPools, ReadPeers, history
  <2>3. \/ v # w /\ task'[v] = task[v]
        \/ v = w /\ task'[v].pc \in {"reget", "idle"}
        \/ v = w /\ task'[v].pc \in {"storePool", "storePeers"} /\ task'[v].seen = config
    BY <1>0, <2>1 DEF ReadPools, ReadPeers, Goto, Return, NoTask, Task
  <2> QED BY <2>2, <2>3 DEF OwnerInv
<1>7. CASE \E w \in Workers : StorePools(w) \/ StorePeers(w)
  <2>1. PICK w \in Workers : StorePools(w) \/ StorePeers(w)
    BY <1>7
  <2>2. v = w /\ owner = v
    BY <1>0, <2>1 DEF StorePools, StorePeers, Uses
  <2>3. config = saved /\ task[v].seen = saved
    BY <2>1, <2>2 DEF OwnerInv, StorePools, StorePeers
  <2>4. CASE StorePools(w)
    <3>1. task'[v] = [task[v] EXCEPT !.pc = "writePool", !.seen = Nil] /\ saved' = saved
      BY <1>0, <2>2, <2>4 DEF StorePools
    <3>2. PoolsChanged(task'[v], saved) = PoolsChanged(task[v], saved)
      BY <1>0, <3>1 DEF PoolsChanged, Task, CallOK
    <3>3. config' = PoolsChanged(task[v], saved)
      BY <1>0, <2>2, <2>3, <2>4, Stored DEF StorePools
    <3> QED BY <1>0, <3>1, <3>2, <3>3 DEF Task, CallOK
  <2>5. CASE StorePeers(w)
    <3>1. CASE task'[v] = NoTask
      BY <3>1 DEF NoTask
    <3>2. CASE task'[v] = [task[v] EXCEPT !.pc = "writePeers", !.seen = Nil]
      <4>1. PeersChanged(task'[v], saved) = PeersChanged(task[v], saved)
        BY <1>0, <3>2 DEF PeersChanged, Task, CallOK
      <4>2. config' = PeersChanged(task[v], saved) /\ saved' = saved
        BY <1>0, <2>2, <2>3, <2>5, Stored DEF StorePeers
      <4> QED BY <1>0, <3>2, <4>1, <4>2 DEF Task, CallOK
    <3> QED BY <1>0, <2>2, <2>5, <3>1, <3>2 DEF StorePeers, Return
  <2> QED BY <2>1, <2>4, <2>5
<1>8. CASE \E w \in Workers : WritePools(w)
  <2>1. PICK w \in Workers : WritePools(w)
    BY <1>8
  <2>2. v = w /\ owner = v
    BY <1>0, <2>1 DEF WritePools, Uses
  <2>3. config = PoolsChanged(task[v], saved)
    BY <2>1, <2>2 DEF OwnerInv, WritePools
  <2>4. task[v] \in Task /\ task[v].s \in Services
    BY <1>0, <2>1, <2>2 DEF CallOK, WritePools
  <2>5. config # Nil
    BY <1>0, <2>3, <2>4, ChangedTypes, NilAssumption
  <2>6. config' = saved' /\ task'[v].pc \in {"reget", "peers"}
    BY <1>0, <2>1, <2>2, <2>5 DEF WritePools, Bytes, Goto, Task
  <2> QED BY <2>6
<1>9. CASE \E w \in Workers : WritePeers(w) \/ WriteFails(w)
  <2>1. task'[v] = NoTask
    BY <1>0, <1>9 DEF WritePeers, WriteFails, Fail, Return, Uses
  <2> QED BY <2>1 DEF NoTask
<1>10. CASE Crash \/ \E w \in Workers : GetFails(w) \/ Panic(w)
  BY <1>0, <1>10 DEF Crash, Restart, GetFails, Panic
<1>11. CASE \/ \E s \in Services : UpdateRefused(s) \/ Requeue(s) \/ \E i \in IPs : Assign(s, i)
            \/ \E n \in Nodes : NodesChange(n)
            \/ UNCHANGED vars
  BY <1>1, <1>11 DEF UpdateRefused, Requeue, Assign, NodesChange, vars, history
<1> QED BY <1>4, <1>5, <1>6, <1>7, <1>8, <1>9, <1>10, <1>11 DEF Next, Steps

-----------------------------------------------------------------------------
(* The calls.                                                               *)

\* The steps of a call, its failures included.
Moves(w) ==
    \/ GetConfigMap(w) \/ Get(w) \/ ReadPools(w) \/ StorePools(w) \/ WritePools(w)
    \/ ReadPeers(w) \/ StorePeers(w) \/ WritePeers(w)
    \/ GetFails(w) \/ WriteFails(w)

Ways == {<<"get", "load">>, <<"load", "pool">>, <<"reget", "reload">>,
         <<"reload", "peers">>, <<"pool", "reget">>,
         <<"pool", "storePool">>, <<"storePool", "writePool">>, <<"writePool", "reget">>,
         <<"writePool", "peers">>, <<"peers", "storePeers">>, <<"storePeers", "writePeers">>}

\* A step of a call is a step to its next statement or its end, and of it alone.
LEMMA CallMoves ==
  ASSUME TypeOK, NEW w \in Workers, Moves(w)
  PROVE  /\ \A v \in Workers : v # w => task'[v] = task[v]
         /\ task[w].pc # "idle"
         /\ \/ task'[w] = NoTask
            \/ /\ task'[w].op = task[w].op /\ task'[w].s = task[w].s
               /\ task'[w].ip = task[w].ip /\ task'[w].nodes = task[w].nodes
               /\ <<task[w].pc, task'[w].pc>> \in Ways
         /\ UNCHANGED <<address, cluster, skipped>>
         /\ due \subseteq due' /\ stale \subseteq stale'
<1>1. task \in [Workers -> Task] /\ task[w] \in Task
  BY DEF TypeOK
<1>2. CASE GetConfigMap(w) \/ Get(w) \/ ReadPools(w) \/ ReadPeers(w)
  BY <1>1, <1>2 DEF GetConfigMap, Get, ReadPools, ReadPeers, Goto, Return, Task, Ways,
     Owns, Uses, history
<1>3. CASE StorePools(w) \/ StorePeers(w) \/ WritePools(w)
  BY <1>1, <1>3 DEF StorePools, StorePeers, WritePools, Goto, Return, Task, Ways, Uses
<1>4. CASE WritePeers(w)
  BY <1>1, <1>4 DEF WritePeers, Return, Uses
<1>5. CASE GetFails(w) \/ WriteFails(w)
  BY <1>1, <1>5 DEF GetFails, WriteFails, Fail, Return, Uses
<1> QED BY <1>2, <1>3, <1>4, <1>5 DEF Moves

\* No step breaks the correspondence of calls, addresses and queue.
LEMMA CallStep ==
  ASSUME TypeOK, CallInv, [Next]_vars
  PROVE  CallInv'
<1>0. /\ task \in [Workers -> Task] /\ address \in [Services -> IPs \union {Nil}]
      /\ Nil \notin IPs \union Services
      /\ \A w \in Workers : CallOK(task[w])
  BY NilAssumption DEF TypeOK, CallOK
<1>1. ASSUME NEW w \in Workers, NEW s \in Services,
             StartAdd(w, s) \/ StartRemove(w, s) \/ StartUpdate(w, s)
      PROVE  CallInv'
  <2>1. /\ \A v \in Workers : v # w => task'[v] = task[v]
        /\ task[w].op = "none"
    BY <1>0, <1>1 DEF StartAdd, StartRemove, StartUpdate, CallInv, NoTask
  <2>2. CASE StartAdd(w, s)
    <3>1. /\ \E nodes \in SUBSET cluster : task'[w] = Call("add", "get", s, address[s], nodes)
          /\ address' = address /\ due' = due \ {s} /\ Alone(s)
      BY <1>0, <2>2 DEF StartAdd
    <3> QED BY <1>0, <2>1, <3>1 DEF CallInv, Call, Alone
  <2>3. CASE StartRemove(w, s)
    <3>1. /\ task'[w] = Call("remove", "get", s, address[s], {})
          /\ address' = [address EXCEPT ![s] = Nil] /\ due' = due /\ Alone(s)
      BY <1>0, <2>3 DEF StartRemove
    <3> QED BY <1>0, <2>1, <3>1 DEF CallInv, Call, Alone, CallOK
  <2>4. CASE StartUpdate(w, s)
    <3>1. /\ \E nodes \in SUBSET cluster : task'[w] = Call("update", "reget", s, Nil, nodes)
          /\ address' = address /\ due' = due
      BY <1>0, <2>4 DEF StartUpdate
    <3> QED BY <1>0, <2>1, <3>1 DEF CallInv, Call
  <2> QED BY <1>1, <2>2, <2>3, <2>4
<1>2. ASSUME NEW w \in Workers, Moves(w)
      PROVE  CallInv'
  <2>1. /\ \A v \in Workers : v # w => task'[v] = task[v]
        /\ task[w].pc # "idle"
        /\ \/ task'[w] = NoTask
           \/ /\ task'[w].op = task[w].op /\ task'[w].s = task[w].s
              /\ task'[w].ip = task[w].ip /\ task'[w].nodes = task[w].nodes
              /\ <<task[w].pc, task'[w].pc>> \in Ways
        /\ address' = address /\ due \subseteq due'
    BY <1>2, CallMoves
  <2>2. ASSUME NEW v \in Workers
        PROVE  /\ task'[v].op \in {"add", "remove"} =>
                    task'[v].op = task[v].op /\ task'[v].s = task[v].s /\ task'[v].ip = task[v].ip
               /\ task'[v].pc \in {"get", "load", "pool", "storePool", "writePool"} =>
                    task'[v].op \in {"add", "remove"}
               /\ task'[v].pc = "idle" => task'[v] = NoTask
    <3>1. CASE v = w
      BY <2>1, <3>1 DEF CallInv, NoTask, Ways
    <3>2. CASE v # w
      BY <2>1, <3>2 DEF CallInv
    <3> QED BY <3>1, <3>2
  <2> QED BY <2>1, <2>2 DEF CallInv
<1>3. ASSUME Restart, address' = address
      PROVE  CallInv'
  BY <1>3 DEF Restart, CallInv, NoTask
<1>4. ASSUME NEW s \in Services, NEW i \in IPs, Assign(s, i)
      PROVE  CallInv'
  <2>1. /\ address' = [address EXCEPT ![s] = i] /\ due' = due \union {s} /\ task' = task
        /\ address[s] = Nil /\ \A t \in Services : address[t] # i
    BY <1>4 DEF Assign
  <2>2. \A w \in Workers : task[w].op = "add" => task[w].ip \in IPs
    BY <1>0 DEF CallOK
  <2> QED BY <1>0, <2>1, <2>2 DEF CallInv, CallOK
<1>5. CASE (\E s \in Services : UpdateRefused(s) \/ Requeue(s)) \/ (\E n \in Nodes : NodesChange(n)) \/ UNCHANGED vars
  <2>1. UNCHANGED <<address, task>> /\ due \subseteq due'
    BY <1>5 DEF UpdateRefused, Requeue, NodesChange, vars
  <2> QED BY <2>1 DEF CallInv
<1> QED BY <1>1, <1>2, <1>3, <1>4, <1>5 DEF Next, Steps, Moves, Panic, Crash

-----------------------------------------------------------------------------
(* What is saved while no two calls meet.                                   *)

\* Only a write changes what is saved, and by its call's change.
LEMMA SavedStep ==
  ASSUME TypeOK, OwnerInv, NEW w \in Workers, Moves(w), ~overlap'
  PROVE  /\ ~overlap
         /\ \/ saved' = saved
            \/ task[w].pc = "writePool" /\ saved' = PoolsChanged(task[w], saved)
            \/ task[w].pc = "writePeers" /\ saved' = PeersChanged(task[w], saved)
         /\ WritePools(w) => saved' = PoolsChanged(task[w], saved)
         /\ WritePeers(w) => saved' = PeersChanged(task[w], saved)
<1>1. CASE GetConfigMap(w) \/ ReadPools(w) \/ ReadPeers(w) \/ GetFails(w)
  BY <1>1 DEF GetConfigMap, ReadPools, ReadPeers, GetFails, Owns, history, WritePools, WritePeers
<1>2. CASE Get(w) \/ StorePools(w) \/ StorePeers(w)
  BY <1>2 DEF Get, StorePools, StorePeers, Uses, WritePools, WritePeers
<1>3. CASE WritePools(w) \/ WritePeers(w) \/ WriteFails(w)
  <2>1. owner = w /\ ~overlap
    BY <1>3 DEF WritePools, WritePeers, WriteFails, Uses
  <2>2. /\ task[w].pc = "writePool" => config = PoolsChanged(task[w], saved)
        /\ task[w].pc = "writePeers" => config = PeersChanged(task[w], saved)
    BY <2>1 DEF OwnerInv
  <2>3. task[w].pc \in {"writePool", "writePeers"}
    BY <1>3 DEF WritePools, WritePeers, WriteFails
  <2>4. PoolsChanged(task[w], saved) \in Config /\ PeersChanged(task[w], saved) \in Config
    BY <2>3, ChangedTypes DEF TypeOK
  <2>5. Bytes(config) = config
    BY <2>2, <2>3, <2>4, NilAssumption DEF Bytes
  <2> QED BY <1>3, <2>1, <2>2, <2>3, <2>5 DEF WritePools, WritePeers, WriteFails
<1> QED BY <1>1, <1>2, <1>3 DEF Moves

\* An address stays saved for a service, unless the call removes it.
LEMMA PoolsKept ==
  ASSUME TypeOK, OwnerInv, CallInv, NEW w \in Workers, Moves(w), ~overlap',
         NEW s \in Services, NEW i \in IPs,
         s \in saved.pools[i], task[w].op = "remove" => task[w].ip # i
  PROVE  s \in saved'.pools[i]
<1>0. saved \in Config /\ task[w] \in Task
  BY DEF TypeOK
<1>1. CASE task[w].pc = "writePool" /\ saved' = PoolsChanged(task[w], saved)
  <2>1. task[w].op \in {"add", "remove"}
    BY <1>1 DEF CallInv
  <2> QED BY <1>0, <1>1, <2>1, ChangedPools
<1>2. CASE saved' = PeersChanged(task[w], saved)
  BY <1>0, <1>2, ChangedPools
<1> QED BY <1>1, <1>2, SavedStep

\* The peers of a service stay known, unless the call removes the service.
LEMMA NodesKept ==
  ASSUME TypeOK, OwnerInv, CallInv, NEW w \in Workers, Moves(w), ~overlap',
         NEW s \in Services, NodesKnown(s), task[w].op = "remove" => task[w].s # s
  PROVE  NodesKnown(s)'
<1>0. /\ saved \in Config /\ task[w] \in Task /\ cluster \subseteq Nodes
      /\ task \in [Workers -> Task]
  BY DEF TypeOK
<1>1. /\ \A v \in Workers : v # w => task'[v] = task[v]
      /\ \/ task'[w] = NoTask
         \/ /\ task'[w].op = task[w].op /\ task'[w].s = task[w].s
            /\ task'[w].nodes = task[w].nodes
      /\ NodesOf(s)' = NodesOf(s) /\ stale \subseteq stale' /\ due \subseteq due'
      /\ NodesOf(s) \subseteq Nodes
  BY <1>0, CallMoves DEF NodesOf
<1>2. ASSUME NEW n \in Nodes, s \in saved.peers[n]
      PROVE  s \in saved'.peers[n]
  <2>1. CASE saved' = PeersChanged(task[w], saved)
    BY <1>0, <1>2, <2>1, ChangedPeers
  <2>2. CASE saved' = PoolsChanged(task[w], saved)
    BY <1>0, <1>2, <2>2, ChangedPeers
  <2> QED BY <1>2, <2>1, <2>2, SavedStep
<1>3. CASE s \in stale \union due \/ \A n \in NodesOf(s) : s \in saved.peers[n]
  BY <1>0, <1>1, <1>2, <1>3 DEF NodesKnown
<1>4. CASE \E v \in Workers : /\ task[v].op = "update" /\ task[v].s = s
                              /\ NodesOf(s) \subseteq task[v].nodes
  <2>1. PICK v \in Workers : /\ task[v].op = "update" /\ task[v].s = s
                             /\ NodesOf(s) \subseteq task[v].nodes
    BY <1>4
  <2>2. CASE task'[v].op = "update"
    BY <1>1, <2>1, <2>2 DEF NodesKnown, NoTask
  <2>3. CASE task'[v].op # "update"
    <3>1. v = w /\ task'[w] = NoTask
      BY <1>1, <2>1, <2>3
    <3>2. CASE ReadPeers(w)
      <4>1. task[w].nodes = {}
        BY <1>0, <2>1, <3>1, <3>2 DEF ReadPeers, Looks, NoTask, Task
      <4> QED BY <1>1, <2>1, <3>1, <4>1 DEF NodesKnown
    <3>3. CASE WritePeers(w)
      <4>1. saved' = PeersChanged(task[w], saved)
        BY <3>3, SavedStep
      <4>2. \A n \in NodesOf(s) : s \in saved'.peers[n]
        BY <1>0, <1>1, <2>1, <3>1, <4>1, ChangedPeers
      <4> QED BY <1>1, <4>2 DEF NodesKnown
    <3>4. CASE GetFails(w) \/ WriteFails(w)
      <4>1. s \in due'
        BY <2>1, <3>1, <3>4 DEF GetFails, WriteFails, Fail
      <4> QED BY <4>1 DEF NodesKnown
    <3>5. CASE \/ GetConfigMap(w) \/ Get(w) \/ ReadPools(w) \/ StorePools(w)
               \/ WritePools(w) \/ StorePeers(w)
      <4>1. task'[w].pc # "idle"
        BY <1>0, <2>1, <3>1, <3>5 DEF GetConfigMap, Get, ReadPools, StorePools, WritePools,
           StorePeers, Goto, Task
      <4> QED BY <3>1, <4>1 DEF NoTask
    <3> QED BY <3>2, <3>3, <3>4, <3>5 DEF Moves
  <2> QED BY <2>2, <2>3
<1> QED BY <1>3, <1>4 DEF NodesKnown

\* Another call's step leaves what a set-up has found and saved.
LEMMA SetUpKept ==
  ASSUME IInv, NEW w \in Workers, Moves(w), ~overlap', NEW v \in Workers,
         v # w, task[v].op = "add"
  PROVE  SetUp(v)'
<1> DEFINE t == task[v]
<1>1. TypeOK /\ OwnerInv /\ CallInv /\ AloneInv /\ ~overlap
  BY SavedStep DEF IInv
<1>2. /\ saved \in Config /\ task[w] \in Task /\ t \in Task
      /\ t.ip \in IPs /\ t.s \in Services
  BY <1>1, NilAssumption DEF TypeOK, NoTask, CallInv
<1>3. /\ task[w].op = "remove" => task[w].ip # t.ip
      /\ task[w].op = "add" => task[w].s # t.s
      /\ task[w].op = "remove" => task[w].s # t.s
      /\ SetUp(v)
  BY <1>1 DEF AloneInv, CallInv
<1>4. task'[v] = t /\ UNCHANGED <<cluster, skipped>>
  BY <1>1, CallMoves
<1>5. t.s \in saved.pools[t.ip] => t.s \in saved'.pools[t.ip]
  BY <1>1, <1>2, <1>3, PoolsKept
<1>6. PICK s \in Services : s = t.s
  BY <1>2
<1>7. NodesKnown(s) => NodesKnown(s)'
  BY <1>1, <1>2, <1>3, <1>6, NodesKept
<1>8. ASSUME config' # Nil, t.pc = "pool", t.s \in config'.pools[t.ip]
      PROVE  t.s \in saved'.pools[t.ip]
  <2>1. CASE Get(w) \/ GetFails(w)
    BY <1>1, <1>8, <2>1 DEF Get, GetFails, Uses, OwnerInv
  <2>2. CASE GetConfigMap(w) \/ ReadPools(w) \/ ReadPeers(w)
    BY <1>3, <1>8, <2>2 DEF GetConfigMap, ReadPools, ReadPeers, SetUp
  <2>3. CASE StorePools(w)
    <3>1. owner = w /\ task[w].seen = config /\ config = saved /\ saved' = saved
      BY <1>1, <2>3 DEF StorePools, Uses, OwnerInv
    <3>2. config'.pools = PoolsChanged(task[w], saved).pools
      BY <1>2, <2>3, <3>1 DEF StorePools, Config
    <3> QED BY <1>2, <1>3, <1>8, <3>1, <3>2, ChangedPools
  <2>4. CASE StorePeers(w)
    <3>1. owner = w /\ config = saved /\ saved' = saved
      BY <1>1, <2>4 DEF StorePeers, Uses, OwnerInv
    <3>2. config'.pools = saved.pools
      BY <1>2, <2>4, <3>1 DEF StorePeers, Config
    <3> QED BY <1>8, <3>1, <3>2
  <2>5. CASE WritePools(w) \/ WritePeers(w) \/ WriteFails(w)
    <3>1. config' = config /\ saved' \in {saved, Bytes(config)}
      BY <2>5 DEF WritePools, WritePeers, WriteFails
    <3> QED BY <1>3, <1>5, <1>8, <3>1 DEF SetUp, Bytes
  <2> QED BY <2>1, <2>2, <2>3, <2>4, <2>5 DEF Moves
<1> QED BY <1>3, <1>4, <1>5, <1>6, <1>7, <1>8 DEF SetUp, NodesOf

\* A set-up's own steps keep what it has found and saved.
LEMMA SetUpMoves ==
  ASSUME IInv, NEW w \in Workers, Moves(w), ~overlap', task[w].op = "add",
         task'[w] # NoTask
  PROVE  SetUp(w)'
<1> DEFINE t == task[w]
<1>1. TypeOK /\ OwnerInv /\ CallInv /\ AloneInv /\ ~overlap
  BY SavedStep DEF IInv
<1>2. /\ saved \in Config /\ t \in Task /\ task \in [Workers -> Task]
      /\ t.ip \in IPs /\ t.s \in Services
  BY <1>1, NilAssumption DEF TypeOK, NoTask, CallInv
<1>3. SetUp(w)
  BY <1>1 DEF AloneInv
<1>4. /\ task'[w].op = t.op /\ task'[w].s = t.s /\ task'[w].ip = t.ip
      /\ task'[w].nodes = t.nodes /\ UNCHANGED <<cluster, skipped>>
      /\ <<t.pc, task'[w].pc>> \in Ways
  BY <1>1, CallMoves
<1>5. t.s \in saved.pools[t.ip] => t.s \in saved'.pools[t.ip]
  BY <1>1, <1>2, PoolsKept
<1>6. PICK s \in Services : s = t.s
  BY <1>2
<1>7. NodesKnown(s) => NodesKnown(s)'
  BY <1>1, <1>2, <1>6, NodesKept
<1>8. ASSUME task'[w].pc = "pool"
      PROVE  config' = saved'
  <2>1. Get(w)
    BY <1>2, <1>4, <1>8 DEF Moves, Ways, GetConfigMap, Get, ReadPools, StorePools, WritePools,
       ReadPeers, StorePeers, WritePeers, GetFails, WriteFails, Fail, Return, NoTask, Goto
  <2>2. owner = w
    BY <2>1 DEF Get, Uses
  <2> QED BY <1>1, <2>1, <2>2 DEF Get, OwnerInv
<1>9. ASSUME task'[w].pc \in {"reget", "reload", "peers", "storePeers", "writePeers"}
      PROVE  t.s \in saved'.pools[t.ip]
  <2>1. CASE t.pc \in {"reget", "reload", "peers", "storePeers"}
    BY <1>3, <1>5, <2>1 DEF SetUp
  <2>2. CASE ReadPools(w)
    BY <1>2, <1>3, <1>4, <1>9, <2>2 DEF ReadPools, SetUp, Task
  <2>3. CASE WritePools(w)
    <3>1. saved' = PoolsChanged(t, saved)
      BY <1>1, <2>3, SavedStep
    <3> QED BY <1>2, <3>1, ChangedPools
  <2>4. t.pc \in {"reget", "reload", "peers", "storePeers"} \/ ReadPools(w) \/ WritePools(w)
    BY <1>2, <1>4, <1>9 DEF Moves, Ways, GetConfigMap, Get, ReadPools, StorePools, WritePools,
       ReadPeers,
       StorePeers, WritePeers, GetFails, WriteFails, Fail, Return, NoTask, Goto
  <2> QED BY <2>1, <2>2, <2>3, <2>4
<1> QED BY <1>3, <1>4, <1>5, <1>6, <1>7, <1>8, <1>9 DEF SetUp, NodesOf

\* What completed set-ups have saved stays, and a set-up that completes has saved it.
LEMMA CompleteMoves ==
  ASSUME IInv, NEW w \in Workers, Moves(w), ~overlap', NEW s \in Services
  PROVE  Complete(s)'
<1> SUFFICES ASSUME address'[s] # Nil, ~SettingUp(s)'
             PROVE  s \in saved'.pools[address'[s]] /\ NodesKnown(s)'
  BY DEF Complete
<1>1. TypeOK /\ OwnerInv /\ CallInv /\ AloneInv /\ ~overlap
  BY SavedStep DEF IInv
<1>2. /\ saved \in Config /\ task[w] \in Task /\ cluster \subseteq Nodes
      /\ address[s] \in IPs \union {Nil} /\ task \in [Workers -> Task]
  BY <1>1 DEF TypeOK
<1>3. /\ \A v \in Workers : v # w => task'[v] = task[v]
      /\ \/ task'[w] = NoTask
         \/ task'[w].op = task[w].op /\ task'[w].s = task[w].s
      /\ address' = address /\ due \subseteq due' /\ NodesOf(s)' = NodesOf(s)
      /\ NodesOf(s) \subseteq Nodes /\ stale \subseteq stale'
  BY <1>1, <1>2, CallMoves DEF NodesOf
<1>4. address[s] \in IPs /\ address[s] # Nil /\ s \notin due
  <2>1. address'[s] # Nil /\ s \notin due'
    BY DEF SettingUp
  <2> QED BY <1>2, <1>3, <2>1
<1>5. task[w].op = "remove" => task[w].ip # address[s] /\ task[w].s # s
  BY <1>1, <1>4 DEF AloneInv, CallInv
<1>6. /\ s \in saved.pools[address[s]] => s \in saved'.pools[address[s]]
      /\ NodesKnown(s) => NodesKnown(s)'
  BY <1>1, <1>4, <1>5, PoolsKept, NodesKept
<1>7. CASE ~SettingUp(s)
  BY <1>1, <1>3, <1>4, <1>6, <1>7 DEF AloneInv, Complete
<1>8. CASE SettingUp(s)
  <2>1. /\ task[w].s = s /\ task[w].op = "add" /\ task'[w] = NoTask
    BY <1>3, <1>4, <1>8 DEF SettingUp
  <2>2. SetUp(w) /\ task[w].ip = address[s]
    BY <1>1, <2>1 DEF AloneInv, CallInv
  <2>3. ReadPeers(w) \/ WritePeers(w)
    BY <1>2, <1>4, <2>1 DEF Moves, GetConfigMap, Get, ReadPools, StorePools, WritePools, StorePeers,
       GetFails, WriteFails, Fail, Return, NoTask, Goto, Task, SettingUp
  <2>4. s \in saved'.pools[address[s]]
    BY <1>6, <2>1, <2>2, <2>3 DEF SetUp, ReadPeers, WritePeers
  <2>5. NodesKnown(s)'
    <3>1. CASE NodesKnown(s)
      BY <1>6, <3>1
    <3>2. CASE NodesOf(s) \subseteq task[w].nodes /\ WritePeers(w)
      <4>1. saved' = PeersChanged(task[w], saved)
        BY <1>1, <3>2, SavedStep
      <4>2. \A n \in NodesOf(s) : s \in saved'.peers[n]
        BY <1>2, <1>3, <2>1, <3>2, <4>1, ChangedPeers
      <4> QED BY <1>3, <4>2 DEF NodesKnown
    <3>3. CASE NodesOf(s) \subseteq task[w].nodes /\ ReadPeers(w)
      <4>1. task[w].nodes = {}
        BY <1>2, <2>1, <3>3 DEF ReadPeers, Looks, NoTask, Task
      <4> QED BY <1>3, <3>3, <4>1 DEF NodesKnown
    <3> QED BY <2>1, <2>2, <2>3, <3>1, <3>2, <3>3 DEF SetUp
  <2> QED BY <1>3, <2>4, <2>5
<1> QED BY <1>7, <1>8

\* No step takes from what is saved while no two calls meet.
LEMMA AloneStep ==
  ASSUME IInv, TypeOK', [Next]_vars
  PROVE  AloneInv'
<1> SUFFICES ASSUME ~overlap'
             PROVE  AloneInv'
  BY DEF AloneInv
<1>0. /\ TypeOK /\ OwnerInv /\ CallInv /\ AloneInv
      /\ task \in [Workers -> Task] /\ address \in [Services -> IPs \union {Nil}]
      /\ Nil \notin IPs \union Services
      /\ \A w \in Workers : CallOK(task[w])
  BY NilAssumption DEF IInv, TypeOK, CallOK
<1>1. ASSUME NEW w \in Workers, Moves(w)
      PROVE  AloneInv'
  <2>1. /\ \A v \in Workers : v # w => task'[v] = task[v]
        /\ \/ task'[w] = NoTask
           \/ task'[w].op = task[w].op /\ task'[w].s = task[w].s /\ task'[w].ip = task[w].ip
        /\ address' = address /\ due \subseteq due' /\ ~overlap
    BY <1>0, <1>1, CallMoves, SavedStep
  <2>2. ASSUME NEW v \in Workers, NEW s \in Services, task'[v].op = "remove",
               address'[s] = task'[v].ip
        PROVE  s \in due'
    BY <1>0, <2>1, <2>2 DEF AloneInv, NoTask
  <2>3. ASSUME NEW u \in Workers, NEW v \in Workers,
               task'[u].op = "remove", task'[v].op = "add"
        PROVE  task'[u].ip # task'[v].ip
    BY <1>0, <2>1, <2>3 DEF AloneInv, NoTask
  <2>4. ASSUME NEW v \in Workers, task'[v].op = "add"
        PROVE  SetUp(v)'
    BY <1>1, <2>1, <2>4, SetUpKept, SetUpMoves DEF NoTask
  <2>5. \A s \in Services : Complete(s)'
    BY <1>1, CompleteMoves
  <2> QED BY <2>2, <2>3, <2>4, <2>5 DEF AloneInv
<1>2. ASSUME NEW w \in Workers, NEW s \in Services,
             StartAdd(w, s) \/ StartRemove(w, s) \/ StartUpdate(w, s)
      PROVE  AloneInv'
  <2>1. /\ \A v \in Workers : v # w => task'[v] = task[v]
        /\ task[w].op = "none"
    BY <1>0, <1>2 DEF StartAdd, StartRemove, StartUpdate, CallInv, NoTask
  <2>2. ~overlap /\ UNCHANGED <<saved, config, cluster>>
    <3>1. UNCHANGED <<saved, config, cluster>>
      BY <1>2 DEF StartAdd, StartRemove, StartUpdate
    <3>2. Meets(address[s]) \/ overlap' = overlap
      BY <1>2 DEF StartAdd, StartRemove, StartUpdate, history
    <3>3. ASSUME Meets(address[s]), overlap
          PROVE  FALSE
      <4> DEFINE met == \E v \in Workers : task[v].op = "remove" /\ task[v].ip = address[s]
      <4>1. overlap' = (overlap \/ met)
        BY <3>3 DEF Meets
      <4> HIDE DEF met
      <4> QED BY <3>3, <4>1
    <3> QED BY <3>1, <3>2, <3>3
  <2>3. \A u \in Services : u # s => NodesOf(u)' = NodesOf(u)
    <3>1. ASSUME NEW nodes, Passed(s, nodes)
          PROVE  \A u \in Services : u # s => skipped'[u] = skipped[u]
      BY <1>0, <3>1 DEF Passed, TypeOK
    <3>2. \A u \in Services : u # s => skipped'[u] = skipped[u]
      BY <1>2, <3>1 DEF StartAdd, StartRemove, StartUpdate, history
    <3> QED BY <2>2, <3>2 DEF NodesOf
  <2>4. ASSUME NEW u \in Services, NodesKnown(u), StartAdd(w, s) => u # s
        PROVE  NodesKnown(u)'
    <3>1. CASE StartAdd(w, s)
      <4>1. stale' = stale /\ due' = due \ {s} /\ u # s
        BY <2>4, <3>1 DEF StartAdd
      <4> QED BY <2>1, <2>2, <2>3, <2>4, <4>1 DEF NodesKnown
    <3>2. CASE StartRemove(w, s)
      <4>1. UNCHANGED <<stale, due, skipped>>
        BY <3>2 DEF StartRemove, history
      <4> QED BY <2>1, <2>2, <2>4, <4>1 DEF NodesKnown, NodesOf
    <3>3. CASE StartUpdate(w, s) /\ u # s
      <4>1. stale' = stale \ {s} /\ due' = due
        BY <3>3 DEF StartUpdate
      <4> QED BY <2>1, <2>2, <2>3, <2>4, <3>3, <4>1 DEF NodesKnown
    <3>4. CASE StartUpdate(w, s) /\ u = s
      <4>1. PICK nodes \in SUBSET cluster :
              task'[w] = Call("update", "reget", s, Nil, nodes) /\ Passed(s, nodes)
        BY <1>0, <3>4 DEF StartUpdate
      <4>2. NodesOf(s)' \subseteq nodes
        BY <1>0, <2>2, <4>1 DEF Passed, NodesOf, TypeOK
      <4> QED BY <3>4, <4>1, <4>2 DEF NodesKnown, Call
    <3> QED BY <1>2, <3>1, <3>2, <3>3, <3>4
  <2>5. ASSUME NEW v \in Workers, v # w, task'[v].op = "add"
        PROVE  SetUp(v)'
    <3>1. PICK u \in Services : u = task[v].s
      BY <1>0, <2>1, <2>5 DEF CallOK, CallInv, NoTask
    <3>2. SetUp(v) /\ task'[v] = task[v]
      BY <1>0, <2>1, <2>2, <2>5 DEF AloneInv
    <3>3. StartAdd(w, s) => u # s
      BY <2>1, <2>5, <3>1 DEF StartAdd, Alone
    <3>4. NodesOf(u)' = NodesOf(u) \/ NodesKnown(u)'
      <4>1. CASE u # s
        BY <2>3, <4>1
      <4>2. CASE StartRemove(w, s)
        BY <2>2, <4>2 DEF StartRemove, history, NodesOf
      <4>3. CASE StartUpdate(w, s) /\ u = s
        <5>1. PICK nodes \in SUBSET cluster :
                task'[w] = Call("update", "reget", s, Nil, nodes) /\ Passed(s, nodes)
          BY <1>0, <4>3 DEF StartUpdate
        <5>2. NodesOf(s)' \subseteq nodes
          BY <1>0, <2>2, <5>1 DEF Passed, NodesOf, TypeOK
        <5> QED BY <4>3, <5>1, <5>2 DEF NodesKnown, Call
      <4> QED BY <1>2, <3>3, <4>1, <4>2, <4>3
    <3> QED BY <2>2, <2>4, <3>1, <3>2, <3>3, <3>4 DEF SetUp
  <2>8. CASE StartAdd(w, s)
    <3>1. /\ address' = address /\ due' = due \ {s} /\ Alone(s)
          /\ \E nodes \in SUBSET cluster :
               task'[w] = Call("add", "get", s, address[s], nodes) /\ Passed(s, nodes)
      BY <1>0, <2>8 DEF StartAdd
    <3>2. \A v \in Workers : task[v].op = "remove" => task[v].ip # address[s]
      BY <2>2, <2>8 DEF StartAdd, Meets
    <3>3. SetUp(w)'
      <4>1. PICK nodes \in SUBSET cluster :
              task'[w] = Call("add", "get", s, address[s], nodes) /\ Passed(s, nodes)
        BY <3>1
      <4>2. NodesOf(s)' \subseteq nodes
        BY <1>0, <2>2, <4>1 DEF Passed, NodesOf, TypeOK
      <4> QED BY <4>1, <4>2 DEF SetUp, Call
    <3>4. \A u \in Services : Complete(u)'
      <4>1. ASSUME NEW u \in Services, SettingUp(u) PROVE SettingUp(u)'
        BY <2>1, <3>1, <4>1 DEF SettingUp, Call
      <4>2. SettingUp(s)'
        BY <3>1 DEF SettingUp, Call
      <4> QED BY <1>0, <2>2, <2>4, <3>1, <4>1, <4>2 DEF AloneInv, Complete
    <3> QED BY <1>0, <2>1, <2>2, <2>5, <3>1, <3>2, <3>3, <3>4 DEF AloneInv, Call
  <2>6. CASE StartRemove(w, s)
    <3>1. /\ task'[w] = Call("remove", "get", s, address[s], {})
          /\ address' = [address EXCEPT ![s] = Nil] /\ due' = due /\ Alone(s)
          /\ address[s] # Nil
      BY <1>0, <2>6 DEF StartRemove
    <3>2. ASSUME NEW v \in Workers, NEW u \in Services, task'[v].op = "remove",
                 address'[u] = task'[v].ip
          PROVE  u \in due'
      <4>1. u # s /\ address[u] = task'[v].ip
        BY <1>0, <2>1, <3>1, <3>2 DEF Call, CallOK
      <4>2. v # w
        BY <1>0, <3>1, <4>1 DEF CallInv, Call
      <4> QED BY <1>0, <2>1, <2>2, <3>1, <3>2, <4>1, <4>2 DEF AloneInv
    <3>3. ASSUME NEW v \in Workers, task[v].op = "add"
          PROVE  task[v].ip # address[s]
      BY <1>0, <3>1, <3>3 DEF CallInv, CallOK, Alone, NoTask
    <3>4. \A u \in Services : Complete(u)'
      <4>1. ASSUME NEW u \in Services, SettingUp(u) PROVE SettingUp(u)'
        BY <2>1, <3>1, <4>1 DEF SettingUp
      <4> QED BY <1>0, <2>2, <2>4, <3>1, <4>1 DEF AloneInv, Complete
    <3> QED BY <1>0, <2>1, <2>2, <2>5, <3>1, <3>2, <3>3, <3>4 DEF AloneInv, Call
  <2>7. CASE StartUpdate(w, s)
    <3>1. /\ \E nodes \in SUBSET cluster : task'[w] = Call("update", "reget", s, Nil, nodes)
          /\ UNCHANGED <<address, due>> /\ ~StartAdd(w, s)
      <4>1. task'[w].op = "update"
        BY <1>0, <2>7 DEF StartUpdate, Call
      <4>2. StartAdd(w, s) => task'[w].op = "add"
        BY <1>0 DEF StartAdd, Call
      <4> QED BY <1>0, <2>7, <4>1, <4>2 DEF StartUpdate
    <3>2. \A u \in Services : Complete(u)'
      <4>1. ASSUME NEW u \in Services, SettingUp(u) PROVE SettingUp(u)'
        BY <2>1, <3>1, <4>1 DEF SettingUp
      <4> QED BY <1>0, <2>2, <2>4, <3>1, <4>1 DEF AloneInv, Complete
    <3> QED BY <1>0, <2>1, <2>2, <2>5, <3>1, <3>2 DEF AloneInv, Call
  <2> QED BY <1>2, <2>6, <2>7, <2>8
<1>3. ASSUME Restart, address' = address
      PROVE  AloneInv'
  BY <1>3 DEF Restart, AloneInv, Complete, SettingUp, NoTask
<1>4. ASSUME NEW s \in Services, NEW i \in IPs, Assign(s, i)
      PROVE  AloneInv'
  <2>1. /\ address' = [address EXCEPT ![s] = i] /\ due' = due \union {s}
        /\ UNCHANGED <<saved, config, cluster, skipped, stale, task>> /\ ~overlap
    BY <1>4 DEF Assign, history
  <2>2. \A u \in Services : NodesKnown(u) => NodesKnown(u)'
    BY <2>1 DEF NodesKnown, NodesOf
  <2>3. \A v \in Workers : task'[v].op = "add" => SetUp(v)'
    <3>1. ASSUME NEW v \in Workers, task[v].op = "add"
          PROVE  SetUp(v)'
      <4>1. PICK u \in Services : u = task[v].s
        BY <1>0, <3>1 DEF CallOK, CallInv, NoTask
      <4> QED BY <1>0, <2>1, <2>2, <3>1, <4>1 DEF AloneInv, SetUp, NodesOf
    <3> QED BY <2>1, <3>1
  <2>4. \A u \in Services : Complete(u)'
    BY <1>0, <2>1, <2>2 DEF AloneInv, Complete, SettingUp
  <2> QED BY <1>0, <2>1, <2>3, <2>4 DEF AloneInv
<1>5. ASSUME NEW s \in Services, UpdateRefused(s) \/ Requeue(s)
      PROVE  AloneInv'
  <2>1. /\ due' = due \union {s} /\ ~overlap /\ stale \ {s} \subseteq stale'
        /\ UNCHANGED <<saved, config, cluster, skipped, task, address>>
    BY <1>5 DEF UpdateRefused, Requeue, history
  <2>2. \A u \in Services : NodesKnown(u) => NodesKnown(u)'
    BY <2>1 DEF NodesKnown, NodesOf
  <2>3. ASSUME NEW v \in Workers, task'[v].op = "add"
        PROVE  SetUp(v)'
    <3>1. PICK u \in Services : u = task[v].s
      BY <1>0, <2>1, <2>3 DEF CallOK, CallInv, NoTask
    <3> QED BY <1>0, <2>1, <2>2, <2>3, <3>1 DEF AloneInv, SetUp, NodesOf
  <2>4. \A u \in Services : Complete(u)'
    BY <1>0, <2>1, <2>2 DEF AloneInv, Complete, SettingUp
  <2> QED BY <1>0, <2>1, <2>3, <2>4 DEF AloneInv
<1>6. ASSUME NEW n \in Nodes, NodesChange(n)
      PROVE  AloneInv'
  <2>1. /\ stale' = {s \in Services : address[s] # Nil} /\ ~overlap
        /\ UNCHANGED <<saved, config, address, due, task>>
    BY <1>6 DEF NodesChange, history
  <2>2. ASSUME NEW v \in Workers, task'[v].op = "add"
        PROVE  SetUp(v)'
    <3>1. task[v].s \in stale'
      BY <1>0, <2>1, <2>2 DEF CallInv, CallOK, NoTask
    <3> QED BY <1>0, <2>1, <2>2, <3>1 DEF AloneInv, SetUp, NodesKnown
  <2>3. \A u \in Services : Complete(u)'
    BY <1>0, <2>1 DEF AloneInv, Complete, SettingUp, NodesKnown
  <2> QED BY <1>0, <2>1, <2>2, <2>3 DEF AloneInv
<1>7. CASE UNCHANGED vars
  BY <1>0, <1>7 DEF vars, history, AloneInv, SetUp, Complete, SettingUp, NodesKnown,
     NodesOf
<1> QED BY <1>0, <1>1, <1>2, <1>3, <1>4, <1>5, <1>6, <1>7 DEF Next, Steps, Moves, Panic, Crash

-----------------------------------------------------------------------------
(* Theorems.                                                                *)

\* The initial states satisfy the invariant.
LEMMA InitInv == Init => IInv
<1> SUFFICES ASSUME Init PROVE IInv
  OBVIOUS
<1>1. TypeOK
  <2>1. task \in [Workers -> Task] /\ \A w \in Workers : task[w] = NoTask
    BY RestingTypes DEF Init
  <2>2. saved \in Config /\ faults \in 0 .. MaxFaults
    BY RestingTypes, FaultsAssumption DEF Init
  <2> QED BY <2>1, <2>2 DEF Init, TypeOK, NoTask
<1>2. OwnerInv /\ CallInv
  BY NilAssumption DEF Init, OwnerInv, CallInv, NoTask
<1>3. AloneInv
  BY NilAssumption DEF Init, AloneInv, Complete, NoTask
<1> QED BY <1>1, <1>2, <1>3 DEF IInv

\* In every reachable state the owner of m.config has it as it read or changed it,
\* calls, addresses and queue correspond, and while no calls have met what
\* set-ups have done is saved.
THEOREM Invariance == Spec => []IInv
<1>1. IInv /\ [Next]_vars => IInv'
  <2> SUFFICES ASSUME IInv, [Next]_vars PROVE IInv'
    OBVIOUS
  <2>1. TypeOK'
    BY TypeStep DEF IInv
  <2>2. OwnerInv' /\ CallInv'
    BY OwnerStep, CallStep DEF IInv
  <2>3. AloneInv'
    BY <2>1, AloneStep
  <2> QED BY <2>1, <2>2, <2>3 DEF IInv
<1> QED BY <1>1, InitInv, PTL DEF Spec

\* Every variable keeps its type, and every call under way has what it needs.
THEOREM TypeCorrectness == Spec => []TypeOK
<1>1. IInv => TypeOK
  BY DEF IInv
<1> QED BY <1>1, Invariance, PTL

\* A write of a call that had m.config to itself since its read changes the ConfigMap
\* by what the call is about, and by nothing else.
THEOREM WriteIsItsChange == Spec => WritesItsChange
<1> DEFINE A == \A w \in Workers : Writes(w) /\ owner = w =>
                  saved' = IF task[w].pc = "writePool" THEN PoolsChanged(task[w], saved)
                           ELSE PeersChanged(task[w], saved)
<1>1. IInv /\ [Next]_vars => [A]_vars
  <2> SUFFICES ASSUME IInv, Next, NEW w \in Workers, Writes(w), owner = w
               PROVE  saved' = IF task[w].pc = "writePool" THEN PoolsChanged(task[w], saved)
                               ELSE PeersChanged(task[w], saved)
    OBVIOUS
  <2>0. /\ TypeOK /\ OwnerInv /\ task[w].pc \in {"writePool", "writePeers"}
        /\ task[w].op # "none"
    BY DEF IInv, Writes, TypeOK
  <2>1. /\ task[w].pc = "writePool" => config = PoolsChanged(task[w], saved)
        /\ task[w].pc = "writePeers" => config = PeersChanged(task[w], saved)
    BY <2>0 DEF OwnerInv
  <2>2. config # Nil
    <3>1. task[w] \in Task /\ task[w].s \in Services /\ saved \in Config
      BY <2>0 DEF TypeOK
    <3> QED BY <2>0, <2>1, <3>1, ChangedTypes, NilAssumption
  <2>3. ASSUME NEW v \in Workers, v # w, Moves(v)
        PROVE  FALSE
    BY <2>0, <2>3, CallMoves DEF Writes
  <2>4. WritePools(w) \/ WritePeers(w)
    <3>1. CASE Moves(w)
      <4>1. ASSUME NEW k, Disturb(k) PROVE FALSE
        BY <2>0, <4>1 DEF Disturb, Writes, TypeOK
      <4> QED BY <2>0, <3>1, <4>1 DEF Moves, GetConfigMap, Get, ReadPools,
            StorePools, ReadPeers, StorePeers, GetFails, WriteFails
    <3>2. ASSUME NEW v \in Workers, NEW s \in Services,
                 StartAdd(v, s) \/ StartRemove(v, s) \/ StartUpdate(v, s)
          PROVE  FALSE
      <4>1. task[v].pc = "idle" /\ task \in [Workers -> Task]
        BY <2>0, <3>2 DEF StartAdd, StartRemove, StartUpdate, TypeOK
      <4>2. task'[w] = task[w]
        BY <2>0, <3>2, <4>1 DEF StartAdd, StartRemove, StartUpdate
      <4> QED BY <4>2 DEF Writes
    <3>3. CASE Crash \/ \E v \in Workers : Panic(v)
      BY <2>0, <2>2, <3>3 DEF Crash, Panic, Disturb, Writes, TypeOK
    <3>4. CASE \/ \E s \in Services : UpdateRefused(s) \/ Requeue(s) \/ \E i \in IPs : Assign(s, i)
               \/ \E n \in Nodes : NodesChange(n)
      BY <3>4 DEF UpdateRefused, Requeue, Assign, NodesChange, Writes
    <3> QED BY <2>3, <3>1, <3>2, <3>3, <3>4 DEF Next, Steps, Moves
  <2> QED BY <2>0, <2>1, <2>2, <2>4 DEF WritePools, WritePeers, Bytes
<1> QED BY <1>1, Invariance, PTL DEF Spec, WritesItsChange

\* While no two calls have met, what completed set-ups promise is in the ConfigMap,
\* whatever calls have failed and however often the program restarted.
THEOREM AloneSaved == Spec => []AloneCompletedIsSaved
<1>1. IInv => AloneCompletedIsSaved
  <2> SUFFICES ASSUME IInv, ~overlap, NEW s \in Services, address[s] # Nil, ~SettingUp(s)
               PROVE  Mapped(s)
    BY DEF AloneCompletedIsSaved, CompletedIsSaved
  <2>1. s \in saved.pools[address[s]] /\ NodesKnown(s)
    BY DEF IInv, AloneInv, Complete
  <2> QED BY <2>1 DEF Mapped, NodesKnown, Updating, SettingUp
<1> QED BY <1>1, Invariance, PTL

=============================================================================
