---------------------------- MODULE NodeBGPProofs ----------------------------
(* Theorems about NodeBGP, for any number of nodes, failures and changes.    *)
(* WholeAnnotations is not inductive: that the map a worker is about to      *)
(* patch in has the annotations of the peers depends on the copy it holds,   *)
(* which the other worker writes into and the informer puts others beside,   *)
(* and on the neighbours, which nodes that are not slow have from the start. *)
(* Nor is RestsServed: before the rest, a node is not served yet but on      *)
(* track, and each failure takes one node off it at most.                    *)
EXTENDS NodeBGP, FiniteSetTheorems, TLAPS

Steps == {"idle", "enable", "network", "bgp", "patch", "peer"}
Task == [pc : Steps, left : SUBSET Nodes, at : [Nodes -> Places \union {0}], got : SUBSET Nodes, own : Object]
Device == [id : DeviceIds, session : BOOLEAN, neighbours : {"none", "empty", "full"}]

\* A worker has a copy of each node that is left, and works on one that is.
HandOK(t) ==
    /\ \A n \in t.left : t.at[n] # 0
    /\ t.pc \notin {"idle", "enable"} => t.left # {}

\* What is to be patched in has the annotations of the peers.
PatchOK(t, memory) ==
    t.pc = "patch" /\ Current(t) \notin Slow =>
        IF t.own # NoNode THEN t.own.bgp ELSE memory[Current(t)][t.at[Current(t)]].bgp

SessionInv ==
    \A n \in Nodes :
        /\ ~device[n].session => device[n].neighbours = "none"
        /\ n \notin Slow /\ device[n].session => device[n].neighbours = "full"

TaskInv == \A w \in Workers : HandOK(tasks[w]) /\ PatchOK(tasks[w], copies)

IInv == TypeOK /\ SessionInv /\ TaskInv /\ WholeAnnotations

-----------------------------------------------------------------------------
(* What the operators of the module return.                                  *)

\* TypeOK in the words of this module.
LEMMA TypeIs ==
    TypeOK <=> /\ device \in [Nodes -> Device] /\ node \in [Nodes -> Object]
               /\ copies \in [Nodes -> [Places -> Object]] /\ cached \in [Nodes -> Places \union {0}]
               /\ peers \subseteq Nodes /\ todo \subseteq Workers /\ tasks \in [Workers -> Task]
               /\ faults \in 0 .. MaxFaults /\ changes \in 0 .. MaxChanges
BY DEF TypeOK, Device, Task, Steps

LEMMA ObjectTypes ==
    /\ NoNode \in Object
    /\ \A others \in BOOLEAN : Node(0, others) \in Object /\ Node(1, others) \in Object
BY BoundsAssumption DEF NoNode, Node, Object, DeviceIds

LEMMA IdleType == Idle \in Task /\ HandOK(Idle) /\ \A c : PatchOK(Idle, c)
BY ObjectTypes DEF Idle, Task, Steps, HandOK, PatchOK, Places

\* An annotation that is there stays there.
LEMMA MarkedType ==
    ASSUME NEW map \in Object, NEW network \in BOOLEAN, NEW bgp \in BOOLEAN
    PROVE  /\ Marked(map, network, bgp) \in Object
           /\ Marked(map, network, bgp).bgp <=> (map.bgp \/ bgp)
           /\ Marked(map, network, bgp).network <=> (map.network \/ network)
           /\ Marked(map, network, bgp).provider = map.provider
           /\ map # NoNode => Marked(map, network, bgp) # NoNode
BY DEF Marked, Object, NoNode, Node

LEMMA CurrentIsLeft == ASSUME NEW t \in Task, t.left # {} PROVE Current(t) \in t.left /\ Current(t) \in Nodes
BY DEF Task, Current

\* A failed answer is counted, and only what is not there is not found.
LEMMA Answered ==
    ASSUME faults \in 0 .. MaxFaults, NEW found \in BOOLEAN, NEW answer \in Answers(found), Counted(answer)
    PROVE  /\ faults' \in 0 .. MaxFaults
           /\ answer = "found" => found
           /\ answer = "404" => ~found
           /\ answer \in {"found", "404", "500", "none"}
<1>1. answer \in {"500", "none"} => faults < MaxFaults
  BY DEF Answers
<1>2. answer \in {"500", "none"} \/ answer = (IF found THEN "found" ELSE "404")
  BY DEF Answers
<1>3. faults' = faults + (IF answer \in {"500", "none"} THEN 1 ELSE 0)
  BY DEF Counted
<1> QED BY <1>1, <1>2, <1>3, BoundsAssumption

\* The next node of the list: this one is left out, or taken.
LEMMA SkipType ==
    ASSUME NEW t \in Task, t.left # {}, HandOK(t)
    PROVE  /\ Skip(t) \in Task /\ HandOK(Skip(t)) /\ \A c : PatchOK(Skip(t), c)
           /\ Take(t) \in Task /\ HandOK(Take(t)) /\ \A c : PatchOK(Take(t), c)
<1> DEFINE cur == Current(t)
<1>1. cur \in t.left /\ cur \in Nodes
  BY CurrentIsLeft
<1>2. /\ Skip(t) \in Task /\ Skip(t).pc = "enable" /\ Skip(t).left = t.left \ {cur}
      /\ \A n \in Nodes \ {cur} : Skip(t).at[n] = t.at[n]
  BY <1>1, ObjectTypes DEF Task, Steps, Skip, Places
<1>3. /\ Take(t) \in Task /\ Take(t).pc = "enable" /\ Take(t).left = t.left \ {cur}
      /\ \A n \in Nodes \ {cur} : Take(t).at[n] = t.at[n]
  BY <1>1, <1>2 DEF Task, Steps, Take, Places
<1> QED BY <1>2, <1>3 DEF HandOK, PatchOK, Task

\* A node that is to be annotated, or is annotated already.
LEMMA AnnotateType ==
    ASSUME NEW t \in Task, t.left # {}, HandOK(t)
    PROVE  Annotate(t) \in Task /\ HandOK(Annotate(t)) /\ \A c : PatchOK(Annotate(t), c)
BY ObjectTypes DEF Annotate, Task, Steps, HandOK, PatchOK

-----------------------------------------------------------------------------
(* What a step of one worker does to the tasks.                              *)

\* A map in memory never loses an annotation while it is in use.
Grows == \A n \in Nodes : \A p \in Places : copies[n][p].bgp => copies'[n][p].bgp

LEMMA PatchKept ==
    ASSUME TypeOK, Grows, NEW t \in Task, HandOK(t), PatchOK(t, copies)
    PROVE  PatchOK(t, copies')
<1> SUFFICES ASSUME t.pc = "patch", Current(t) \notin Slow, t.own = NoNode
             PROVE  copies'[Current(t)][t.at[Current(t)]].bgp
  BY DEF PatchOK
<1>1. t.left # {}
  BY DEF HandOK
<1>2. Current(t) \in Nodes /\ t.at[Current(t)] \in Places
  BY <1>1, CurrentIsLeft DEF HandOK, Task
<1> QED BY <1>2 DEF PatchOK, Grows

LEMMA TaskMoves ==
    ASSUME TypeOK, TaskInv, Grows, NEW w \in Workers, NEW t \in Task,
           Become(w, t), HandOK(t), PatchOK(t, copies')
    PROVE  tasks' \in [Workers -> Task] /\ TaskInv'
<1>1. tasks \in [Workers -> Task]
  BY TypeIs
<1>2. tasks' \in [Workers -> Task] /\ tasks'[w] = t /\ \A v \in Workers \ {w} : tasks'[v] = tasks[v]
  BY <1>1 DEF Become
<1>3. \A v \in Workers \ {w} : HandOK(tasks[v]) /\ PatchOK(tasks[v], copies')
  BY <1>1, PatchKept DEF TaskInv
<1> QED BY <1>2, <1>3 DEF TaskInv

\* Memory that is not written into keeps everything.
LEMMA Unwritten == UNCHANGED copies => Grows
BY DEF Grows

LEMMA RequeueMoves ==
    ASSUME TypeOK, TaskInv, Grows, NEW w \in Workers, Requeue(w)
    PROVE  tasks' \in [Workers -> Task] /\ TaskInv' /\ todo' \subseteq Workers
<1>1. todo \subseteq Workers /\ "service" \in Workers
  BY TypeIs DEF Workers
<1>2. Become(w, Idle) /\ todo' = todo \union {"service"}
  BY DEF Requeue
<1>3. tasks' \in [Workers -> Task] /\ TaskInv'
  BY <1>2, TaskMoves, IdleType
<1> QED BY <1>1, <1>2, <1>3

LEMMA NodeFailsMoves ==
    ASSUME TypeOK, TaskInv, UNCHANGED copies, NEW w \in Workers, tasks[w].left # {}, NodeFails(w)
    PROVE  tasks' \in [Workers -> Task] /\ TaskInv' /\ todo' \subseteq Workers
<1>1. tasks[w] \in Task /\ HandOK(tasks[w]) /\ Grows /\ todo \subseteq Workers
  BY TypeIs, Unwritten DEF TaskInv
<1>2. CASE w = "service"
  BY <1>1, <1>2, SkipType, TaskMoves DEF NodeFails
<1>3. CASE w # "service"
  BY <1>1, <1>3, RequeueMoves DEF NodeFails
<1> QED BY <1>2, <1>3

\* A restart forgets the tasks.
LEMMA RestartMoves ==
    ASSUME node' \in [Nodes -> Object], Restart
    PROVE  /\ tasks' \in [Workers -> Task] /\ TaskInv' /\ todo' \subseteq Workers
           /\ copies' \in [Nodes -> [Places -> Object]] /\ cached' \in [Nodes -> Places \union {0}]
BY ObjectTypes, IdleType DEF Restart, TaskInv, Places

\* The writing of the peers' annotations prepares the patch, that of the network does not.
LEMMA WriteMoves ==
    ASSUME TypeOK, TaskInv, NEW w \in Workers, tasks[w].left # {}, NEW network \in BOOLEAN, NEW bgp \in BOOLEAN,
           NEW pc \in Steps, pc # "idle", pc = "patch" => bgp, Write(w, network, bgp, pc)
    PROVE  /\ tasks' \in [Workers -> Task] /\ TaskInv'
           /\ copies' \in [Nodes -> [Places -> Object]]
<1> DEFINE t == tasks[w]
           cur == Current(t)
           place == t.at[cur]
<1>1. t \in Task /\ HandOK(t) /\ cur \in Nodes /\ copies \in [Nodes -> [Places -> Object]]
  BY TypeIs, CurrentIsLeft DEF TaskInv
<1>2. place \in Places
  BY <1>1, CurrentIsLeft DEF HandOK, Task
<1>3. CASE t.own # NoNode
  <2> DEFINE u == [t EXCEPT !.pc = pc, !.own = Marked(@, network, bgp)]
  <2>1. t.own \in Object
    BY <1>1 DEF Task
  <2>2. /\ Marked(t.own, network, bgp) \in Object /\ Marked(t.own, network, bgp) # NoNode
        /\ Marked(t.own, network, bgp).bgp <=> (t.own.bgp \/ bgp)
    BY <1>3, <2>1, MarkedType
  <2>3. u \in Task /\ u.pc = pc /\ u.left = t.left /\ u.at = t.at /\ u.own = Marked(t.own, network, bgp)
    BY <1>1, <2>2 DEF Task
  <2>4. HandOK(u) /\ PatchOK(u, copies')
    <3> HIDE DEF u
    <3> QED BY <1>1, <2>2, <2>3 DEF HandOK, PatchOK
  <2>5. Become(w, u) /\ UNCHANGED copies
    BY <1>3 DEF Write
  <2> HIDE DEF u
  <2> QED BY <1>1, <2>3, <2>4, <2>5, TaskMoves, Unwritten
<1>4. CASE t.own = NoNode
  <2> DEFINE u == [t EXCEPT !.pc = pc]
             new == Marked(copies[cur][place], network, bgp)
  <2>1. Become(w, u) /\ copies' = [copies EXCEPT ![cur][place] = new]
    BY <1>4 DEF Write
  <2>2. copies[cur][place] \in Object
    BY <1>1, <1>2
  <2>3. new \in Object /\ (new.bgp <=> copies[cur][place].bgp \/ bgp)
    <3> HIDE DEF cur, place
    <3> QED BY <2>2, MarkedType
  <2>4. /\ copies' \in [Nodes -> [Places -> Object]]
        /\ copies'[cur][place] = new
        /\ \A n \in Nodes : \A p \in Places : (n = cur /\ p = place) \/ copies'[n][p] = copies[n][p]
    <3>1. new \in Object
      BY <2>3
    <3> HIDE DEF new, cur, place
    <3> QED BY <1>1, <1>2, <2>1, <3>1
  <2>5. Grows
    BY <2>3, <2>4 DEF Grows
  <2>6. u \in Task /\ u.pc = pc /\ u.left = t.left /\ u.at = t.at /\ u.own = t.own
    BY <1>1 DEF Task
  <2>7. Current(u) = cur
    BY <2>6 DEF Current
  <2>8. HandOK(u) /\ PatchOK(u, copies')
    <3> HIDE DEF u, new
    <3>1. HandOK(u)
      BY <1>1, <2>6 DEF HandOK
    <3>2. PatchOK(u, copies')
      BY <1>4, <2>3, <2>4, <2>6, <2>7 DEF PatchOK
    <3> QED BY <3>1, <3>2
  <2> HIDE DEF u
  <2> QED BY <2>1, <2>4, <2>5, <2>6, <2>8, TaskMoves
<1> QED BY <1>3, <1>4

-----------------------------------------------------------------------------
(* The steps of the workers.                                                 *)

LEMMA BeginStep == ASSUME IInv, NEW w \in Workers, Begin(w) PROVE IInv'
<1> DEFINE t == [Idle EXCEPT !.pc = "enable", !.left = {n \in Nodes : cached[n] # 0}, !.at = cached]
<1>1. TypeOK /\ TaskInv /\ cached \in [Nodes -> Places \union {0}] /\ todo' \subseteq Workers
  BY TypeIs DEF IInv, Begin
<1>2. t \in Task /\ t.pc = "enable" /\ HandOK(t) /\ PatchOK(t, copies')
  BY <1>1, ObjectTypes DEF Idle, Task, Steps, HandOK, PatchOK
<1>3. Become(w, t) /\ UNCHANGED <<device, node, copies, cached, peers, faults, changes>>
  BY DEF Begin
<1>4. tasks' \in [Workers -> Task] /\ TaskInv'
  <2> HIDE DEF t
  <2> QED BY <1>1, <1>2, <1>3, TaskMoves, Unwritten
<1>5. TypeOK'
  BY <1>1, <1>3, <1>4, TypeIs DEF TypeOK, Task, Steps
<1> QED BY <1>3, <1>4, <1>5 DEF IInv, SessionInv, WholeAnnotations

LEMMA NoProviderIDStep == ASSUME IInv, NEW w \in Workers, NoProviderID(w) PROVE IInv'
<1>1. TypeOK /\ TaskInv /\ tasks[w].left # {} /\ NodeFails(w)
      /\ UNCHANGED <<device, node, copies, cached, peers, faults, changes>>
  BY DEF IInv, NoProviderID
<1>2. tasks' \in [Workers -> Task] /\ TaskInv' /\ todo' \subseteq Workers
  BY <1>1, NodeFailsMoves
<1>3. TypeOK'
  BY <1>1, <1>2 DEF TypeOK, Task, Steps
<1> QED BY <1>1, <1>2, <1>3 DEF IInv, SessionInv, WholeAnnotations

\* Neighbours of a session that was there are not touched.
LEMMA SessionType ==
    ASSUME TypeOK, SessionInv, NEW n \in Nodes, device' \in {device, WithSession(n)}
    PROVE  device' \in [Nodes -> Device] /\ SessionInv'
<1>1. CASE device' = device
  BY <1>1, TypeIs DEF SessionInv
<1>2. CASE device' = WithSession(n)
  <2>1. device \in [Nodes -> Device]
    BY TypeIs
  <2>2. /\ device' \in [Nodes -> Device]
        /\ device'[n].session = TRUE
        /\ device'[n].neighbours = IF n \in Slow \/ device[n].session THEN device[n].neighbours ELSE "full"
        /\ \A m \in Nodes \ {n} : device'[m] = device[m]
    BY <1>2, <2>1 DEF WithSession, Device
  <2> QED BY <2>2 DEF SessionInv
<1> QED BY <1>1, <1>2

LEMMA EnableBGPStep == ASSUME IInv, NEW w \in Workers, EnableBGP(w) PROVE IInv'
<1> DEFINE t == tasks[w]
           n == Current(t)
           there == device[n].id = Held(t).provider
<1>1. /\ TypeOK /\ TaskInv /\ SessionInv /\ t \in Task /\ t.left # {} /\ HandOK(t) /\ n \in Nodes
      /\ UNCHANGED <<peers, changes>> /\ faults \in 0 .. MaxFaults /\ todo \subseteq Workers
  BY TypeIs, CurrentIsLeft DEF IInv, EnableBGP, TaskInv
<1>2. PICK answer \in Answers(there), obeyed \in BOOLEAN :
        /\ Counted(answer)
        /\ device' = IF obeyed THEN WithSession(n) ELSE device
        /\ CASE answer = "none" -> UNCHANGED node /\ Restart
             [] answer = "found" -> Become(w, Annotate(t)) /\ UNCHANGED <<node, copies, cached, todo>>
             [] OTHER -> Become(w, Skip(t)) /\ UNCHANGED <<node, copies, cached, todo>>
  BY DEF EnableBGP
<1>3. device' \in [Nodes -> Device] /\ SessionInv'
  BY <1>1, <1>2, SessionType
<1>4. faults' \in 0 .. MaxFaults
  <2>1. there \in BOOLEAN
    OBVIOUS
  <2> HIDE DEF there
  <2> QED BY <1>1, <1>2, <2>1, Answered
<1>5. UNCHANGED node /\ WholeAnnotations'
  BY <1>2 DEF IInv, WholeAnnotations
<1>6. /\ tasks' \in [Workers -> Task] /\ TaskInv' /\ todo' \subseteq Workers
      /\ copies' \in [Nodes -> [Places -> Object]] /\ cached' \in [Nodes -> Places \union {0}]
  <2>1. CASE answer = "none"
    <3>1. Restart
      BY <1>2, <2>1
    <3>2. node' \in [Nodes -> Object]
      BY <1>1, <1>5, TypeIs
    <3> QED BY <3>1, <3>2, RestartMoves
  <2>2. CASE answer = "found"
    <3>1. Become(w, Annotate(t)) /\ UNCHANGED <<copies, cached, todo>>
      BY <1>2, <2>2
    <3>2. Annotate(t) \in Task /\ HandOK(Annotate(t)) /\ PatchOK(Annotate(t), copies')
      BY <1>1, AnnotateType
    <3> QED BY <1>1, <3>1, <3>2, TaskMoves, Unwritten, TypeIs
  <2>3. CASE answer \notin {"none", "found"}
    <3>1. Become(w, Skip(t)) /\ UNCHANGED <<copies, cached, todo>>
      BY <1>2, <2>3
    <3>2. Skip(t) \in Task /\ HandOK(Skip(t)) /\ PatchOK(Skip(t), copies')
      BY <1>1, SkipType
    <3> QED BY <1>1, <3>1, <3>2, TaskMoves, Unwritten, TypeIs
  <2> QED BY <2>1, <2>2, <2>3
<1>7. TypeOK'
  BY <1>1, <1>3, <1>4, <1>5, <1>6 DEF TypeOK, Task, Steps, Device
<1> QED BY <1>3, <1>5, <1>6, <1>7 DEF IInv

LEMMA GetNetworkStep == ASSUME IInv, NEW w \in Workers, GetNetwork(w) PROVE IInv'
<1> DEFINE t == tasks[w]
           there == device[Current(t)].id = Held(t).provider
<1>1. /\ TypeOK /\ TaskInv /\ t.pc = "network" /\ t.left # {}
      /\ UNCHANGED <<device, node, cached, peers, changes>> /\ faults \in 0 .. MaxFaults /\ todo \subseteq Workers
  BY TypeIs DEF IInv, GetNetwork, TaskInv, At, HandOK
<1>2. PICK answer \in Answers(there) :
        /\ Counted(answer)
        /\ IF answer = "found" THEN Write(w, TRUE, FALSE, "bgp") /\ UNCHANGED todo
           ELSE NodeFails(w) /\ UNCHANGED copies
  BY DEF GetNetwork
<1>3. faults' \in 0 .. MaxFaults
  <2>1. there \in BOOLEAN
    OBVIOUS
  <2> HIDE DEF there
  <2> QED BY <1>1, <1>2, <2>1, Answered
<1>4. /\ tasks' \in [Workers -> Task] /\ TaskInv' /\ todo' \subseteq Workers
      /\ copies' \in [Nodes -> [Places -> Object]]
  <2>1. CASE answer = "found"
    BY <1>1, <1>2, <2>1, WriteMoves DEF Steps
  <2>2. CASE answer # "found"
    BY <1>1, <1>2, <2>2, NodeFailsMoves, TypeIs
  <2> QED BY <2>1, <2>2
<1>5. TypeOK'
  BY <1>1, <1>3, <1>4 DEF TypeOK, Task, Steps
<1> QED BY <1>1, <1>4, <1>5 DEF IInv, SessionInv, WholeAnnotations

\* Without the annotations of the peers nothing is patched in, but on a slow node.
LEMMA GetPeerStep == ASSUME IInv, NEW w \in Workers, GetPeer(w) PROVE IInv'
<1> DEFINE t == tasks[w]
           n == Current(t)
<1>1. /\ TypeOK /\ TaskInv /\ t \in Task /\ HandOK(t) /\ t.pc = "bgp" /\ t.left # {} /\ n \in Nodes
      /\ UNCHANGED <<device, node, cached, peers, changes>> /\ faults \in 0 .. MaxFaults /\ todo \subseteq Workers
  BY TypeIs, CurrentIsLeft DEF IInv, GetPeer, TaskInv, At, HandOK
<1>2. PICK answer \in Answers(Known(w)) :
        /\ Counted(answer)
        /\ IF answer # "found" THEN NodeFails(w) /\ UNCHANGED copies
           ELSE IF Neighbours(w) = "empty"
           THEN Become(w, [t EXCEPT !.pc = "patch"]) /\ UNCHANGED <<copies, todo>>
           ELSE Write(w, FALSE, TRUE, "patch") /\ UNCHANGED todo
  BY DEF GetPeer
<1>3. faults' \in 0 .. MaxFaults
  BY <1>1, <1>2, Answered DEF Known
<1>4. /\ tasks' \in [Workers -> Task] /\ TaskInv' /\ todo' \subseteq Workers
      /\ copies' \in [Nodes -> [Places -> Object]]
  <2>1. CASE answer # "found"
    BY <1>1, <1>2, <2>1, NodeFailsMoves, TypeIs
  <2>2. CASE answer = "found" /\ Neighbours(w) = "empty"
    <3> DEFINE u == [t EXCEPT !.pc = "patch"]
    <3>1. u \in Task /\ u.pc = "patch" /\ u.left = t.left /\ u.at = t.at /\ Current(u) = n
      BY <1>1 DEF Task, Steps, Current
    <3>2. n \in Slow
      BY <1>1, <2>2 DEF IInv, SessionInv, Neighbours, TypeOK
    <3>3. HandOK(u) /\ PatchOK(u, copies')
      <4> HIDE DEF u
      <4> QED BY <1>1, <3>1, <3>2 DEF HandOK, PatchOK
    <3>4. Become(w, u) /\ UNCHANGED <<copies, todo>>
      BY <1>2, <2>2
    <3> HIDE DEF u
    <3> QED BY <1>1, <3>1, <3>3, <3>4, TaskMoves, Unwritten, TypeIs
  <2>3. CASE answer = "found" /\ Neighbours(w) # "empty"
    BY <1>1, <1>2, <2>3, WriteMoves DEF Steps
  <2> QED BY <2>1, <2>2, <2>3
<1>5. TypeOK'
  BY <1>1, <1>3, <1>4 DEF TypeOK, Task, Steps
<1> QED BY <1>1, <1>4, <1>5 DEF IInv, SessionInv, WholeAnnotations

LEMMA PatchNodeStep == ASSUME IInv, NEW w \in Workers, PatchNode(w) PROVE IInv'
<1> DEFINE t == tasks[w]
           n == Current(t)
           map == IF t.own # NoNode THEN t.own ELSE Held(t)
<1>1. /\ TypeOK /\ TaskInv /\ t \in Task /\ HandOK(t) /\ PatchOK(t, copies) /\ t.pc = "patch"
      /\ t.left # {} /\ n \in Nodes /\ n \in t.left
      /\ UNCHANGED <<device, copies, cached, peers, changes>> /\ faults \in 0 .. MaxFaults /\ todo \subseteq Workers
  BY TypeIs, CurrentIsLeft DEF IInv, PatchNode, TaskInv, At, HandOK
<1>2. PICK answer \in Answers(Exists(n)), obeyed \in BOOLEAN :
        /\ Counted(answer)
        /\ node' = IF obeyed THEN [node EXCEPT ![n] = Marked(@, map.network, map.bgp)] ELSE node
        /\ IF answer = "found" THEN Become(w, [t EXCEPT !.pc = "peer"]) /\ UNCHANGED todo ELSE NodeFails(w)
  BY DEF PatchNode
<1>3. faults' \in 0 .. MaxFaults
  BY <1>1, <1>2, Answered DEF Exists
<1>4. map \in Object /\ (n \notin Slow => map.bgp)
  <2>1. Held(t) \in Object
    BY <1>1, TypeIs DEF Held, HandOK, Task
  <2>2. t.own \in Object
    BY <1>1 DEF Task
  <2> QED BY <1>1, <2>1, <2>2 DEF PatchOK, Held
<1>5. node' \in [Nodes -> Object] /\ WholeAnnotations'
  <2>1. CASE ~obeyed
    BY <1>1, <1>2, <2>1, TypeIs DEF IInv, WholeAnnotations
  <2>2. CASE obeyed
    <3>1. node \in [Nodes -> Object] /\ map.network \in BOOLEAN /\ map.bgp \in BOOLEAN
      BY <1>1, <1>4, TypeIs DEF Object
    <3> DEFINE new == Marked(node[n], map.network, map.bgp)
    <3>2. new \in Object /\ (new.bgp <=> node[n].bgp \/ map.bgp)
      <4> DEFINE network == map.network
                 bgp == map.bgp
      <4>1. network \in BOOLEAN /\ bgp \in BOOLEAN /\ node[n] \in Object
        BY <1>1, <3>1
      <4> HIDE DEF network, bgp
      <4>2. /\ Marked(node[n], network, bgp) \in Object
            /\ Marked(node[n], network, bgp).bgp <=> (node[n].bgp \/ bgp)
        BY <4>1, MarkedType
      <4> QED BY <4>2 DEF network, bgp
    <3>3. node' = [node EXCEPT ![n] = new]
      BY <1>2, <2>2
    <3> HIDE DEF new, map, n
    <3>4. new \in Object /\ (n \notin Slow => new.bgp)
      BY <1>4, <3>2
    <3>5. node'[n] = new /\ \A m \in Nodes \ {n} : node'[m] = node[m]
      BY <1>1, <3>1, <3>3
    <3>6. WholeAnnotations'
      BY <1>1, <3>4, <3>5 DEF IInv, WholeAnnotations
    <3> QED BY <1>1, <3>1, <3>3, <3>4, <3>6
  <2> QED BY <2>1, <2>2
<1>6. tasks' \in [Workers -> Task] /\ TaskInv' /\ todo' \subseteq Workers
  <2>1. CASE answer = "found"
    <3> DEFINE u == [t EXCEPT !.pc = "peer"]
    <3>1. u \in Task /\ u.pc = "peer" /\ u.left = t.left /\ u.at = t.at
      BY <1>1 DEF Task, Steps
    <3>2. HandOK(u) /\ PatchOK(u, copies')
      <4> HIDE DEF u
      <4> QED BY <1>1, <3>1 DEF HandOK, PatchOK
    <3>3. Become(w, u) /\ UNCHANGED todo
      BY <1>2, <2>1
    <3> HIDE DEF u
    <3> QED BY <1>1, <3>1, <3>2, <3>3, TaskMoves, Unwritten
  <2>2. CASE answer # "found"
    BY <1>1, <1>2, <2>2, NodeFailsMoves
  <2> QED BY <2>1, <2>2
<1>7. TypeOK'
  BY <1>1, <1>3, <1>5, <1>6 DEF TypeOK, Task, Steps
<1> QED BY <1>1, <1>5, <1>6, <1>7 DEF IInv, SessionInv

LEMMA AddPeerStep == ASSUME IInv, NEW w \in Workers, AddPeer(w) PROVE IInv'
<1> DEFINE t == tasks[w]
<1>1. /\ TypeOK /\ TaskInv /\ t \in Task /\ HandOK(t) /\ t.left # {}
      /\ UNCHANGED <<device, node, copies, cached, peers, changes>> /\ faults \in 0 .. MaxFaults /\ todo \subseteq Workers
  BY TypeIs DEF IInv, AddPeer, TaskInv, At, HandOK
<1>2. PICK answer \in Answers(Known(w)) :
        /\ Counted(answer)
        /\ IF answer = "found" THEN Become(w, Take(t)) /\ UNCHANGED todo ELSE NodeFails(w)
  BY DEF AddPeer
<1>3. faults' \in 0 .. MaxFaults
  BY <1>1, <1>2, Answered DEF Known
<1>4. tasks' \in [Workers -> Task] /\ TaskInv' /\ todo' \subseteq Workers
  <2>1. CASE answer = "found"
    <3>1. Become(w, Take(t)) /\ UNCHANGED todo
      BY <1>2, <2>1
    <3>2. Take(t) \in Task /\ HandOK(Take(t)) /\ PatchOK(Take(t), copies')
      BY <1>1, SkipType
    <3> QED BY <1>1, <3>1, <3>2, TaskMoves, Unwritten
  <2>2. CASE answer # "found"
    BY <1>1, <1>2, <2>2, NodeFailsMoves
  <2> QED BY <2>1, <2>2
<1>5. TypeOK'
  BY <1>1, <1>3, <1>4 DEF TypeOK, Task, Steps
<1> QED BY <1>1, <1>4, <1>5 DEF IInv, SessionInv, WholeAnnotations

LEMMA FinishStep == ASSUME IInv, NEW w \in Workers, Finish(w) PROVE IInv'
<1>1. /\ TypeOK /\ TaskInv /\ tasks[w].got \subseteq Nodes /\ peers \subseteq Nodes
      /\ UNCHANGED <<device, node, copies, cached, changes>> /\ faults \in 0 .. MaxFaults /\ todo \subseteq Workers
  BY TypeIs DEF IInv, Finish, Task
<1>2. PICK answer \in Answers(TRUE), obeyed \in BOOLEAN :
        /\ Counted(answer)
        /\ peers' = IF obeyed THEN peers \union tasks[w].got ELSE peers
        /\ IF answer = "found" THEN Become(w, Idle) /\ UNCHANGED todo ELSE Requeue(w)
  BY DEF Finish
<1>3. faults' \in 0 .. MaxFaults /\ peers' \subseteq Nodes
  BY <1>1, <1>2, Answered
<1>4. tasks' \in [Workers -> Task] /\ TaskInv' /\ todo' \subseteq Workers
  BY <1>1, <1>2, TaskMoves, RequeueMoves, Unwritten, IdleType
<1>5. TypeOK'
  BY <1>1, <1>3, <1>4 DEF TypeOK, Task, Steps
<1> QED BY <1>1, <1>4, <1>5 DEF IInv, SessionInv, WholeAnnotations

-----------------------------------------------------------------------------
(* The steps of the informer, the process, the controllers and the cluster.  *)

\* The third of three places is not in a worker's hands.
LEMMA PlaceLeft ==
    ASSUME TypeOK, NEW n \in Nodes
    PROVE  \E p \in Places : /\ p \notin Used(n) \/ (p = cached[n] /\ \A w \in Workers : tasks[w].at[n] # p)
                             /\ \A w \in Workers : tasks[w].at[n] # p
<1>1. PICK p \in Places : p # tasks["service"].at[n] /\ p # tasks["nodes"].at[n]
  BY DEF Places
<1>2. \A w \in Workers : tasks[w].at[n] # p
  BY <1>1 DEF Workers
<1> QED BY <1>2 DEF Used

LEMMA RefreshStep == ASSUME IInv, NEW n \in Nodes, Refresh(n) PROVE IInv'
<1> DEFINE Fit(p) == p \notin Used(n) \/ (p = cached[n] /\ \A w \in Workers : tasks[w].at[n] # p)
           place == CHOOSE p \in Places : Fit(p)
           row == [p \in Places |-> IF p = place THEN node[n]
                                    ELSE IF p \in {tasks[w].at[n] : w \in Workers} THEN copies[n][p] ELSE NoNode]
<1>1. /\ TypeOK /\ TaskInv /\ UNCHANGED <<device, node, peers, tasks, faults, changes>>
      /\ cached' = [cached EXCEPT ![n] = IF Exists(n) THEN place ELSE 0]
      /\ copies' = [copies EXCEPT ![n] = row]
      /\ todo' \subseteq Workers
  BY DEF IInv, Refresh, TypeOK, Workers
<1>2. place \in Places /\ Fit(place)
  <2>1. \E p \in Places : Fit(p)
    BY <1>1, PlaceLeft
  <2> HIDE DEF Fit
  <2> QED BY <2>1
<1>3. \A w \in Workers : tasks[w].at[n] # place
  BY <1>2 DEF Used
<1>4. copies' \in [Nodes -> [Places -> Object]] /\ cached' \in [Nodes -> Places \union {0}]
  <2> HIDE DEF place
  <2> QED BY <1>1, <1>2, TypeIs, ObjectTypes
<1>5. TaskInv'
  <2> SUFFICES ASSUME NEW w \in Workers, tasks[w].pc = "patch", Current(tasks[w]) \notin Slow, tasks[w].own = NoNode
               PROVE  copies'[Current(tasks[w])][tasks[w].at[Current(tasks[w])]].bgp
    BY <1>1 DEF TaskInv, PatchOK, HandOK
  <2> DEFINE m == Current(tasks[w])
             q == tasks[w].at[m]
  <2>1. m \in Nodes /\ q \in Places /\ copies[m][q].bgp
    <3>1. tasks[w] \in Task /\ HandOK(tasks[w]) /\ PatchOK(tasks[w], copies)
      BY <1>1, TypeIs DEF TaskInv
    <3>2. tasks[w].left # {}
      BY <3>1 DEF HandOK
    <3>3. m \in tasks[w].left /\ m \in Nodes
      BY <3>1, <3>2, CurrentIsLeft
    <3> QED BY <3>1, <3>3 DEF HandOK, PatchOK, Task
  <2>2. copies'[m][q] = copies[m][q]
    <3>1. CASE m # n
      BY <1>1, <2>1, <3>1, TypeIs
    <3>2. CASE m = n
      <4>1. q # place /\ q \in {tasks[v].at[n] : v \in Workers}
        BY <1>3, <3>2
      <4>2. copies'[n] = row
        BY <1>1, TypeIs
      <4> HIDE DEF place, m, q
      <4> QED BY <2>1, <3>2, <4>1, <4>2
    <3> QED BY <3>1, <3>2
  <2> QED BY <2>1, <2>2
<1>6. TypeOK'
  BY <1>1, <1>4 DEF TypeOK
<1> QED BY <1>1, <1>5, <1>6 DEF IInv, SessionInv, WholeAnnotations

\* What the other steps change in the cluster.
LEMMA ClusterSteps ==
    ASSUME IInv, UNCHANGED <<copies, cached, peers, todo, tasks>>,
           device' \in [Nodes -> Device], node' \in [Nodes -> Object],
           faults' \in 0 .. MaxFaults, changes' \in 0 .. MaxChanges,
           SessionInv', WholeAnnotations'
    PROVE  IInv'
<1>1. TypeOK'
  BY TypeIs DEF IInv, TypeOK, Device
<1>2. TaskInv'
  BY DEF IInv, TaskInv, HandOK, PatchOK
<1> QED BY <1>1, <1>2 DEF IInv

LEMMA RestartSteps ==
    ASSUME IInv, Restart, UNCHANGED <<device, node, peers, changes>>, faults' \in 0 .. MaxFaults
    PROVE  IInv'
<1>1. /\ tasks' \in [Workers -> Task] /\ TaskInv' /\ todo' \subseteq Workers
      /\ copies' \in [Nodes -> [Places -> Object]] /\ cached' \in [Nodes -> Places \union {0}]
  BY RestartMoves, TypeIs DEF IInv
<1>2. TypeOK'
  BY <1>1 DEF IInv, TypeOK, Task, Steps
<1> QED BY <1>1, <1>2 DEF IInv, SessionInv, WholeAnnotations

LEMMA Disturbed == ASSUME faults \in 0 .. MaxFaults, NEW kind, Disturb(kind) PROVE faults' \in 0 .. MaxFaults
BY BoundsAssumption DEF Disturb

LEMMA CheckNodeStep ==
    ASSUME IInv, NEW n \in Nodes, CheckNode(n)
    PROVE  IInv' /\ (node'[n] = NoNode => device[n].id # node[n].provider)
                 /\ \A m \in Nodes \ {n} : node'[m] = node[m]
<1> DEFINE there == device[n].id = node[n].provider
<1>1. /\ TypeOK /\ UNCHANGED <<device, peers, changes>> /\ faults \in 0 .. MaxFaults
      /\ node \in [Nodes -> Object] /\ Exists(n)
  BY TypeIs DEF IInv, CheckNode
<1>2. PICK answer \in Answers(there) :
        /\ Counted(answer)
        /\ CASE InstanceExists(answer) = "false" ->
                  node' = [node EXCEPT ![n] = NoNode] /\ UNCHANGED <<copies, cached, todo, tasks>>
             [] InstanceExists(answer) = "panic" -> UNCHANGED node /\ Restart
             [] OTHER -> UNCHANGED <<node, copies, cached, todo, tasks>>
  BY DEF CheckNode
<1>3. /\ faults' \in 0 .. MaxFaults
      /\ answer = "404" => ~there
      /\ answer \in {"found", "404", "500", "none"}
  <2>1. there \in BOOLEAN
    OBVIOUS
  <2> HIDE DEF there
  <2> QED BY <1>1, <1>2, <2>1, Answered
<1>4. CASE answer = "404"
  <2>1. node' = [node EXCEPT ![n] = NoNode] /\ UNCHANGED <<copies, cached, todo, tasks>>
    BY <1>2, <1>4 DEF InstanceExists, isNotFound
  <2>2. node' \in [Nodes -> Object] /\ WholeAnnotations'
    BY <1>1, <2>1, ObjectTypes DEF IInv, WholeAnnotations, NoNode, Node
  <2>3. IInv'
    BY <1>1, <1>3, <2>1, <2>2, ClusterSteps, TypeIs DEF IInv, SessionInv
  <2> QED BY <1>1, <1>3, <1>4, <2>1, <2>3
<1>5. CASE answer = "none"
  <2>1. UNCHANGED node /\ Restart
    BY <1>2, <1>5 DEF InstanceExists, isNotFound
  <2> QED BY <1>1, <1>3, <2>1, RestartSteps DEF Exists
<1>6. CASE answer \in {"found", "500"}
  <2>1. UNCHANGED <<node, copies, cached, todo, tasks>>
    BY <1>2, <1>6 DEF InstanceExists, isNotFound
  <2> QED BY <1>1, <1>3, <2>1, ClusterSteps, TypeIs DEF IInv, SessionInv, WholeAnnotations, Exists
<1> QED BY <1>3, <1>4, <1>5, <1>6

\* Every step keeps the invariant, and deletes a Node only when its device is gone.
LEMMA Step == ASSUME IInv, [Next]_vars PROVE IInv'
<1>0. /\ TypeOK /\ SessionInv /\ WholeAnnotations /\ faults \in 0 .. MaxFaults /\ changes \in 0 .. MaxChanges
      /\ device \in [Nodes -> Device] /\ node \in [Nodes -> Object]
  BY TypeIs DEF IInv
<1>1. ASSUME NEW w \in Workers, WorkerSteps(w) PROVE IInv'
  BY <1>1, BeginStep, NoProviderIDStep, EnableBGPStep, GetNetworkStep, GetPeerStep, PatchNodeStep,
     AddPeerStep, FinishStep DEF WorkerSteps
<1>2. ASSUME NEW n \in Nodes, Refresh(n) \/ CheckNode(n) PROVE IInv'
  BY <1>2, RefreshStep, CheckNodeStep
<1>3. ASSUME NEW n \in Nodes, InitializeNode(n) PROVE IInv'
  <2>1. device[n].id \in DeviceIds /\ node[n] \in Object
    BY <1>0 DEF Device
  <2>2. node' \in [Nodes -> Object] /\ WholeAnnotations'
    BY <1>0, <1>3, <2>1 DEF InitializeNode, deviceByName, Object, WholeAnnotations
  <2> QED BY <1>0, <1>3, <2>2, ClusterSteps DEF InitializeNode, SessionInv
<1>4. ASSUME NEW n \in Nodes, DeviceChanges(n) PROVE IInv'
  <2>1. changes < MaxChanges /\ changes' = changes + 1 /\ UNCHANGED <<node, copies, cached, peers, todo, tasks, faults>>
    BY <1>4 DEF DeviceChanges, Change
  <2>2. PICK id \in {0, changes + 2} : device' = [device EXCEPT ![n] = [NoDevice EXCEPT !.id = id]]
    BY <1>4 DEF DeviceChanges
  <2>3. id \in DeviceIds /\ changes' \in 0 .. MaxChanges
    BY <1>0, <2>1, <2>2, BoundsAssumption DEF DeviceIds
  <2>4. device' \in [Nodes -> Device] /\ SessionInv'
    BY <1>0, <2>2, <2>3 DEF NoDevice, Device, SessionInv
  <2> QED BY <1>0, <2>1, <2>3, <2>4, ClusterSteps DEF WholeAnnotations
<1>5. ASSUME NEW n \in Nodes, Register(n) PROVE IInv'
  <2>1. node' = [node EXCEPT ![n] = Node(0, n \notin Bare)] /\ UNCHANGED <<device, copies, cached, peers, todo, tasks, faults, changes>>
    BY <1>5 DEF Register
  <2>2. Node(0, n \notin Bare) \in Object /\ ~Node(0, n \notin Bare).network
    BY ObjectTypes DEF Node
  <2>3. node' \in [Nodes -> Object] /\ WholeAnnotations'
    BY <1>0, <2>1, <2>2 DEF WholeAnnotations
  <2> QED BY <1>0, <2>1, <2>3, ClusterSteps DEF SessionInv
<1>6. ASSUME NEW n \in Nodes, NeighboursAppear(n) PROVE IInv'
  <2>1. PICK state \in {"empty", "full"} \ {device[n].neighbours} : device' = [device EXCEPT ![n].neighbours = state]
    BY <1>6 DEF NeighboursAppear
  <2>2. n \in Slow /\ device[n].session
    BY <1>0, <1>6 DEF NeighboursAppear, SessionInv
  <2>3. device' \in [Nodes -> Device] /\ SessionInv'
    BY <1>0, <2>1, <2>2 DEF Device, SessionInv
  <2> QED BY <1>0, <1>6, <2>3, ClusterSteps DEF NeighboursAppear, WholeAnnotations
<1>7. ASSUME Crash \/ MapRace PROVE IInv'
  <2>1. Restart /\ UNCHANGED <<device, node, peers, changes>> /\ faults' \in 0 .. MaxFaults
    BY <1>0, <1>7, Disturbed DEF Crash, MapRace
  <2> QED BY <2>1, RestartSteps
<1>8. ASSUME UNCHANGED vars PROVE IInv'
  BY <1>8, <1>0, ClusterSteps DEF vars, SessionInv, WholeAnnotations
<1> QED BY <1>1, <1>2, <1>3, <1>4, <1>5, <1>6, <1>7, <1>8 DEF Next, WorkerSteps

LEMMA InitInv == Init => IInv
<1> SUFFICES ASSUME Init PROVE IInv
  OBVIOUS
<1>1. device \in [Nodes -> Device] /\ SessionInv
  <2>1. /\ NoDevice \in Device /\ ~NoDevice.session /\ NoDevice.neighbours = "none"
        /\ [NoDevice EXCEPT !.id = 1] \in Device
        /\ ~[NoDevice EXCEPT !.id = 1].session /\ [NoDevice EXCEPT !.id = 1].neighbours = "none"
    <3>1. 0 \in DeviceIds /\ 1 \in DeviceIds
      BY BoundsAssumption DEF DeviceIds
    <3>2. NoDevice \in Device /\ ~NoDevice.session /\ NoDevice.neighbours = "none"
      BY <3>1 DEF NoDevice, Device
    <3> HIDE DEF NoDevice
    <3> QED BY <3>1, <3>2 DEF Device
  <2>2. \A n \in Nodes : device[n] \in {NoDevice, [NoDevice EXCEPT !.id = 1]}
    BY DEF Init
  <2>3. device = [n \in Nodes |-> device[n]]
    BY DEF Init
  <2> QED BY <2>1, <2>2, <2>3 DEF SessionInv
<1>2. node \in [Nodes -> Object] /\ WholeAnnotations
  <2>1. \A n \in Nodes : Node(1, n \notin Bare) \in Object /\ ~Node(1, n \notin Bare).network /\ ~NoNode.network
    BY ObjectTypes DEF Node, NoNode
  <2> QED BY <2>1, ObjectTypes DEF Init, WholeAnnotations
<1>3. tasks \in [Workers -> Task] /\ TaskInv
  BY IdleType DEF Init, TaskInv
<1>4. copies \in [Nodes -> [Places -> Object]] /\ cached \in [Nodes -> Places \union {0}]
  BY <1>2, ObjectTypes DEF Init, Places
<1>5. peers \subseteq Nodes /\ todo \subseteq Workers /\ faults \in 0 .. MaxFaults /\ changes \in 0 .. MaxChanges
  BY BoundsAssumption DEF Init, Workers
<1> QED BY <1>1, <1>2, <1>3, <1>4, <1>5, TypeIs DEF IInv

-----------------------------------------------------------------------------
(* Nobody is forgotten: the invariant behind RestsServed.  A node that is    *)
(* present, and is not slow, is on track when something that is queued or    *)
(* under way will make it a peer and annotate its Node.  The copies matter:  *)
(* one that has the annotation of the network while the Node has not makes   *)
(* the workers pass the node by, so some worker must be about to patch it    *)
(* in.  Device IDs are never used again, which is why a copy that has the    *)
(* provider ID of the Node is a copy of that Node and of no earlier one.     *)

USE DEF Counts

\* The informer has yet to see this Node, or its provider ID.
Pending(n) == cached[n] = 0 \/ copies[n][cached[n]].provider # node[n].provider

\* The copy in the hands of the task is one of the Node as it is now.
Mine(t, n) == copies[n][t.at[n]].provider = node[n].provider

\* The annotations are being made.
Writing(t, n) == t.pc \in {"network", "bgp", "patch"} /\ n = Current(t) /\ Mine(t, n)
\* The loop of the task has yet to come to the node.
Waits(t, n) == t.pc # "idle" /\ n \in t.left /\ Mine(t, n) /\ (t.pc = "enable" \/ n # Current(t))
\* The task will make the node a peer.
Listed(t, n) == t.pc # "idle" /\ (n \in t.got \/ (n \in t.left /\ Mine(t, n)))

PeerTrack(n) ==
    n \in peers \/ Pending(n) \/ \E w \in Workers : w \in todo \/ Listed(tasks[w], n)

Noted(n) == node[n].network /\ node[n].bgp

\* No copy in use of this Node has the annotation of the network.
Honest(n) ==
    \A q \in Places : q \in Used(n) /\ copies[n][q].provider = node[n].provider => ~copies[n][q].network

NoteTrack(n) ==
    \/ Noted(n)
    \/ \E w \in Workers : Writing(tasks[w], n)
    \/ Honest(n) /\ (Pending(n) \/ \E w \in Workers : w \in todo \/ Waits(tasks[w], n))

OnTrack(n) == PeerTrack(n) /\ NoteTrack(n)

Lost == {n \in Counts : Present(n) /\ ~OnTrack(n)}

\* A copy with the ID of the device is a copy of the Node that has it.
AgeInv ==
    \A n \in Nodes :
        /\ device[n].id <= changes + 1 /\ node[n].provider <= changes + 1
        /\ \A p \in Places :
            /\ copies[n][p].provider <= changes + 1
            /\ device[n].id # 0 /\ copies[n][p].provider = device[n].id => node[n].provider = device[n].id

\* The device of the node in hand has its session, and what will be patched in the network.
Enabled(t) ==
    t.pc \in {"network", "bgp", "patch", "peer"} /\ device[Current(t)].id # 0 /\ Held(t).provider = device[Current(t)].id
        => device[Current(t)].session
Filled(t) == t.pc \in {"bgp", "patch"} => IF t.own # NoNode THEN t.own.network ELSE Held(t).network

HandInv == \A w \in Workers : Enabled(tasks[w]) /\ Filled(tasks[w])

TrackInv == AgeInv /\ HandInv /\ Cardinality(Lost) <= faults

-----------------------------------------------------------------------------
(* A step of one worker, as far as the tracks of the nodes go.               *)

\* IDs stay, and annotations and sessions are only added.
Steady ==
    /\ cached' = cached /\ changes' = changes /\ peers \subseteq peers'
    /\ \A n \in Nodes :
        /\ device'[n].id = device[n].id /\ (device[n].session => device'[n].session)
        /\ node'[n].provider = node[n].provider /\ (node[n] = NoNode <=> node'[n] = NoNode)
        /\ node[n].network => node'[n].network
        /\ node[n].bgp => node'[n].bgp
        /\ \A p \in Places :
            /\ copies'[n][p].provider = copies[n][p].provider
            /\ copies[n][p].network => copies'[n][p].network

\* Only the worker w moves.
Moves(w) == (\A v \in Workers \ {w} : tasks'[v] = tasks[v]) /\ todo \ {w} \subseteq todo'

LEMMA InHand ==
    ASSUME IInv, NEW w \in Workers
    PROVE  /\ tasks[w] \in Task /\ HandOK(tasks[w])
           /\ \A n \in tasks[w].left : n \in Nodes /\ tasks[w].at[n] \in Places
           /\ tasks[w].pc \notin {"idle", "enable"} =>
                /\ Current(tasks[w]) \in tasks[w].left /\ Current(tasks[w]) \in Nodes
                /\ tasks[w].at[Current(tasks[w])] \in Places
<1>1. tasks[w] \in Task /\ HandOK(tasks[w])
  BY TypeIs DEF IInv, TaskInv
<1>2. \A n \in tasks[w].left : n \in Nodes /\ tasks[w].at[n] \in Places
  BY <1>1 DEF HandOK, Task
<1> QED BY <1>1, <1>2, CurrentIsLeft DEF HandOK

\* Who stays on track when one worker moves: what hangs on the other is kept.
LEMMA TrackKept ==
    ASSUME IInv, Steady, NEW w \in Workers, Moves(w), NEW n \in Nodes,
           w \in todo \/ Listed(tasks[w], n) => PeerTrack(n)',
           Writing(tasks[w], n) => NoteTrack(n)',
           Honest(n) => Honest(n)' \/ NoteTrack(n)',
           Honest(n) /\ (w \in todo \/ Waits(tasks[w], n)) => NoteTrack(n)',
           OnTrack(n)
    PROVE  OnTrack(n)'
<1>1. Pending(n) => Pending(n)'
  <2>1. cached[n] \in Places \union {0}
    BY TypeIs DEF IInv
  <2> QED BY <2>1 DEF Steady, Pending
<1>2. ASSUME NEW v \in Workers \ {w}
      PROVE  /\ tasks'[v] = tasks[v] /\ (v \in todo => v \in todo')
             /\ Listed(tasks[v], n) => Listed(tasks[v], n)'
             /\ Writing(tasks[v], n) => Writing(tasks[v], n)'
             /\ Waits(tasks[v], n) => Waits(tasks[v], n)'
  <2>1. tasks'[v] = tasks[v] /\ (v \in todo => v \in todo')
    BY DEF Moves
  <2>2. n \in tasks[v].left => (Mine(tasks[v], n) => Mine(tasks[v], n)')
    BY <2>1, InHand DEF Mine, Steady
  <2>3. Writing(tasks[v], n) => n \in tasks[v].left
    BY InHand DEF Writing
  <2> QED BY <2>1, <2>2, <2>3 DEF Listed, Writing, Waits
<1>3. PeerTrack(n)'
  <2>1. CASE n \in peers \/ Pending(n)
    BY <1>1, <2>1 DEF PeerTrack, Steady
  <2>2. CASE \E v \in Workers : v \in todo \/ Listed(tasks[v], n)
    <3>1. PICK v \in Workers : v \in todo \/ Listed(tasks[v], n)
      BY <2>2
    <3>2. CASE v = w
      BY <3>1, <3>2
    <3>3. CASE v # w
      BY <1>2, <3>1, <3>3 DEF PeerTrack
    <3> QED BY <3>2, <3>3
  <2> QED BY <2>1, <2>2 DEF OnTrack, PeerTrack
<1>4. NoteTrack(n)'
  <2>1. NoteTrack(n)
    BY DEF OnTrack
  <2>2. CASE Noted(n)
    BY <2>2 DEF Noted, Steady, NoteTrack
  <2>3. CASE \E v \in Workers : Writing(tasks[v], n)
    <3>1. PICK v \in Workers : Writing(tasks[v], n)
      BY <2>3
    <3>2. CASE v = w
      BY <3>1, <3>2
    <3>3. CASE v # w
      BY <1>2, <3>1, <3>3 DEF NoteTrack
    <3> QED BY <3>2, <3>3
  <2>4. CASE Honest(n) /\ Pending(n)
    BY <1>1, <2>4 DEF NoteTrack
  <2>5. CASE Honest(n) /\ \E v \in Workers : v \in todo \/ Waits(tasks[v], n)
    <3>1. PICK v \in Workers : v \in todo \/ Waits(tasks[v], n)
      BY <2>5
    <3>2. CASE v = w
      BY <2>5, <3>1, <3>2
    <3>3. CASE v # w
      BY <1>2, <2>5, <3>1, <3>3 DEF NoteTrack
    <3> QED BY <3>2, <3>3
  <2> QED BY <2>1, <2>2, <2>3, <2>4, <2>5 DEF NoteTrack
<1> QED BY <1>3, <1>4 DEF OnTrack

\* A node stays honest when its copies do and no new one is in use.
LEMMA HonestKept ==
    ASSUME Steady, NEW n \in Nodes, \A v \in Workers : tasks'[v].at[n] \in {tasks[v].at[n], 0, cached[n]},
           \A p \in Places : copies'[n][p].provider = node[n].provider /\ copies'[n][p].network => copies[n][p].network
    PROVE  Honest(n) => Honest(n)'
<1> SUFFICES ASSUME Honest(n), NEW q \in Places, q \in Used(n)', copies'[n][q].provider = node'[n].provider,
                    copies'[n][q].network
             PROVE  FALSE
  BY DEF Honest
<1>1. q \in Used(n)
  <2>1. q = cached[n] \/ \E v \in Workers : q = tasks'[v].at[n]
    BY DEF Used, Steady
  <2>2. q # 0
    BY DEF Places
  <2> QED BY <2>1, <2>2 DEF Used
<1> QED BY <1>1 DEF Honest, Steady

\* A step at one node leaves the others on track.
LEMMA SideKept ==
    ASSUME IInv, Steady, NEW w \in Workers, NEW u \in Task, Become(w, u), todo \subseteq todo', u.pc # "idle",
           NEW n \in Nodes, n # Current(tasks[w]), u.pc = "enable" \/ n # Current(u),
           n \in tasks[w].left => n \in u.left, n \in tasks[w].got => n \in u.got, u.at[n] = tasks[w].at[n],
           copies'[n] = copies[n], OnTrack(n)
    PROVE  OnTrack(n)'
<1> DEFINE t == tasks[w]
<1>1. tasks'[w] = u /\ \A v \in Workers \ {w} : tasks'[v] = tasks[v]
  BY TypeIs DEF IInv, Become
<1>2. Moves(w)
  BY <1>1 DEF Moves
<1>3. Honest(n) => Honest(n)'
  BY <1>1, HonestKept
<1>4. Mine(t, n) => Mine(u, n)'
  BY DEF Mine, Steady
<1>5. Listed(t, n) => Listed(tasks[w], n)'
  BY <1>1, <1>4 DEF Listed
<1>6. ~Writing(t, n) /\ (Waits(t, n) => Waits(tasks[w], n)')
  BY <1>1, <1>4 DEF Writing, Waits
<1>7. w \in todo \/ Listed(t, n) => PeerTrack(n)'
  BY <1>5 DEF PeerTrack
<1>8. Honest(n) /\ (w \in todo \/ Waits(t, n)) => NoteTrack(n)'
  BY <1>3, <1>6 DEF NoteTrack
<1> HIDE DEF t
<1> QED BY <1>2, <1>3, <1>6, <1>7, <1>8, TrackKept DEF t

\* A worker that starts over finds every node again.
LEMMA RequeueKept ==
    ASSUME IInv, Steady, UNCHANGED copies, NEW w \in Workers, Requeue(w),
           NEW n \in Nodes, ~Writing(tasks[w], n), OnTrack(n)
    PROVE  OnTrack(n)'
<1>1. tasks'[w] = Idle /\ (\A v \in Workers \ {w} : tasks'[v] = tasks[v]) /\ todo' = todo \union {"service"}
      /\ "service" \in Workers
  BY TypeIs DEF IInv, Requeue, Become, Workers
<1>2. Moves(w)
  BY <1>1 DEF Moves
<1>3. Honest(n) => Honest(n)'
  BY <1>1, HonestKept DEF Idle
<1>4. PeerTrack(n)'
  BY <1>1 DEF PeerTrack
<1>5. Honest(n) => NoteTrack(n)'
  BY <1>1, <1>3 DEF NoteTrack
<1> QED BY <1>2, <1>3, <1>4, <1>5, TrackKept

\* A node may be skipped when the copy is of an earlier Node.
LEMMA SkipKept ==
    ASSUME IInv, Steady, UNCHANGED <<copies, todo>>, NEW w \in Workers, tasks[w].left # {}, Become(w, Skip(tasks[w])),
           NEW n \in Nodes, n # Current(tasks[w]) \/ ~Mine(tasks[w], n), OnTrack(n)
    PROVE  OnTrack(n)'
<1> DEFINE t == tasks[w]
           u == Skip(t)
<1>0. t \in Task /\ HandOK(t) /\ u \in Task /\ Current(t) \in t.left /\ Current(t) \in Nodes
  BY InHand, SkipType, CurrentIsLeft
<1>1. /\ u.pc = "enable" /\ u.left = t.left \ {Current(t)} /\ u.got = t.got
      /\ \A m \in Nodes : u.at[m] = IF m = Current(t) THEN 0 ELSE t.at[m]
  BY <1>0 DEF Skip, Task
<1>2. CASE n # Current(t)
  <2> HIDE DEF u
  <2> QED BY <1>0, <1>1, <1>2, SideKept DEF u
<1>3. CASE n = Current(t)
  <2>1. tasks'[w] = u /\ \A v \in Workers \ {w} : tasks'[v] = tasks[v]
    BY TypeIs DEF IInv, Become
  <2>2. Moves(w)
    BY <2>1 DEF Moves
  <2> HIDE DEF u, t
  <2>3. Honest(n) => Honest(n)'
    <3>1. \A v \in Workers : tasks'[v].at[n] \in {tasks[v].at[n], 0, cached[n]}
      BY <1>1, <2>1 DEF t
    <3> QED BY <3>1, HonestKept
  <2>4. ~Mine(t, n)
    BY <1>3 DEF t
  <2>5. w \in todo \/ Listed(t, n) => PeerTrack(n)'
    <3>1. ASSUME n \in t.got PROVE Listed(tasks[w], n)'
      BY <3>1, <2>1, <1>1 DEF Listed
    <3> QED BY <2>4, <3>1 DEF PeerTrack, Listed
  <2>6. ~Writing(t, n) /\ ~Waits(t, n)
    BY <2>4 DEF Writing, Waits
  <2>7. Honest(n) /\ w \in todo => NoteTrack(n)'
    BY <2>3 DEF NoteTrack
  <2> QED BY <2>2, <2>3, <2>5, <2>6, <2>7, TrackKept DEF t
<1> QED BY <1>2, <1>3

LEMMA FailsKept ==
    ASSUME IInv, Steady, UNCHANGED copies, NEW w \in Workers, tasks[w].left # {}, NodeFails(w),
           NEW n \in Nodes, n # Current(tasks[w]) \/ ~Mine(tasks[w], n), OnTrack(n)
    PROVE  OnTrack(n)'
<1>1. CASE w = "service"
  BY <1>1, SkipKept DEF NodeFails
<1>2. CASE w # "service"
  BY <1>2, RequeueKept DEF NodeFails, Writing
<1> QED BY <1>1, <1>2

\* A worker that goes on with the node at hand.
LEMMA HereKept ==
    ASSUME IInv, Steady, NEW w \in Workers, tasks[w].pc # "idle", tasks[w].left # {}, NEW u \in Task, Become(w, u),
           UNCHANGED todo, u.pc # "idle", u.left = tasks[w].left, u.got = tasks[w].got, u.at = tasks[w].at,
           \A m \in Nodes \ {Current(tasks[w])} : copies'[m] = copies[m],
           NEW n \in Nodes,
           n = Current(tasks[w]) =>
             /\ \A p \in Places : p # tasks[w].at[n] => copies'[n][p] = copies[n][p]
             /\ Mine(tasks[w], n) /\ (Writing(tasks[w], n) \/ Honest(n)) => NoteTrack(n)',
           OnTrack(n)
    PROVE  OnTrack(n)'
<1> DEFINE t == tasks[w]
<1>0. Current(u) = Current(t)
  BY DEF Current
<1>1. CASE n # Current(t)
  BY <1>0, <1>1, SideKept
<1>2. CASE n = Current(t)
  <2>1. tasks'[w] = u /\ (\A v \in Workers \ {w} : tasks'[v] = tasks[v]) /\ Moves(w)
    BY TypeIs DEF IInv, Become, Moves
  <2>2. n \in t.left /\ t.at[n] \in Places
    BY <1>2, InHand, CurrentIsLeft
  <2> HIDE DEF t
  <2>3. Mine(t, n) => Mine(u, n)'
    BY <2>2 DEF Mine, Steady, t
  <2>4. w \in todo \/ Listed(t, n) => PeerTrack(n)'
    BY <2>1, <2>3 DEF PeerTrack, Listed, t
  <2>5. Honest(n) => Honest(n)' \/ NoteTrack(n)'
    <3>1. CASE Mine(t, n)
      BY <1>2, <3>1 DEF t
    <3>2. CASE ~Mine(t, n)
      <4>1. \A p \in Places : copies'[n][p].provider = node[n].provider /\ copies'[n][p].network => copies[n][p].network
        BY <1>2, <2>2, <3>2 DEF Mine, Steady, t
      <4>2. \A v \in Workers : tasks'[v].at[n] \in {tasks[v].at[n], 0, cached[n]}
        BY <2>1
      <4> QED BY <4>1, <4>2, HonestKept
    <3> QED BY <3>1, <3>2
  <2>6. Writing(t, n) => NoteTrack(n)'
    BY <1>2 DEF Writing, t
  <2>7. Honest(n) /\ (w \in todo \/ Waits(t, n)) => NoteTrack(n)'
    <3>1. CASE Mine(t, n)
      BY <1>2, <3>1 DEF t
    <3>2. CASE ~Mine(t, n)
      BY <2>5, <3>2 DEF Waits, NoteTrack
    <3> QED BY <3>1, <3>2
  <2> QED BY <2>1, <2>4, <2>5, <2>6, <2>7, TrackKept DEF t
<1> QED BY <1>1, <1>2

-----------------------------------------------------------------------------
(* The steps of the workers keep the nodes on track.                         *)

\* All nodes that count, or all but one when a call has failed.
Following ==
    \/ faults' = faults /\ \A n \in Counts : Present(n) /\ OnTrack(n) => OnTrack(n)'
    \/ faults' = faults + 1
       /\ \E m : \A n \in Counts \ {m} : Present(n) /\ OnTrack(n) => OnTrack(n)'

LEMMA Answering ==
    ASSUME faults \in 0 .. MaxFaults, NEW found \in BOOLEAN, NEW answer \in Answers(found), Counted(answer)
    PROVE  \/ answer = "found" /\ found /\ faults' = faults
           \/ answer = "404" /\ ~found /\ faults' = faults
           \/ answer \in {"500", "none"} /\ faults' = faults + 1
<1>1. answer \in {"500", "none"} \/ answer = (IF found THEN "found" ELSE "404")
  BY DEF Answers
<1>2. faults' = faults + (IF answer \in {"500", "none"} THEN 1 ELSE 0)
  BY DEF Counted
<1> QED BY <1>1, <1>2

\* What the worker holds next; the other one's hand is not touched.
LEMMA HandKept ==
    ASSUME IInv, HandInv, Steady, NEW w \in Workers, Moves(w), Enabled(tasks[w])', Filled(tasks[w])'
    PROVE  HandInv'
<1>1. ASSUME NEW v \in Workers \ {w} PROVE Enabled(tasks[v])' /\ Filled(tasks[v])'
  <2>1. tasks'[v] = tasks[v] /\ Enabled(tasks[v]) /\ Filled(tasks[v])
    BY DEF Moves, HandInv
  <2>2. tasks[v].pc \in {"network", "bgp", "patch", "peer"} =>
          Current(tasks[v]) \in Nodes /\ tasks[v].at[Current(tasks[v])] \in Places
    BY InHand
  <2>3. Enabled(tasks[v])'
    BY <2>1, <2>2 DEF Enabled, Held, Steady
  <2>4. Filled(tasks[v])'
    BY <2>1, <2>2 DEF Filled, Held, Steady
  <2> QED BY <2>3, <2>4
<1> QED BY <1>1 DEF HandInv

\* At the head of the loop nothing is in hand.
LEMMA HandEmpty ==
    ASSUME NEW t, t.pc \in {"idle", "enable"}
    PROVE  Enabled(t) /\ Filled(t)
BY DEF Enabled, Filled

LEMMA FailsEmpty ==
    ASSUME IInv, HandInv, Steady, NEW w \in Workers, tasks[w].left # {},
           NodeFails(w) \/ (Become(w, Skip(tasks[w])) /\ UNCHANGED todo)
    PROVE  HandInv'
<1>1. tasks \in [Workers -> Task] /\ tasks[w] \in Task
  BY TypeIs DEF IInv
<1>2. Skip(tasks[w]).pc = "enable" /\ Idle.pc = "idle"
  BY <1>1 DEF Skip, Task, Idle
<1>3. Moves(w) /\ tasks'[w] \in {Skip(tasks[w]), Idle}
  BY <1>1 DEF NodeFails, Requeue, Become, Moves
<1>4. tasks'[w].pc \in {"idle", "enable"}
  BY <1>2, <1>3
<1>5. Enabled(tasks'[w]) /\ Filled(tasks'[w])
  BY <1>4 DEF Enabled, Filled
<1>6. Enabled(tasks[w])' /\ Filled(tasks[w])'
  BY <1>4 DEF Enabled, Filled
<1> QED BY <1>3, <1>6, HandKept

\* A step that touches neither devices nor Nodes nor copies is steady.
LEMMA SteadyWithout ==
    ASSUME UNCHANGED <<device, node, copies, cached, changes>>, peers \subseteq peers'
    PROVE  Steady
BY DEF Steady

LEMMA BeginTrack ==
    ASSUME IInv, TrackInv, NEW w \in Workers, Begin(w)
    PROVE  Steady /\ HandInv' /\ Following
<1> DEFINE u == [Idle EXCEPT !.pc = "enable", !.left = {n \in Nodes : cached[n] # 0}, !.at = cached]
<1>1. /\ Steady /\ faults' = faults /\ todo' = todo \ {w} /\ tasks[w].pc = "idle"
      /\ UNCHANGED <<device, node, copies, cached, peers, faults, changes>>
  BY SteadyWithout DEF Begin, At
<1>2. u.pc = "enable" /\ u.left = {n \in Nodes : cached[n] # 0} /\ u.at = cached
  BY DEF Idle
<1>3. tasks'[w] = u /\ (\A v \in Workers \ {w} : tasks'[v] = tasks[v]) /\ Moves(w)
  BY <1>1, TypeIs DEF IInv, Begin, Become, Moves
<1> HIDE DEF u
<1>4. HandInv'
  <2>1. Enabled(tasks[w])' /\ Filled(tasks[w])'
    BY <1>2, <1>3 DEF Enabled, Filled
  <2> QED BY <1>1, <1>3, <2>1, HandKept DEF TrackInv
<1>5. ASSUME NEW n \in Counts, OnTrack(n) PROVE OnTrack(n)'
  <2>1. Pending(n)' \/ (n \in u.left /\ Mine(tasks[w], n)')
    BY <1>1, <1>2, <1>3 DEF Pending, Mine
  <2>2. Honest(n) => Honest(n)'
    <3>1. \A v \in Workers : tasks'[v].at[n] \in {tasks[v].at[n], 0, cached[n]}
      BY <1>2, <1>3
    <3> QED BY <1>1, <3>1, HonestKept
  <2>3. ~Writing(tasks[w], n)
    BY <1>1 DEF Writing
  <2>4. PeerTrack(n)'
    BY <1>2, <1>3, <2>1 DEF PeerTrack, Listed
  <2>5. Honest(n) => NoteTrack(n)'
    BY <1>2, <1>3, <2>1, <2>2 DEF NoteTrack, Waits
  <2> QED BY <1>1, <1>3, <1>5, <2>2, <2>3, <2>4, <2>5, TrackKept
<1> QED BY <1>1, <1>4, <1>5 DEF Following

\* A Node that is present has a provider ID: a copy without one is of no use to it.
LEMMA NoProviderIDTrack ==
    ASSUME IInv, TrackInv, NEW w \in Workers, NoProviderID(w)
    PROVE  Steady /\ HandInv' /\ Following
<1>1. /\ Steady /\ faults' = faults /\ tasks[w].left # {} /\ Held(tasks[w]).provider = 0 /\ NodeFails(w)
      /\ UNCHANGED copies
  BY SteadyWithout DEF NoProviderID
<1>2. ASSUME NEW n \in Counts, Present(n), OnTrack(n) PROVE OnTrack(n)'
  <2>1. n # Current(tasks[w]) \/ ~Mine(tasks[w], n)
    BY <1>1, <1>2 DEF Present, Mine, Held
  <2> QED BY <1>1, <1>2, <2>1, FailsKept
<1> QED BY <1>1, <1>2, FailsEmpty DEF Following, TrackInv

\* A device that is not found is not that of the Node.
LEMMA EnableBGPTrack ==
    ASSUME IInv, TrackInv, NEW w \in Workers, EnableBGP(w)
    PROVE  \/ Steady /\ HandInv' /\ Following
           \/ Restart /\ UNCHANGED <<node, peers, changes>> /\ faults' = faults + 1 /\ \A n \in Nodes : device'[n].id = device[n].id
<1> DEFINE t == tasks[w]
           m == Current(t)
           there == device[m].id = Held(t).provider
<1>1. /\ t \in Task /\ t.left # {} /\ t.pc = "enable" /\ HandOK(t) /\ m \in Nodes /\ m \in t.left /\ t.at[m] \in Places
      /\ UNCHANGED <<peers, changes>> /\ faults \in 0 .. MaxFaults
  BY TypeIs, InHand, CurrentIsLeft DEF IInv, EnableBGP, At
<1>2. PICK answer \in Answers(there), obeyed \in BOOLEAN :
        /\ answer = "found" => obeyed
        /\ Counted(answer)
        /\ device' = IF obeyed THEN WithSession(m) ELSE device
        /\ CASE answer = "none" -> UNCHANGED node /\ Restart
             [] answer = "found" -> Become(w, Annotate(t)) /\ UNCHANGED <<node, copies, cached, todo>>
             [] OTHER -> Become(w, Skip(t)) /\ UNCHANGED <<node, copies, cached, todo>>
  BY DEF EnableBGP
<1>3. \/ answer = "found" /\ there /\ faults' = faults
      \/ answer = "404" /\ ~there /\ faults' = faults
      \/ answer \in {"500", "none"} /\ faults' = faults + 1
  <2>1. there \in BOOLEAN
    OBVIOUS
  <2> HIDE DEF there
  <2> QED BY <1>1, <1>2, <2>1, Answering
<1>4. \A n \in Nodes : device'[n].id = device[n].id /\ (device[n].session => device'[n].session)
  <2>1. device \in [Nodes -> Device]
    BY TypeIs DEF IInv
  <2> QED BY <1>1, <1>2, <2>1 DEF WithSession
<1>5. CASE answer = "none"
  BY <1>1, <1>2, <1>3, <1>4, <1>5
<1>6. CASE answer = "found"
  <2> DEFINE u == Annotate(t)
  <2>1. Become(w, u) /\ UNCHANGED <<node, copies, cached, todo>> /\ faults' = faults
    BY <1>2, <1>3, <1>6
  <2>2. Steady
    BY <1>1, <1>4, <2>1 DEF Steady
  <2>3. /\ u \in Task /\ u.left = t.left /\ u.got = t.got /\ u.at = t.at
        /\ u.pc = IF Held(t).network THEN "peer" ELSE "network"
    BY <1>1, AnnotateType DEF Annotate, Annotated, Task
  <2>4. device'[m].session
    <3>1. device \in [Nodes -> Device]
      BY TypeIs DEF IInv
    <3> QED BY <1>1, <1>2, <1>6, <3>1 DEF WithSession
  <2> HIDE DEF u
  <2>5. tasks'[w] = u /\ Moves(w) /\ Current(u) = m
    BY <2>1, <2>3, TypeIs DEF IInv, Become, Moves, Current
  <2>6. HandInv'
    <3>1. Enabled(tasks[w])' /\ Filled(tasks[w])'
      BY <2>3, <2>4, <2>5 DEF Enabled, Filled
    <3> QED BY <2>2, <2>5, <3>1, HandKept DEF TrackInv
  <2>7. ASSUME NEW n \in Counts, OnTrack(n) PROVE OnTrack(n)'
    <3>1. ASSUME n = m, Mine(t, n), Writing(t, n) \/ Honest(n) PROVE NoteTrack(n)'
      <4>1. Honest(n)
        BY <1>1, <3>1 DEF Writing
      <4>2. ~Held(t).network
        BY <1>1, <3>1, <4>1 DEF Honest, Held, Used, Mine
      <4>3. Writing(tasks[w], n)'
        <5> HIDE DEF t, m
        <5> QED BY <2>1, <2>3, <2>5, <3>1, <4>2 DEF Writing, Mine
      <4> QED BY <4>3 DEF NoteTrack
    <3> HIDE DEF t, m
    <3>2. /\ tasks[w].pc # "idle" /\ tasks[w].left # {} /\ u.pc # "idle"
          /\ u.left = tasks[w].left /\ u.got = tasks[w].got /\ u.at = tasks[w].at
      BY <1>1, <2>3 DEF t
    <3>3. n = Current(tasks[w]) =>
             /\ \A p \in Places : p # tasks[w].at[n] => copies'[n][p] = copies[n][p]
             /\ Mine(tasks[w], n) /\ (Writing(tasks[w], n) \/ Honest(n)) => NoteTrack(n)'
      BY <2>1, <3>1 DEF t, m
    <3> QED BY <2>1, <2>2, <2>3, <2>7, <3>2, <3>3, HereKept
  <2> QED BY <2>1, <2>2, <2>6, <2>7 DEF Following
<1>7. CASE answer \in {"404", "500"}
  <2>1. Become(w, Skip(t)) /\ UNCHANGED <<node, copies, cached, todo>>
    BY <1>2, <1>7
  <2>2. Steady
    BY <1>1, <1>4, <2>1 DEF Steady
  <2>3. ASSUME NEW n \in Counts, Present(n), OnTrack(n), n # m \/ answer = "404" PROVE OnTrack(n)'
    <3>1. n # m \/ ~Mine(t, n)
      BY <1>3, <2>3 DEF Present, Mine, Held
    <3> QED BY <1>1, <2>1, <2>2, <2>3, <3>1, SkipKept
  <2>4. Following
    BY <1>1, <1>3, <1>7, <2>3 DEF Following
  <2> QED BY <1>1, <2>1, <2>2, <2>4, FailsEmpty DEF TrackInv
<1> QED BY <1>3, <1>5, <1>6, <1>7

\* The node that is written about is being annotated, before and after.
LEMMA WriteTrack ==
    ASSUME IInv, TrackInv, NEW w \in Workers, tasks[w].pc \in {"network", "bgp"},
           NEW network \in BOOLEAN, NEW bgp \in BOOLEAN, NEW pc \in {"bgp", "patch"},
           network \/ tasks[w].pc = "bgp", Write(w, network, bgp, pc),
           UNCHANGED <<device, node, cached, peers, todo, changes>>
    PROVE  Steady /\ HandInv' /\ \A n \in Counts : OnTrack(n) => OnTrack(n)'
<1> DEFINE t == tasks[w]
           m == Current(t)
           place == t.at[m]
           u == tasks'[w]
           map == Marked(copies[m][place], network, bgp)
           own == Marked(t.own, network, bgp)
<1>1. /\ t \in Task /\ HandOK(t) /\ m \in t.left /\ m \in Nodes /\ place \in Places /\ t.left # {}
      /\ copies \in [Nodes -> [Places -> Object]] /\ tasks \in [Workers -> Task] /\ Enabled(t) /\ Filled(t)
  BY TypeIs, InHand DEF IInv, TrackInv, HandInv
<1>2. copies[m][place] \in Object /\ t.own \in Object
  BY <1>1 DEF Task
<1>3. /\ map \in Object /\ map.provider = copies[m][place].provider
      /\ map.network <=> copies[m][place].network \/ network
      /\ own \in Object /\ (t.own # NoNode => own # NoNode)
      /\ own.network <=> t.own.network \/ network
  <2> HIDE DEF m, place, t
  <2> QED BY <1>2, MarkedType
<1>4. \/ /\ t.own # NoNode /\ u = [t EXCEPT !.pc = pc, !.own = own] /\ copies' = copies
      \/ /\ t.own = NoNode /\ u = [t EXCEPT !.pc = pc] /\ copies' = [copies EXCEPT ![m][place] = map]
  BY <1>1 DEF Write, Become
<1>5. \A v \in Workers \ {w} : tasks'[v] = tasks[v]
  BY <1>1 DEF Write, Become
<1>6. /\ \A n \in Nodes \ {m} : copies'[n] = copies[n]
      /\ \A p \in Places : p # place => copies'[m][p] = copies[m][p]
      /\ copies'[m][place] \in {copies[m][place], map}
      /\ t.own = NoNode => copies'[m][place] = map
  <2> HIDE DEF m, place, map, own
  <2> QED BY <1>1, <1>4
<1>7. /\ u \in Task /\ u.pc = pc /\ u.left = t.left /\ u.got = t.got /\ u.at = t.at
      /\ u.own = IF t.own # NoNode THEN own ELSE NoNode
  <2> HIDE DEF own, map, u, t, m
  <2>1. pc \in Steps
    BY DEF Steps
  <2>2. CASE t.own # NoNode
    <3>1. u = [t EXCEPT !.pc = pc, !.own = own]
      BY <1>4, <2>2
    <3> QED BY <1>1, <1>3, <2>1, <2>2, <3>1 DEF Task
  <2>3. CASE t.own = NoNode
    <3>1. u = [t EXCEPT !.pc = pc]
      BY <1>4, <2>3
    <3> QED BY <1>1, <2>1, <2>3, <3>1 DEF Task
  <2> QED BY <2>2, <2>3
<1>8. tasks' = [tasks EXCEPT ![w] = u] /\ Current(u) = m
  <2>1. tasks' = [tasks EXCEPT ![w] = u]
    BY <1>1 DEF Write, Become
  <2> HIDE DEF u
  <2> QED BY <2>1, <1>7 DEF Current
<1>9. Steady
  <2> HIDE DEF m, place, map
  <2>1. \A n \in Nodes : \A p \in Places : copies'[n][p].provider = copies[n][p].provider
                                           /\ (copies[n][p].network => copies'[n][p].network)
    BY <1>3, <1>6
  <2> QED BY <2>1 DEF Steady
<1>10. HandInv'
  <2>1. Moves(w)
    BY <1>5 DEF Moves
  <2>2. Enabled(tasks[w])'
    <3>1. device[m].id # 0 /\ Held(t).provider = device[m].id => device[m].session
      BY <1>1 DEF Enabled
    <3>2. Held(tasks[w])'.provider = Held(t).provider
      <4> HIDE DEF map
      <4> QED BY <1>1, <1>3, <1>6, <1>7, <1>8 DEF Held
    <3> QED BY <1>8, <3>1, <3>2 DEF Enabled
  <2>3. Filled(tasks[w])'
    <3>1. t.pc = "bgp" => IF t.own # NoNode THEN t.own.network ELSE copies[m][place].network
      BY <1>1 DEF Filled, Held
    <3>2. IF u.own # NoNode THEN u.own.network ELSE copies'[m][place].network
      <4> HIDE DEF map, own, m, place, t, u
      <4> QED BY <1>3, <1>6, <1>7, <3>1 DEF t
    <3>3. Held(tasks[w])' = copies'[m][place]
      BY <1>7, <1>8 DEF Held
    <3> QED BY <3>2, <3>3 DEF Filled
  <2> QED BY <1>9, <2>1, <2>2, <2>3, HandKept DEF TrackInv
<1>11. ASSUME NEW n \in Counts, OnTrack(n) PROVE OnTrack(n)'
  <2>1. ASSUME n = m, Mine(t, n) PROVE NoteTrack(n)'
    <3>1. Mine(tasks[w], n)'
      BY <1>1, <1>7, <1>9, <2>1 DEF Mine, Steady
    <3>2. Writing(tasks[w], n)'
      BY <1>7, <1>8, <2>1, <3>1 DEF Writing
    <3> QED BY <3>2 DEF NoteTrack
  <2>2. PICK x \in Task : x = u
    BY <1>7
  <2>3. Become(w, x)
    BY <1>8, <2>2 DEF Become
  <2> HIDE DEF u, m, place, map, own
  <2>4. n = m => \A p \in Places : p # t.at[n] => copies'[n][p] = copies[n][p]
    BY <1>6 DEF place
  <2>5. t.pc # "idle" /\ x.pc # "idle" /\ x.left = t.left /\ x.got = t.got /\ x.at = t.at
    BY <1>7, <2>2
  <2>6. \A k \in Nodes \ {Current(tasks[w])} : copies'[k] = copies[k]
    BY <1>6 DEF m
  <2> QED BY <1>1, <1>9, <1>11, <2>1, <2>3, <2>4, <2>5, <2>6, HereKept DEF m
<1> QED BY <1>9, <1>10, <1>11

LEMMA GetNetworkTrack ==
    ASSUME IInv, TrackInv, NEW w \in Workers, GetNetwork(w)
    PROVE  Steady /\ HandInv' /\ Following
<1> DEFINE t == tasks[w]
           m == Current(t)
           there == device[m].id = Held(t).provider
<1>1. /\ t.left # {} /\ t.pc = "network" /\ m \in Nodes /\ UNCHANGED <<device, node, cached, peers, changes>>
      /\ faults \in 0 .. MaxFaults
  BY TypeIs, InHand DEF IInv, GetNetwork, At
<1>2. PICK answer \in Answers(there) :
        /\ Counted(answer)
        /\ IF answer = "found" THEN Write(w, TRUE, FALSE, "bgp") /\ UNCHANGED todo
           ELSE NodeFails(w) /\ UNCHANGED copies
  BY DEF GetNetwork
<1>3. \/ answer = "found" /\ there /\ faults' = faults
      \/ answer = "404" /\ ~there /\ faults' = faults
      \/ answer \in {"500", "none"} /\ faults' = faults + 1
  <2>1. there \in BOOLEAN
    OBVIOUS
  <2> HIDE DEF there
  <2> QED BY <1>1, <1>2, <2>1, Answering
<1>4. CASE answer = "found"
  <2>1. Steady /\ HandInv' /\ \A n \in Counts : OnTrack(n) => OnTrack(n)'
    BY <1>1, <1>2, <1>4, WriteTrack
  <2> QED BY <1>3, <1>4, <2>1 DEF Following
<1>5. CASE answer # "found"
  <2>1. NodeFails(w) /\ UNCHANGED copies /\ Steady
    BY <1>1, <1>2, <1>5, SteadyWithout
  <2>2. ASSUME NEW n \in Counts, Present(n), OnTrack(n), n # m \/ answer = "404" PROVE OnTrack(n)'
    <3>1. n # m \/ ~Mine(t, n)
      BY <1>3, <2>2 DEF Present, Mine, Held
    <3> QED BY <1>1, <2>1, <2>2, <3>1, FailsKept
  <2>3. Following
    BY <1>1, <1>3, <1>5, <2>2 DEF Following
  <2> QED BY <1>1, <2>1, <2>3, FailsEmpty DEF TrackInv
<1> QED BY <1>4, <1>5

\* What makes a node's neighbours unknown: another device, or a slow node.
LEMMA UnknownIsSlow ==
    ASSUME IInv, TrackInv, NEW w \in Workers, tasks[w].pc \in {"network", "bgp", "patch", "peer"}, ~Known(w),
           NEW n \in Counts, Present(n), n = Current(tasks[w])
    PROVE  ~Mine(tasks[w], n)
<1> SUFFICES ASSUME Mine(tasks[w], n) PROVE FALSE
  OBVIOUS
<1>1. Held(tasks[w]).provider = device[n].id /\ device[n].id # 0
  BY DEF Mine, Held, Present
<1>2. device[n].session
  BY <1>1 DEF TrackInv, HandInv, Enabled
<1>3. device[n].neighbours = "full"
  BY <1>2 DEF IInv, SessionInv
<1> QED BY <1>1, <1>3 DEF Known, Neighbours

LEMMA GetPeerTrack ==
    ASSUME IInv, TrackInv, NEW w \in Workers, GetPeer(w)
    PROVE  Steady /\ HandInv' /\ Following
<1> DEFINE t == tasks[w]
           m == Current(t)
<1>1. /\ t \in Task /\ t.left # {} /\ t.pc = "bgp" /\ m \in Nodes /\ m \in t.left /\ t.at[m] \in Places
      /\ UNCHANGED <<device, node, cached, peers, changes>> /\ faults \in 0 .. MaxFaults
      /\ tasks \in [Workers -> Task] /\ Enabled(t) /\ Filled(t)
  BY TypeIs, InHand DEF IInv, GetPeer, At, TrackInv, HandInv
<1>2. PICK answer \in Answers(Known(w)) :
        /\ Counted(answer)
        /\ IF answer # "found" THEN NodeFails(w) /\ UNCHANGED copies
           ELSE IF Neighbours(w) = "empty"
           THEN Become(w, [t EXCEPT !.pc = "patch"]) /\ UNCHANGED <<copies, todo>>
           ELSE Write(w, FALSE, TRUE, "patch") /\ UNCHANGED todo
  BY DEF GetPeer
<1>3. \/ answer = "found" /\ Known(w) /\ faults' = faults
      \/ answer = "404" /\ ~Known(w) /\ faults' = faults
      \/ answer \in {"500", "none"} /\ faults' = faults + 1
  BY <1>1, <1>2, Answering DEF Known
<1>4. CASE answer = "found" /\ Neighbours(w) # "empty"
  <2>1. Steady /\ HandInv' /\ \A n \in Counts : OnTrack(n) => OnTrack(n)'
    BY <1>1, <1>2, <1>4, WriteTrack
  <2> QED BY <1>3, <1>4, <2>1 DEF Following
<1>5. CASE answer = "found" /\ Neighbours(w) = "empty"
  <2> DEFINE u == [t EXCEPT !.pc = "patch"]
  <2>1. Become(w, u) /\ UNCHANGED <<copies, todo>> /\ faults' = faults /\ Steady
    BY <1>1, <1>2, <1>3, <1>5, SteadyWithout
  <2>2. /\ u \in Task /\ u.pc = "patch" /\ u.left = t.left /\ u.got = t.got /\ u.at = t.at /\ u.own = t.own
        /\ Current(u) = m
    BY <1>1 DEF Task, Steps, Current
  <2> HIDE DEF u
  <2>3. tasks'[w] = u /\ Moves(w)
    BY <1>1, <2>1 DEF Become, Moves
  <2>4. Enabled(tasks[w])' /\ Filled(tasks[w])'
    <3>1. Held(tasks[w])' = Held(t)
      BY <2>1, <2>2, <2>3 DEF Held
    <3> QED BY <1>1, <2>2, <2>3, <3>1 DEF Enabled, Filled
  <2>5. ASSUME NEW n \in Counts, OnTrack(n) PROVE OnTrack(n)'
    <3>1. ASSUME n = m, Mine(t, n) PROVE NoteTrack(n)'
      <4>1. Writing(tasks[w], n)'
        <5> HIDE DEF t, m
        <5> QED BY <1>1, <2>1, <2>2, <2>3, <3>1 DEF Writing, Mine
      <4> QED BY <4>1 DEF NoteTrack
    <3> HIDE DEF t, m
    <3>2. /\ tasks[w].pc # "idle" /\ tasks[w].left # {} /\ u.pc # "idle"
          /\ u.left = tasks[w].left /\ u.got = tasks[w].got /\ u.at = tasks[w].at
      BY <1>1, <2>2 DEF t
    <3>3. n = Current(tasks[w]) =>
             /\ \A p \in Places : p # tasks[w].at[n] => copies'[n][p] = copies[n][p]
             /\ Mine(tasks[w], n) /\ (Writing(tasks[w], n) \/ Honest(n)) => NoteTrack(n)'
      BY <2>1, <3>1 DEF t, m
    <3> QED BY <2>1, <2>2, <2>5, <3>2, <3>3, HereKept
  <2> QED BY <2>1, <2>3, <2>4, <2>5, HandKept DEF Following, TrackInv
<1>6. CASE answer # "found"
  <2>1. NodeFails(w) /\ UNCHANGED copies /\ Steady
    BY <1>1, <1>2, <1>6, SteadyWithout
  <2>2. ASSUME NEW n \in Counts, Present(n), OnTrack(n), n # m \/ answer = "404" PROVE OnTrack(n)'
    <3>1. n # m \/ ~Mine(t, n)
      BY <1>1, <1>3, <2>2, UnknownIsSlow
    <3> QED BY <1>1, <2>1, <2>2, <3>1, FailsKept
  <2>3. Following
    BY <1>1, <1>3, <1>6, <2>2 DEF Following
  <2> QED BY <1>1, <2>1, <2>3, FailsEmpty DEF TrackInv
<1> QED BY <1>4, <1>5, <1>6

\* Whether or not the answer arrives, a patch that is made has both annotations.
LEMMA PatchNodeTrack ==
    ASSUME IInv, TrackInv, NEW w \in Workers, PatchNode(w)
    PROVE  Steady /\ HandInv' /\ Following
<1> DEFINE t == tasks[w]
           m == Current(t)
           map == IF t.own # NoNode THEN t.own ELSE Held(t)
           new == Marked(node[m], map.network, map.bgp)
<1>1. /\ t \in Task /\ t.left # {} /\ t.pc = "patch" /\ m \in Nodes /\ m \in t.left /\ t.at[m] \in Places
      /\ UNCHANGED <<device, copies, cached, peers, changes>> /\ faults \in 0 .. MaxFaults
      /\ tasks \in [Workers -> Task] /\ Enabled(t) /\ Filled(t) /\ PatchOK(t, copies) /\ node \in [Nodes -> Object]
      /\ copies \in [Nodes -> [Places -> Object]]
  BY TypeIs, InHand DEF IInv, PatchNode, At, TrackInv, HandInv, TaskInv
<1>2. PICK answer \in Answers(Exists(m)), obeyed \in BOOLEAN :
        /\ answer = "found" => obeyed
        /\ Counted(answer)
        /\ node' = IF obeyed THEN [node EXCEPT ![m] = new] ELSE node
        /\ IF answer = "found" THEN Become(w, [t EXCEPT !.pc = "peer"]) /\ UNCHANGED todo ELSE NodeFails(w)
        /\ obeyed => Exists(m)
  BY DEF PatchNode
<1>3. \/ answer = "found" /\ Exists(m) /\ faults' = faults
      \/ answer = "404" /\ ~Exists(m) /\ faults' = faults
      \/ answer \in {"500", "none"} /\ faults' = faults + 1
  <2>1. Exists(m) \in BOOLEAN
    BY DEF Exists
  <2> QED BY <1>1, <1>2, <2>1, Answering
<1>4. map \in Object /\ map.network /\ (m \notin Slow => map.bgp)
  <2>1. Held(t) \in Object /\ t.own \in Object
    BY <1>1 DEF Held, Task
  <2> QED BY <1>1, <2>1 DEF PatchOK, Filled, Held
<1>5. /\ new \in Object /\ new.network /\ (m \notin Slow => new.bgp) /\ new.provider = node[m].provider
      /\ node[m] # NoNode => new # NoNode
      /\ node[m].bgp => new.bgp
  <2> DEFINE network == map.network
             bgp == map.bgp
  <2>1. network \in BOOLEAN /\ bgp \in BOOLEAN /\ node[m] \in Object /\ network /\ (m \notin Slow => bgp)
    BY <1>1, <1>4 DEF Object
  <2> HIDE DEF network, bgp, map, m
  <2>2. /\ Marked(node[m], network, bgp) \in Object
        /\ Marked(node[m], network, bgp).bgp <=> (node[m].bgp \/ bgp)
        /\ Marked(node[m], network, bgp).network <=> (node[m].network \/ network)
        /\ Marked(node[m], network, bgp).provider = node[m].provider
        /\ node[m] # NoNode => Marked(node[m], network, bgp) # NoNode
    BY <2>1, MarkedType
  <2> QED BY <2>1, <2>2 DEF network, bgp
<1>6. /\ \A n \in Nodes \ {m} : node'[n] = node[n]
      /\ node'[m] = IF obeyed THEN new ELSE node[m]
      /\ obeyed => node[m] # NoNode
  <2> HIDE DEF new, m
  <2> QED BY <1>1, <1>2 DEF Exists
<1>7. Steady
  <2> HIDE DEF new, m, t, map
  <2>1. \A n \in Nodes : /\ node'[n].provider = node[n].provider /\ (node[n] = NoNode <=> node'[n] = NoNode)
                         /\ node[n].network => node'[n].network
                         /\ node[n].bgp => node'[n].bgp
    BY <1>1, <1>5, <1>6
  <2> QED BY <1>1, <2>1 DEF Steady
<1>8. CASE answer = "found"
  <2> DEFINE u == [t EXCEPT !.pc = "peer"]
  <2>1. Become(w, u) /\ UNCHANGED <<copies, todo>> /\ faults' = faults /\ obeyed
    BY <1>1, <1>2, <1>3, <1>8
  <2>2. u \in Task /\ u.pc = "peer" /\ u.left = t.left /\ u.got = t.got /\ u.at = t.at /\ Current(u) = m
    BY <1>1 DEF Task, Steps, Current
  <2> HIDE DEF u
  <2>3. tasks'[w] = u /\ Moves(w)
    BY <1>1, <2>1 DEF Become, Moves
  <2>4. Enabled(tasks[w])' /\ Filled(tasks[w])'
    <3>1. Held(tasks[w])' = Held(t)
      BY <2>1, <2>2, <2>3 DEF Held
    <3> QED BY <1>1, <2>2, <2>3, <3>1 DEF Enabled, Filled
  <2>5. ASSUME NEW n \in Counts, OnTrack(n) PROVE OnTrack(n)'
    <3>1. ASSUME n = m PROVE NoteTrack(n)'
      BY <1>5, <1>6, <2>1, <3>1 DEF NoteTrack, Noted
    <3> HIDE DEF t, m
    <3>2. /\ tasks[w].pc # "idle" /\ tasks[w].left # {} /\ u.pc # "idle"
          /\ u.left = tasks[w].left /\ u.got = tasks[w].got /\ u.at = tasks[w].at
      BY <1>1, <2>2 DEF t
    <3>3. n = Current(tasks[w]) =>
             /\ \A p \in Places : p # tasks[w].at[n] => copies'[n][p] = copies[n][p]
             /\ Mine(tasks[w], n) /\ (Writing(tasks[w], n) \/ Honest(n)) => NoteTrack(n)'
      BY <2>1, <3>1 DEF t, m
    <3> QED BY <1>7, <2>1, <2>2, <2>5, <3>2, <3>3, HereKept
  <2> QED BY <1>7, <2>1, <2>3, <2>4, <2>5, HandKept DEF Following, TrackInv
<1>9. CASE answer # "found"
  <2>1. NodeFails(w) /\ UNCHANGED copies
    BY <1>1, <1>2, <1>9
  <2>2. ASSUME NEW n \in Counts, Present(n), OnTrack(n), n # m \/ answer = "404" PROVE OnTrack(n)'
    <3>1. n # m
      BY <1>3, <2>2 DEF Present
    <3> QED BY <1>1, <1>7, <2>1, <2>2, <3>1, FailsKept
  <2>3. Following
    BY <1>1, <1>3, <1>9, <2>2 DEF Following
  <2> QED BY <1>1, <1>7, <2>1, <2>3, FailsEmpty DEF TrackInv
<1> QED BY <1>8, <1>9

LEMMA AddPeerTrack ==
    ASSUME IInv, TrackInv, NEW w \in Workers, AddPeer(w)
    PROVE  Steady /\ HandInv' /\ Following
<1> DEFINE t == tasks[w]
           m == Current(t)
<1>1. /\ t \in Task /\ HandOK(t) /\ t.left # {} /\ t.pc = "peer" /\ m \in Nodes /\ m \in t.left
      /\ UNCHANGED <<device, node, copies, cached, peers, changes>> /\ faults \in 0 .. MaxFaults
      /\ tasks \in [Workers -> Task] /\ Steady
  BY TypeIs, InHand, SteadyWithout DEF IInv, AddPeer, At
<1>2. PICK answer \in Answers(Known(w)) :
        /\ Counted(answer)
        /\ IF answer = "found" THEN Become(w, Take(t)) /\ UNCHANGED todo ELSE NodeFails(w)
  BY DEF AddPeer
<1>3. \/ answer = "found" /\ Known(w) /\ faults' = faults
      \/ answer = "404" /\ ~Known(w) /\ faults' = faults
      \/ answer \in {"500", "none"} /\ faults' = faults + 1
  BY <1>1, <1>2, Answering DEF Known
<1>4. CASE answer = "found"
  <2> DEFINE u == Take(t)
  <2>1. Become(w, u) /\ UNCHANGED todo /\ faults' = faults
    BY <1>2, <1>3, <1>4
  <2>2. /\ u \in Task /\ u.pc = "enable" /\ u.left = t.left \ {m} /\ u.got = t.got \union {m}
        /\ \A n \in Nodes : u.at[n] = IF n = m THEN 0 ELSE t.at[n]
    <3> HIDE DEF t
    <3>1. /\ Skip(t) \in Task /\ Skip(t).pc = "enable" /\ Skip(t).left = t.left \ {m} /\ Skip(t).got = t.got
          /\ \A n \in Nodes : Skip(t).at[n] = IF n = m THEN 0 ELSE t.at[n]
      <4>1. Skip(t) \in Task
        BY <1>1, SkipType
      <4>2. Skip(t).pc = "enable" /\ Skip(t).left = t.left \ {m} /\ Skip(t).got = t.got
        BY <1>1 DEF Skip, Task
      <4>3. \A n \in Nodes : Skip(t).at[n] = IF n = m THEN 0 ELSE t.at[n]
        BY <1>1 DEF Skip, Task
      <4> QED BY <4>1, <4>2, <4>3
    <3>2. u = [Skip(t) EXCEPT !.got = @ \union {m}]
      BY DEF Take
    <3> HIDE DEF m
    <3> QED BY <1>1, <3>1, <3>2 DEF Task
  <2> HIDE DEF u
  <2>3. tasks'[w] = u /\ (\A v \in Workers \ {w} : tasks'[v] = tasks[v]) /\ Moves(w)
    BY <1>1, <2>1 DEF Become, Moves
  <2>4. HandInv'
    <3>1. Enabled(tasks[w])' /\ Filled(tasks[w])'
      BY <2>2, <2>3 DEF Enabled, Filled
    <3> QED BY <1>1, <2>3, <3>1, HandKept DEF TrackInv
  <2>5. ASSUME NEW n \in Counts, OnTrack(n) PROVE OnTrack(n)'
    <3>1. CASE n # m
      BY <1>1, <2>1, <2>2, <2>5, <3>1, SideKept
    <3>2. CASE n = m
      <4>1. Honest(n) => Honest(n)'
        <5>1. \A v \in Workers : tasks'[v].at[n] \in {tasks[v].at[n], 0, cached[n]}
          BY <2>2, <2>3
        <5> QED BY <1>1, <5>1, HonestKept
      <4>2. PeerTrack(n)'
        BY <2>2, <2>3, <3>2 DEF PeerTrack, Listed
      <4>3. ~Writing(tasks[w], n) /\ ~Waits(tasks[w], n)
        BY <1>1, <3>2 DEF Writing, Waits
      <4>4. Honest(n) /\ w \in todo => NoteTrack(n)'
        BY <2>1, <4>1 DEF NoteTrack
      <4> QED BY <1>1, <2>3, <2>5, <4>1, <4>2, <4>3, <4>4, TrackKept
    <3> QED BY <3>1, <3>2
  <2> QED BY <1>1, <2>1, <2>4, <2>5 DEF Following
<1>5. CASE answer # "found"
  <2>1. NodeFails(w)
    BY <1>2, <1>5
  <2>2. ASSUME NEW n \in Counts, Present(n), OnTrack(n), n # m \/ answer = "404" PROVE OnTrack(n)'
    <3>1. n # m \/ ~Mine(t, n)
      BY <1>1, <1>3, <2>2, UnknownIsSlow
    <3> QED BY <1>1, <2>1, <2>2, <3>1, FailsKept
  <2>3. Following
    BY <1>1, <1>3, <1>5, <2>2 DEF Following
  <2> QED BY <1>1, <2>1, <2>3, FailsEmpty DEF TrackInv
<1> QED BY <1>4, <1>5

\* The load balancer has what was taken, or the worker starts over.
LEMMA FinishTrack ==
    ASSUME IInv, TrackInv, NEW w \in Workers, Finish(w)
    PROVE  Steady /\ HandInv' /\ Following
<1> DEFINE t == tasks[w]
<1>1. /\ t.left = {} /\ t.pc = "enable" /\ UNCHANGED <<device, node, copies, cached, changes>>
      /\ faults \in 0 .. MaxFaults /\ tasks \in [Workers -> Task]
  BY TypeIs DEF IInv, Finish, At
<1>2. PICK answer \in Answers(TRUE), obeyed \in BOOLEAN :
        /\ answer = "found" => obeyed
        /\ Counted(answer)
        /\ peers' = IF obeyed THEN peers \union t.got ELSE peers
        /\ IF answer = "found" THEN Become(w, Idle) /\ UNCHANGED todo ELSE Requeue(w)
  BY DEF Finish
<1>3. \/ answer = "found" /\ faults' = faults
      \/ answer \in {"500", "none"} /\ faults' = faults + 1
  BY <1>1, <1>2, Answering
<1>4. Steady
  BY <1>1, <1>2, SteadyWithout
<1>5. HandInv'
  <2>1. tasks'[w] = Idle /\ Moves(w)
    BY <1>1, <1>2 DEF Become, Requeue, Moves
  <2>2. Enabled(tasks[w])' /\ Filled(tasks[w])'
    BY <2>1 DEF Enabled, Filled, Idle
  <2> QED BY <1>4, <2>1, <2>2, HandKept DEF TrackInv
<1>6. ASSUME NEW n \in Counts, OnTrack(n) PROVE OnTrack(n)'
  <2>1. ~Writing(t, n) /\ ~Waits(t, n)
    BY <1>1 DEF Writing, Waits
  <2>2. CASE answer = "found"
    <3>1. tasks'[w] = Idle /\ (\A v \in Workers \ {w} : tasks'[v] = tasks[v]) /\ Moves(w) /\ UNCHANGED todo
      BY <1>1, <1>2, <2>2 DEF Become, Moves
    <3>2. Honest(n) => Honest(n)'
      BY <1>1, <1>4, <3>1, HonestKept DEF Idle
    <3>3. w \in todo \/ Listed(t, n) => PeerTrack(n)'
      BY <1>1, <1>2, <2>2, <3>1 DEF PeerTrack, Listed
    <3>4. Honest(n) /\ w \in todo => NoteTrack(n)'
      BY <3>1, <3>2 DEF NoteTrack
    <3> QED BY <1>4, <1>6, <2>1, <3>1, <3>2, <3>3, <3>4, TrackKept
  <2>3. CASE answer # "found"
    BY <1>1, <1>2, <1>4, <1>6, <2>1, <2>3, RequeueKept
  <2> QED BY <2>2, <2>3
<1>7. Following
  BY <1>3, <1>6 DEF Following
<1> QED BY <1>4, <1>5, <1>7

-----------------------------------------------------------------------------
(* The other steps keep the nodes on track.                                  *)

\* The invariant from what a step does to the nodes that are lost.
LEMMA LostBound ==
    ASSUME IInv, TrackInv,
           \/ faults' = faults /\ \A n \in Counts : Present(n)' /\ (Present(n) => OnTrack(n)) => OnTrack(n)'
           \/ faults' = faults + 1
              /\ \E m : \A n \in Counts \ {m} : Present(n)' /\ (Present(n) => OnTrack(n)) => OnTrack(n)'
    PROVE  Cardinality(Lost') <= faults'
<1>1. IsFiniteSet(Lost) /\ Cardinality(Lost) \in Nat /\ Cardinality(Lost) <= faults /\ faults \in Nat
  <2>1. Lost \subseteq Nodes
    BY DEF Lost, Counts
  <2>2. IsFiniteSet(Lost)
    BY <2>1, NodesAssumption, FS_Subset
  <2>3. faults \in Nat
    BY BoundsAssumption, TypeIs DEF IInv
  <2> QED BY <2>2, <2>3, FS_CardinalityType DEF TrackInv
<1>2. CASE faults' = faults /\ \A n \in Counts : Present(n)' /\ (Present(n) => OnTrack(n)) => OnTrack(n)'
  <2>1. Lost' \subseteq Lost
    BY <1>2 DEF Lost, Counts
  <2>2. Cardinality(Lost') <= Cardinality(Lost) /\ Cardinality(Lost') \in Nat
    BY <1>1, <2>1, FS_Subset, FS_CardinalityType
  <2> QED BY <1>1, <1>2, <2>2
<1>3. ASSUME faults' = faults + 1, NEW m,
             \A n \in Counts \ {m} : Present(n)' /\ (Present(n) => OnTrack(n)) => OnTrack(n)'
      PROVE  Cardinality(Lost') <= faults'
  <2>1. Lost' \subseteq Lost \union {m}
    BY <1>3 DEF Lost, Counts
  <2>2. IsFiniteSet(Lost \union {m}) /\ Cardinality(Lost \union {m}) <= Cardinality(Lost) + 1
    BY <1>1, FS_AddElement
  <2>3. Cardinality(Lost') <= Cardinality(Lost \union {m})
    BY <2>1, <2>2, FS_Subset
  <2>4. Cardinality(Lost') \in Nat /\ Cardinality(Lost \union {m}) \in Nat
    BY <2>1, <2>2, FS_Subset, FS_CardinalityType
  <2> QED BY <1>1, <1>3, <2>2, <2>3, <2>4
<1> QED BY <1>2, <1>3

LEMMA AgeKept == ASSUME IInv, AgeInv, Steady PROVE AgeInv'
BY DEF AgeInv, Steady

LEMMA FollowingKept ==
    ASSUME IInv, TrackInv, Steady, HandInv', Following
    PROVE  TrackInv'
<1>1. \A n \in Nodes : Present(n)' => Present(n)
  BY DEF Present, Exists, Steady
<1>2. Cardinality(Lost') <= faults'
  BY <1>1, LostBound DEF Following
<1> QED BY <1>2, AgeKept DEF TrackInv

\* A new process has every worker and every Node before it.
LEMMA RestartTrack ==
    ASSUME IInv, TrackInv, IInv', Restart, UNCHANGED <<node, changes>>, faults' = faults + 1,
           \A n \in Nodes : device'[n].id = device[n].id
    PROVE  TrackInv'
<1>0. /\ device \in [Nodes -> Device] /\ node \in [Nodes -> Object] /\ changes \in Nat
      /\ \A n \in Nodes : device[n].id \in Nat /\ node[n].provider \in Int
  <2>1. device \in [Nodes -> Device] /\ node \in [Nodes -> Object] /\ changes \in Nat
    BY TypeIs, BoundsAssumption DEF IInv
  <2> QED BY <2>1, BoundsAssumption DEF Device, DeviceIds, Object
<1>1. /\ tasks' = [w \in Workers |-> Idle] /\ todo' = Workers
      /\ copies' = [n \in Nodes |-> [p \in Places |-> IF p = 1 THEN node[n] ELSE NoNode]]
      /\ cached' = [n \in Nodes |-> IF node[n] # NoNode THEN 1 ELSE 0]
  BY DEF Restart
<1>2. ASSUME NEW n \in Counts, Present(n)' PROVE OnTrack(n)'
  <2>1. PeerTrack(n)'
    BY <1>1 DEF PeerTrack, Workers
  <2>2. NoteTrack(n)'
    <3>1. CASE node[n].network
      BY <3>1 DEF IInv, WholeAnnotations, NoteTrack, Noted
    <3>2. CASE ~node[n].network
      <4>1. \A q \in Places : ~copies'[n][q].network
        BY <1>1, <3>2 DEF NoNode, Node
      <4>2. Honest(n)'
        BY <4>1 DEF Honest
      <4> QED BY <1>1, <4>2 DEF NoteTrack, Workers
    <3> QED BY <3>1, <3>2
  <2> QED BY <2>1, <2>2 DEF OnTrack
<1>3. Cardinality(Lost') <= faults'
  BY <1>2, LostBound
<1>4. AgeInv'
  <2>1. ASSUME NEW n \in Nodes, NEW p \in Places
        PROVE  /\ copies'[n][p].provider <= changes + 1
               /\ device[n].id # 0 /\ copies'[n][p].provider = device[n].id => node[n].provider = device[n].id
    <3>1. copies'[n][p] \in {node[n], NoNode}
      BY <1>1
    <3> QED BY <1>0, <3>1 DEF NoNode, Node, TrackInv, AgeInv
  <2> QED BY <2>1 DEF TrackInv, AgeInv
<1>5. HandInv'
  <2>1. \A w \in Workers : tasks'[w].pc = "idle"
    BY <1>1 DEF Idle
  <2> QED BY <2>1 DEF HandInv, Enabled, Filled
<1> QED BY <1>3, <1>4, <1>5 DEF TrackInv

\* What does not concern a node leaves it where it is.
LEMMA Untouched ==
    ASSUME IInv, NEW n \in Nodes, device'[n].id = device[n].id, node'[n] = node[n], copies'[n] = copies[n],
           cached'[n] = cached[n], UNCHANGED <<peers, tasks>>, todo \subseteq todo'
    PROVE  (Present(n)' <=> Present(n)) /\ (OnTrack(n) => OnTrack(n)')
<1>1. Present(n)' <=> Present(n)
  BY DEF Present, Exists
<1>2. \A w \in Workers : /\ tasks'[w] = tasks[w] /\ (w \in todo => w \in todo')
                         /\ Writing(tasks[w], n)' <=> Writing(tasks[w], n)
                         /\ Waits(tasks[w], n)' <=> Waits(tasks[w], n)
                         /\ Listed(tasks[w], n)' <=> Listed(tasks[w], n)
  BY DEF Writing, Waits, Listed, Mine
<1>3. (Pending(n)' <=> Pending(n)) /\ (Noted(n)' <=> Noted(n)) /\ (Honest(n)' <=> Honest(n))
  BY DEF Pending, Noted, Honest, Used
<1>4. PeerTrack(n) => PeerTrack(n)'
  BY <1>2, <1>3 DEF PeerTrack, Workers
<1>5. NoteTrack(n) => NoteTrack(n)'
  BY <1>2, <1>3 DEF NoteTrack
<1> QED BY <1>1, <1>4, <1>5 DEF OnTrack

\* The informer puts a new copy beside those in the workers' hands.
LEMMA RefreshIs ==
    ASSUME TypeOK, NEW n \in Nodes, Refresh(n)
    PROVE  \E place \in Places :
              /\ \A w \in Workers : tasks[w].at[n] # place
              /\ cached'[n] = IF Exists(n) THEN place ELSE 0
              /\ \A m \in Nodes \ {n} : cached'[m] = cached[m] /\ copies'[m] = copies[m]
              /\ copies'[n][place] = node[n]
              /\ \A p \in Places \ {place} :
                    copies'[n][p] = IF p \in {tasks[w].at[n] : w \in Workers} THEN copies[n][p] ELSE NoNode
<1> DEFINE Fit(p) == p \notin Used(n) \/ (p = cached[n] /\ \A w \in Workers : tasks[w].at[n] # p)
           place == CHOOSE p \in Places : Fit(p)
           row == [p \in Places |-> IF p = place THEN node[n]
                                    ELSE IF p \in {tasks[w].at[n] : w \in Workers} THEN copies[n][p] ELSE NoNode]
<1>1. /\ cached' = [cached EXCEPT ![n] = IF Exists(n) THEN place ELSE 0]
      /\ copies' = [copies EXCEPT ![n] = row]
      /\ cached \in [Nodes -> Places \union {0}] /\ copies \in [Nodes -> [Places -> Object]]
  BY TypeIs DEF Refresh
<1>2. place \in Places /\ Fit(place)
  <2>1. \E p \in Places : Fit(p)
    BY PlaceLeft
  <2> HIDE DEF Fit
  <2> QED BY <2>1
<1>3. \A w \in Workers : tasks[w].at[n] # place
  BY <1>2 DEF Used
<1>4. copies'[n] = row /\ \A m \in Nodes \ {n} : cached'[m] = cached[m] /\ copies'[m] = copies[m]
  <2> HIDE DEF row, place
  <2> QED BY <1>1
<1>5. cached'[n] = IF Exists(n) THEN place ELSE 0
  <2> HIDE DEF place
  <2> QED BY <1>1
<1> HIDE DEF place
<1>6. copies'[n][place] = node[n] /\ \A p \in Places \ {place} :
                    copies'[n][p] = IF p \in {tasks[w].at[n] : w \in Workers} THEN copies[n][p] ELSE NoNode
  BY <1>2, <1>4
<1> QED BY <1>2, <1>3, <1>4, <1>5, <1>6

LEMMA RefreshTrack ==
    ASSUME IInv, TrackInv, NEW n \in Nodes, Refresh(n)
    PROVE  TrackInv'
<1>1. /\ UNCHANGED <<device, node, peers, tasks, faults, changes>> /\ todo \subseteq todo' /\ TypeOK /\ changes \in Nat
      /\ device \in [Nodes -> Device] /\ node \in [Nodes -> Object] /\ cached \in [Nodes -> Places \union {0}]
  BY TypeIs, BoundsAssumption DEF IInv, Refresh
<1>2. PICK place \in Places :
        /\ \A w \in Workers : tasks[w].at[n] # place
        /\ cached'[n] = IF Exists(n) THEN place ELSE 0
        /\ \A m \in Nodes \ {n} : cached'[m] = cached[m] /\ copies'[m] = copies[m]
        /\ copies'[n][place] = node[n]
        /\ \A p \in Places \ {place} :
              copies'[n][p] = IF p \in {tasks[w].at[n] : w \in Workers} THEN copies[n][p] ELSE NoNode
  BY <1>1, RefreshIs
<1>3. \A w \in Workers : tasks[w].at[n] \in Places => copies'[n][tasks[w].at[n]] = copies[n][tasks[w].at[n]]
  BY <1>2
<1>4. AgeInv'
  <2>1. ASSUME NEW m \in Nodes, NEW p \in Places
        PROVE  /\ copies'[m][p].provider <= changes + 1
               /\ device[m].id # 0 /\ copies'[m][p].provider = device[m].id => node[m].provider = device[m].id
    <3>1. copies'[m][p] \in {copies[m][p], node[m], NoNode}
      BY <1>2
    <3>2. device[m].id \in Nat
      BY <1>1, BoundsAssumption DEF Device, DeviceIds
    <3> QED BY <1>1, <3>1, <3>2 DEF NoNode, Node, TrackInv, AgeInv
  <2> QED BY <1>1, <2>1 DEF TrackInv, AgeInv
<1>5. HandInv'
  <2>1. ASSUME NEW w \in Workers, tasks[w].pc \notin {"idle", "enable"} PROVE Held(tasks[w])' = Held(tasks[w])
    <3>1. Current(tasks[w]) \in Nodes /\ tasks[w].at[Current(tasks[w])] \in Places
      BY <2>1, InHand
    <3> QED BY <1>1, <1>2, <1>3, <3>1 DEF Held
  <2> QED BY <1>1, <2>1 DEF TrackInv, HandInv, Enabled, Filled
<1>6. ASSUME n \in Counts, Present(n), OnTrack(n) PROVE OnTrack(n)'
  <2>1. cached'[n] = place /\ ~Pending(n)'
    <3>1. place # 0 /\ Exists(n)
      BY <1>6 DEF Places, Present
    <3>2. cached'[n] = place /\ copies'[n][place] = node'[n]
      BY <1>1, <1>2, <3>1
    <3> QED BY <3>1, <3>2 DEF Pending
  <2>2. Pending(n) => "nodes" \in todo'
    <3>1. node[n].provider # -1 /\ NoNode.provider = -1
      <4>1. device[n].id \in Nat /\ node[n].provider = device[n].id
        BY <1>1, <1>6, BoundsAssumption DEF Device, DeviceIds, Present
      <4> QED BY <4>1 DEF NoNode, Node
    <3>2. ASSUME Pending(n)
          PROVE  Relevant(IF cached[n] = 0 THEN NoNode ELSE copies[n][cached[n]], node[n])
      BY <3>1, <3>2 DEF Pending, Relevant
    <3> QED BY <3>2 DEF Refresh
  <2>3. ASSUME NEW w \in Workers, n \in tasks[w].left
        PROVE  tasks[w].at[n] \in Places /\ (Mine(tasks[w], n) => Mine(tasks[w], n)')
    BY <1>1, <1>3, <2>3, InHand DEF Mine
  <2>4. ASSUME NEW w \in Workers
        PROVE  /\ w \in todo => w \in todo'
               /\ Listed(tasks[w], n) => Listed(tasks[w], n)'
               /\ Waits(tasks[w], n) => Waits(tasks[w], n)'
               /\ Writing(tasks[w], n) => Writing(tasks[w], n)'
    <3>1. Writing(tasks[w], n) => n \in tasks[w].left
      BY InHand DEF Writing
    <3> QED BY <1>1, <2>3, <3>1 DEF Listed, Waits, Writing
  <2>5. PeerTrack(n)'
    BY <1>1, <1>6, <2>2, <2>4 DEF OnTrack, PeerTrack, Workers
  <2>6. NoteTrack(n)'
    <3>1. CASE node[n].network
      BY <1>1, <1>6, <3>1 DEF IInv, WholeAnnotations, NoteTrack, Noted
    <3>2. CASE ~node[n].network
      <4>1. Honest(n) => Honest(n)'
        <5> SUFFICES ASSUME Honest(n), NEW q \in Places, q \in Used(n)', copies'[n][q].provider = node[n].provider,
                            copies'[n][q].network
                     PROVE  FALSE
          BY <1>1 DEF Honest
        <5>1. q # place
          BY <1>2, <3>2
        <5>2. PICK w \in Workers : q = tasks[w].at[n]
          BY <1>1, <2>1, <5>1 DEF Used
        <5>3. copies'[n][q] = copies[n][q] /\ q \in Used(n)
          BY <1>3, <5>2 DEF Used
        <5> QED BY <5>3 DEF Honest
      <4>2. ~Noted(n)
        BY <3>2 DEF Noted
      <4>3. CASE \E w \in Workers : Writing(tasks[w], n)
        BY <2>4, <4>3 DEF NoteTrack
      <4>4. CASE Honest(n) /\ Pending(n)
        BY <2>2, <4>1, <4>4 DEF NoteTrack, Workers
      <4>5. CASE Honest(n) /\ \E w \in Workers : w \in todo \/ Waits(tasks[w], n)
        BY <2>4, <4>1, <4>5 DEF NoteTrack
      <4> QED BY <1>6, <4>2, <4>3, <4>4, <4>5 DEF OnTrack, NoteTrack
    <3> QED BY <3>1, <3>2
  <2> QED BY <2>5, <2>6 DEF OnTrack
<1>7. Present(n)' <=> Present(n)
  BY <1>1 DEF Present, Exists
<1>8. ASSUME NEW m \in Nodes \ {n} PROVE (Present(m)' <=> Present(m)) /\ (OnTrack(m) => OnTrack(m)')
  BY <1>1, <1>2, Untouched
<1>9. Cardinality(Lost') <= faults'
  BY <1>1, <1>6, <1>7, <1>8, LostBound
<1> QED BY <1>4, <1>5, <1>9 DEF TrackInv

\* The hands and the copies, when only one Node or one device changes.
LEMMA ElsewhereTrack ==
    ASSUME IInv, TrackInv, UNCHANGED <<copies, cached, peers, todo, tasks>>, faults' \in {faults, faults + 1}, NEW n \in Nodes,
           \A m \in Nodes \ {n} : device'[m].id = device[m].id /\ node'[m] = node[m],
           Present(n)' /\ (Present(n) => OnTrack(n)) => OnTrack(n)',
           AgeInv', HandInv'
    PROVE  TrackInv'
<1>1. ASSUME NEW m \in Nodes \ {n} PROVE (Present(m)' <=> Present(m)) /\ (OnTrack(m) => OnTrack(m)')
  BY Untouched
<1>2. Cardinality(Lost') <= faults'
  BY <1>1, LostBound
<1> QED BY <1>2 DEF TrackInv

\* An ID is new to all copies: the Node with the new provider ID has yet to be seen.
LEMMA InitializeNodeTrack ==
    ASSUME IInv, TrackInv, NEW n \in Nodes, InitializeNode(n)
    PROVE  TrackInv'
<1>1. /\ UNCHANGED <<device, copies, cached, peers, todo, tasks, faults, changes>> /\ device[n].id # 0
      /\ node[n].provider = 0 /\ node' = [node EXCEPT ![n].provider = device[n].id]
      /\ node \in [Nodes -> Object] /\ cached \in [Nodes -> Places \union {0}]
  BY TypeIs DEF IInv, InitializeNode, deviceByName
<1>2. /\ \A m \in Nodes \ {n} : node'[m] = node[m]
      /\ node'[n].provider = device[n].id /\ node'[n].network = node[n].network
  BY <1>1 DEF Object
<1>3. \A p \in Places : copies[n][p].provider # device[n].id
  BY <1>1 DEF TrackInv, AgeInv
<1>4. Pending(n)' /\ Honest(n)'
  BY <1>1, <1>2, <1>3 DEF Pending, Honest
<1>5. OnTrack(n)'
  BY <1>4 DEF OnTrack, PeerTrack, NoteTrack
<1>6. AgeInv'
  BY <1>1, <1>2 DEF TrackInv, AgeInv
<1>7. HandInv'
  BY <1>1 DEF TrackInv, HandInv, Enabled, Filled, Held
<1> QED BY <1>1, <1>2, <1>5, <1>6, <1>7, ElsewhereTrack

\* A new device has an ID that no copy of a Node has.
LEMMA DeviceChangesTrack ==
    ASSUME IInv, TrackInv, NEW n \in Nodes, DeviceChanges(n)
    PROVE  TrackInv'
<1>1. /\ UNCHANGED <<node, copies, cached, peers, todo, tasks, faults>> /\ changes' = changes + 1 /\ changes \in Nat
      /\ device \in [Nodes -> Device] /\ node \in [Nodes -> Object] /\ copies \in [Nodes -> [Places -> Object]]
  BY TypeIs, BoundsAssumption DEF IInv, DeviceChanges, Change
<1>2. PICK id \in {0, changes + 2} : device' = [device EXCEPT ![n] = [NoDevice EXCEPT !.id = id]]
  BY DEF DeviceChanges
<1>3. device'[n].id = id /\ \A m \in Nodes \ {n} : device'[m] = device[m]
  BY <1>1, <1>2 DEF NoDevice
<1>4. \A m \in Nodes : /\ node[m].provider \in Int /\ device[m].id \in Int
                       /\ \A p \in Places : copies[m][p].provider \in Int
  <2>1. \A o \in Object : o.provider \in Int
    BY BoundsAssumption DEF Object, DeviceIds
  <2>2. \A d \in Device : d.id \in Int
    BY BoundsAssumption DEF Device, DeviceIds
  <2> QED BY <1>1, <2>1, <2>2
<1>5. ~Present(n)'
  BY <1>1, <1>3, <1>4 DEF Present, TrackInv, AgeInv
<1>6. AgeInv'
  <2>1. ASSUME NEW m \in Nodes
        PROVE  /\ device'[m].id <= changes + 2 /\ node[m].provider <= changes + 2
               /\ \A p \in Places :
                    /\ copies[m][p].provider <= changes + 2
                    /\ device'[m].id # 0 /\ copies[m][p].provider = device'[m].id => node[m].provider = device'[m].id
    BY <1>1, <1>3, <1>4 DEF TrackInv, AgeInv
  <2> QED BY <1>1, <2>1 DEF AgeInv
<1>7. HandInv'
  <2>1. ASSUME NEW w \in Workers, tasks[w].pc \in {"network", "bgp", "patch", "peer"},
               device'[Current(tasks[w])].id # 0, Held(tasks[w]).provider = device'[Current(tasks[w])].id
        PROVE  device'[Current(tasks[w])].session
    <3>1. Current(tasks[w]) \in Nodes /\ tasks[w].at[Current(tasks[w])] \in Places
      BY <2>1, InHand
    <3>2. Held(tasks[w]).provider <= changes + 1 /\ Held(tasks[w]).provider \in Int
      BY <1>4, <3>1 DEF Held, TrackInv, AgeInv
    <3>3. Current(tasks[w]) # n
      BY <1>1, <1>3, <2>1, <3>2
    <3> QED BY <1>3, <2>1, <3>1, <3>3 DEF TrackInv, HandInv, Enabled
  <2> QED BY <1>1, <2>1 DEF TrackInv, HandInv, Enabled, Filled, Held
<1> QED BY <1>1, <1>3, <1>5, <1>6, <1>7, ElsewhereTrack

LEMMA CheckNodeTrack ==
    ASSUME IInv, TrackInv, IInv', NEW n \in Nodes, CheckNode(n)
    PROVE  TrackInv'
<1> DEFINE there == device[n].id = node[n].provider
<1>1. /\ UNCHANGED <<device, peers, changes>> /\ faults \in 0 .. MaxFaults /\ node \in [Nodes -> Object] /\ changes \in Nat
      /\ device \in [Nodes -> Device]
  BY TypeIs, BoundsAssumption DEF IInv, CheckNode
<1>2. PICK answer \in Answers(there) :
        /\ Counted(answer)
        /\ CASE InstanceExists(answer) = "false" ->
                  node' = [node EXCEPT ![n] = NoNode] /\ UNCHANGED <<copies, cached, todo, tasks>>
             [] InstanceExists(answer) = "panic" -> UNCHANGED node /\ Restart
             [] OTHER -> UNCHANGED <<node, copies, cached, todo, tasks>>
  BY DEF CheckNode
<1>3. \/ answer = "found" /\ there /\ faults' = faults
      \/ answer = "404" /\ ~there /\ faults' = faults
      \/ answer \in {"500", "none"} /\ faults' = faults + 1
  <2>1. there \in BOOLEAN
    OBVIOUS
  <2> HIDE DEF there
  <2> QED BY <1>1, <1>2, <2>1, Answering
<1>4. CASE answer = "404"
  <2>1. node' = [node EXCEPT ![n] = NoNode] /\ UNCHANGED <<copies, cached, todo, tasks>>
    BY <1>2, <1>4 DEF InstanceExists, isNotFound
  <2>2. node'[n] = NoNode /\ \A m \in Nodes \ {n} : node'[m] = node[m]
    BY <1>1, <2>1
  <2>3. ~Present(n)'
    BY <2>2 DEF Present, Exists
  <2>4. AgeInv'
    <3>1. \A p \in Places : device[n].id # 0 => copies[n][p].provider # device[n].id
      BY <1>3, <1>4 DEF TrackInv, AgeInv
    <3>2. NoNode.provider <= changes + 1
      BY <1>1 DEF NoNode, Node
    <3> QED BY <1>1, <2>1, <2>2, <3>1, <3>2 DEF TrackInv, AgeInv
  <2>5. HandInv'
    BY <1>1, <2>1 DEF TrackInv, HandInv, Enabled, Filled, Held
  <2> QED BY <1>1, <1>3, <1>4, <2>1, <2>2, <2>3, <2>4, <2>5, ElsewhereTrack
<1>5. CASE answer = "none"
  <2>1. UNCHANGED node /\ Restart
    BY <1>2, <1>5 DEF InstanceExists, isNotFound
  <2> QED BY <1>1, <1>3, <1>5, <2>1, RestartTrack
<1>6. CASE answer \in {"found", "500"}
  <2>1. UNCHANGED <<node, copies, cached, todo, tasks>> /\ faults' \in {faults, faults + 1}
    BY <1>2, <1>3, <1>6 DEF InstanceExists, isNotFound
  <2>2. AgeInv' /\ HandInv'
    BY <1>1, <2>1 DEF TrackInv, AgeInv, HandInv, Enabled, Filled, Held
  <2>3. (Present(n)' <=> Present(n)) /\ (OnTrack(n) => OnTrack(n)')
    BY <1>1, <2>1, Untouched
  <2> QED BY <1>1, <2>1, <2>2, <2>3, ElsewhereTrack
<1> QED BY <1>3, <1>4, <1>5, <1>6

LEMMA TrackStep ==
    ASSUME IInv, TrackInv, IInv', [Next]_vars
    PROVE  TrackInv'
<1>0. /\ device \in [Nodes -> Device] /\ node \in [Nodes -> Object] /\ changes \in Nat
  BY TypeIs, BoundsAssumption DEF IInv
<1>1. ASSUME NEW w \in Workers, Begin(w) \/ NoProviderID(w) \/ GetNetwork(w) \/ GetPeer(w) PROVE TrackInv'
  BY <1>1, BeginTrack, NoProviderIDTrack, GetNetworkTrack, GetPeerTrack, FollowingKept
<1>2. ASSUME NEW w \in Workers, PatchNode(w) \/ AddPeer(w) \/ Finish(w) PROVE TrackInv'
  BY <1>2, PatchNodeTrack, AddPeerTrack, FinishTrack, FollowingKept
<1>3. ASSUME NEW w \in Workers, EnableBGP(w) PROVE TrackInv'
  BY <1>3, EnableBGPTrack, FollowingKept, RestartTrack
<1>4. ASSUME NEW n \in Nodes, Refresh(n) \/ InitializeNode(n) \/ CheckNode(n) \/ DeviceChanges(n) PROVE TrackInv'
  BY <1>4, RefreshTrack, InitializeNodeTrack, CheckNodeTrack, DeviceChangesTrack
<1>5. ASSUME NEW n \in Nodes, Register(n) PROVE TrackInv'
  <2>1. /\ node' = [node EXCEPT ![n] = Node(0, n \notin Bare)] /\ ~Exists(n)
        /\ UNCHANGED <<device, copies, cached, peers, todo, tasks, faults, changes>>
    BY <1>5 DEF Register
  <2>2. node'[n].provider = 0 /\ \A m \in Nodes \ {n} : node'[m] = node[m]
    BY <1>0, <2>1 DEF Node
  <2>3. ~Present(n)'
    BY <2>1, <2>2 DEF Present
  <2>4. AgeInv'
    <3>1. node[n].provider = -1
      BY <2>1 DEF Exists, NoNode, Node
    <3>2. \A p \in Places : device[n].id # 0 => copies[n][p].provider # device[n].id
      <4>1. device[n].id \in Nat
        BY <1>0, BoundsAssumption DEF Device, DeviceIds
      <4> QED BY <3>1, <4>1 DEF TrackInv, AgeInv
    <3> QED BY <1>0, <2>1, <2>2, <3>2 DEF TrackInv, AgeInv
  <2>5. HandInv'
    BY <2>1 DEF TrackInv, HandInv, Enabled, Filled, Held
  <2> QED BY <2>1, <2>2, <2>3, <2>4, <2>5, ElsewhereTrack
<1>6. ASSUME NEW n \in Nodes, NeighboursAppear(n) PROVE TrackInv'
  <2>1. PICK state : device' = [device EXCEPT ![n].neighbours = state]
    BY <1>6 DEF NeighboursAppear
  <2>2. \A m \in Nodes : device'[m].id = device[m].id /\ device'[m].session = device[m].session
    BY <1>0, <2>1 DEF Device
  <2>3. UNCHANGED <<node, copies, cached, peers, todo, tasks, faults, changes>>
    BY <1>6 DEF NeighboursAppear
  <2>4. AgeInv'
    BY <2>2, <2>3 DEF TrackInv, AgeInv
  <2>5. HandInv'
    <3>1. \A w \in Workers : tasks[w].pc \in {"network", "bgp", "patch", "peer"} => Current(tasks[w]) \in Nodes
      BY InHand
    <3> QED BY <2>2, <2>3, <3>1 DEF TrackInv, HandInv, Enabled, Filled, Held
  <2>6. (Present(n)' <=> Present(n)) /\ (OnTrack(n) => OnTrack(n)')
    BY <2>2, <2>3, Untouched
  <2> QED BY <2>2, <2>3, <2>4, <2>5, <2>6, ElsewhereTrack
<1>7. ASSUME Crash \/ MapRace PROVE TrackInv'
  BY <1>7, RestartTrack DEF Crash, MapRace, Disturb
<1>8. ASSUME UNCHANGED vars PROVE TrackInv'
  <2>1. UNCHANGED <<device, node, copies, cached, peers, todo, tasks, faults, changes>>
    BY <1>8 DEF vars
  <2>2. AgeInv' /\ HandInv'
    BY <2>1 DEF TrackInv, AgeInv, HandInv, Enabled, Filled, Held
  <2>3. \A n \in Nodes : (Present(n)' <=> Present(n)) /\ (OnTrack(n) => OnTrack(n)')
    BY <2>1, Untouched
  <2>4. Cardinality(Lost') <= faults'
    BY <2>1, <2>3, LostBound
  <2> QED BY <2>2, <2>4 DEF TrackInv
<1> QED BY <1>1, <1>2, <1>3, <1>4, <1>5, <1>6, <1>7, <1>8 DEF Next

LEMMA InitTrack == Init => TrackInv
<1> SUFFICES ASSUME Init PROVE TrackInv
  OBVIOUS
<1>1. /\ \A n \in Nodes : device[n].id = IF n \in Founders THEN 1 ELSE 0
      /\ \A n \in Nodes : node[n] = IF n \in Founders THEN Node(1, n \notin Bare) ELSE NoNode
      /\ \A n \in Nodes : \A p \in Places : copies[n][p] \in {node[n], NoNode}
  BY DEF Init, NoDevice
<1>2. ASSUME NEW n \in Nodes
      PROVE  /\ ~node[n].network /\ node[n].provider \in {-1, device[n].id}
             /\ \A p \in Places : ~copies[n][p].network /\ copies[n][p].provider \in {-1, node[n].provider}
  <2>1. ~NoNode.network /\ NoNode.provider = -1
    BY DEF NoNode, Node
  <2>2. ~Node(1, n \notin Bare).network /\ Node(1, n \notin Bare).provider = 1
    BY DEF Node
  <2>3. node[n] \in {NoNode, Node(1, n \notin Bare)} /\ (node[n] # NoNode => device[n].id = 1)
    BY <1>1
  <2>4. ~node[n].network /\ node[n].provider \in {-1, device[n].id}
    BY <2>1, <2>2, <2>3
  <2> QED BY <1>1, <2>1, <2>4
<1>3. AgeInv
  <2>1. changes = 0
    BY DEF Init
  <2>2. ASSUME NEW n \in Nodes
        PROVE  device[n].id \in {0, 1}
    BY <1>1
  <2> QED BY <1>2, <2>1, <2>2 DEF AgeInv
<1>4. HandInv
  BY DEF Init, Idle, HandInv, Enabled, Filled
<1>5. ASSUME NEW n \in Counts, Present(n) PROVE OnTrack(n)
  <2>1. n \in Nodes /\ n \in Founders /\ n \notin Slow
    BY <1>1, <1>5 DEF Present, Exists, Counts
  <2>2. Honest(n)
    BY <1>2, <2>1 DEF Honest
  <2> QED BY <2>1, <2>2 DEF Init, OnTrack, PeerTrack, NoteTrack, Workers
<1>6. Lost = {}
  BY <1>5 DEF Lost
<1>7. Cardinality(Lost) <= faults
  BY <1>6, FS_EmptySet DEF Init
<1> QED BY <1>3, <1>4, <1>7 DEF TrackInv

\* At rest, a node that is on track has been served.
LEMMA TrackedIsServed ==
    ASSUME IInv, AtRest, NEW n \in Nodes, Present(n), OnTrack(n)
    PROVE  Served(n)
<1>1. ~Pending(n)
  BY DEF AtRest, Present, Pending, Relevant
<1>2. \A w \in Workers : ~Listed(tasks[w], n) /\ ~Writing(tasks[w], n) /\ ~Waits(tasks[w], n)
  BY DEF AtRest, Idle, Listed, Writing, Waits
<1>3. todo = {}
  BY DEF AtRest
<1> QED BY <1>1, <1>2, <1>3 DEF OnTrack, PeerTrack, NoteTrack, Noted, Served

-----------------------------------------------------------------------------
(* Theorems.                                                                 *)

\* The invariant the others rest on.
THEOREM Invariance == Spec => []IInv
BY InitInv, Step, PTL DEF Spec

\* Devices, Nodes, the copies in memory and the tasks keep their types.
THEOREM TypeCorrectness == Spec => []TypeOK
BY Invariance, PTL DEF IInv

\* A Node never has the annotation of the network without those of its peers, however
\* the workers share a cached object and whichever calls fail (loadbalancers.go:308-394).
THEOREM NoHalfAnnotations == Spec => []WholeAnnotations
BY Invariance, PTL DEF IInv

\* A Node is deleted only when its device is gone, whatever the API answers (devices.go:40).
THEOREM DeletedAfterItsDevice == Spec => DeletedWithItsDevice
<1>1. ASSUME IInv, [Next]_vars, NEW n \in Nodes, Exists(n), node'[n] = NoNode
      PROVE  device[n].id # node[n].provider
  <2>0. node \in [Nodes -> Object] /\ device \in [Nodes -> Device] /\ node[n] # NoNode
    BY <1>1, TypeIs DEF IInv, Exists
  <2>1. ASSUME NEW m \in Nodes, CheckNode(m) PROVE device[n].id # node[n].provider
    BY <1>1, <2>0, <2>1, CheckNodeStep
  <2>2. ASSUME NEW m \in Nodes, InitializeNode(m) PROVE FALSE
    <3>1. device[m].id \in DeviceIds /\ node' = [node EXCEPT ![m].provider = device[m].id]
      BY <2>0, <2>2 DEF InitializeNode, deviceByName, Device
    <3>2. node'[m].provider # -1 \/ n # m
      BY <2>0, <3>1 DEF DeviceIds, Object
    <3> QED BY <1>1, <2>0, <3>1, <3>2 DEF NoNode, Node, Object
  <2>3. ASSUME NEW m \in Nodes, Register(m) PROVE FALSE
    BY <1>1, <2>0, <2>3 DEF Register, NoNode, Node, Exists
  <2>4. ASSUME NEW w \in Workers, PatchNode(w) PROVE FALSE
    <3> DEFINE t == tasks[w]
               m == Current(t)
               map == IF t.own # NoNode THEN t.own ELSE Held(t)
    <3>1. t \in Task /\ HandOK(t) /\ t.left # {} /\ m \in t.left /\ m \in Nodes /\ copies \in [Nodes -> [Places -> Object]]
      BY <1>1, <2>4, TypeIs, CurrentIsLeft DEF IInv, PatchNode, TaskInv, At, HandOK
    <3>2. map \in Object
      BY <3>1 DEF Held, HandOK, Task
    <3>3. node' = node \/ node' = [node EXCEPT ![m] = Marked(@, map.network, map.bgp)]
      BY <2>4 DEF PatchNode
    <3> DEFINE network == map.network
               bgp == map.bgp
    <3>4. network \in BOOLEAN /\ bgp \in BOOLEAN
      BY <3>2 DEF Object
    <3> HIDE DEF network, bgp
    <3>5. node[m] # NoNode => Marked(node[m], network, bgp) # NoNode
      BY <2>0, <3>1, <3>4, MarkedType
    <3>6. node' = node \/ node' = [node EXCEPT ![m] = Marked(@, network, bgp)]
      BY <3>3 DEF network, bgp
    <3> QED BY <1>1, <2>0, <3>1, <3>5, <3>6
  <2>5. CASE UNCHANGED node
    BY <1>1, <2>0, <2>5
  <2>6. \/ UNCHANGED node \/ (\E w \in Workers : PatchNode(w))
        \/ \E m \in Nodes : CheckNode(m) \/ InitializeNode(m) \/ Register(m)
    <3>1. ASSUME NEW w \in Workers, EnableBGP(w) PROVE UNCHANGED node
      BY <3>1 DEF EnableBGP
    <3>2. ASSUME NEW w \in Workers,
                 Begin(w) \/ NoProviderID(w) \/ GetNetwork(w) \/ GetPeer(w) \/ AddPeer(w) \/ Finish(w)
          PROVE UNCHANGED node
      BY <3>2 DEF Begin, NoProviderID, GetNetwork, GetPeer, AddPeer, Finish
    <3>3. ASSUME NEW m \in Nodes, Refresh(m) \/ DeviceChanges(m) \/ NeighboursAppear(m) PROVE UNCHANGED node
      BY <3>3 DEF Refresh, DeviceChanges, NeighboursAppear
    <3>4. ASSUME Crash \/ MapRace \/ UNCHANGED vars PROVE UNCHANGED node
      BY <3>4 DEF Crash, MapRace, vars
    <3> QED BY <1>1, <3>1, <3>2, <3>3, <3>4 DEF Next
  <2> QED BY <2>1, <2>2, <2>3, <2>4, <2>5, <2>6
<1>2. IInv /\ [Next]_vars =>
        [\A n \in Nodes : Exists(n) /\ node'[n] = NoNode => device[n].id # node[n].provider]_vars
  BY <1>1
<1> QED BY <1>2, Invariance, PTL DEF Spec, DeletedWithItsDevice

\* At rest, each failure has left at most one node that is present and not slow without its
\* annotations or without its peer, for any number of nodes, failures and changes: addService
\* goes on without the node it fails for, and follows an update that fails
\* (loadbalancers.go:209-236, 515-533).
THEOREM FailuresLeaveOneNode == Spec => []RestsServed
<1>1. IInv /\ TrackInv => RestsServed
  <2> SUFFICES ASSUME IInv, TrackInv, AtRest
               PROVE  Cardinality({n \in Counts : Present(n) /\ ~Served(n)}) <= faults
    BY DEF RestsServed
  <2> DEFINE Left == {n \in Counts : Present(n) /\ ~Served(n)}
  <2>1. Left \subseteq Lost /\ Lost \subseteq Nodes
    BY TrackedIsServed DEF Lost, Counts
  <2>2. IsFiniteSet(Lost) /\ faults \in Nat
    BY <2>1, NodesAssumption, FS_Subset, TypeIs, BoundsAssumption DEF IInv
  <2> HIDE DEF Left
  <2>3. Cardinality(Left) <= Cardinality(Lost) /\ Cardinality(Left) \in Nat /\ Cardinality(Lost) \in Nat
    BY <2>1, <2>2, FS_Subset, FS_CardinalityType
  <2>4. Cardinality(Left) <= faults
    BY <2>2, <2>3 DEF TrackInv
  <2> QED BY <2>4 DEF Left
<1>2. IInv /\ IInv' /\ TrackInv /\ [Next]_vars => TrackInv'
  BY TrackStep
<1> QED BY <1>1, <1>2, InitTrack, Invariance, PTL DEF Spec

=============================================================================
