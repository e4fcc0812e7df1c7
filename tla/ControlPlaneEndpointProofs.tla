--------------------- MODULE ControlPlaneEndpointProofs ---------------------
(***************************************************************************)
(* Theorems about ControlPlaneEndpoint, for any set of nodes, any number   *)
(* of disturbances of any kind and either health check.  The inductive     *)
(* invariant says what the pass under way may rely on of the state it has  *)
(* read earlier, although operators and API servers have gone on since.    *)
(***************************************************************************)
EXTENDS ControlPlaneEndpoint, TLAPS

\* A filtered update is still the first event of the queue.
QueueInv == task.pc = "filterOld" => queue # <<>> /\ Head(queue).kind = "update"

\* Passes start only when both ports are known.
PortInv == task.pc \notin {"idle", "filterOld"} => PortsKnown

\* The assignments the pass has read are at most one, and still include the one
\* the manager made; once it may attach, there is none.
HolderInv ==
    /\ task.pc \in {"probe", "list", "try", "detach"} =>
         AtMostOne(task.assn) /\ assigned \ manual \subseteq task.assn
    /\ task.pc = "attach" => assigned \subseteq manual

\* The nodes up at some time since the list include those up now, and the node
\* chosen unless only the EIP answered for it.
TargetInv ==
    /\ task.pc = "try" => Up \subseteq wasUp
    /\ task.pc \in {"detach", "attach"} =>
         /\ task.target \in Nodes
         /\ task.target \in wasUp \/ task.alias = {task.target}

IInv == TypeOK /\ QueueInv /\ PortInv /\ SingleHolder /\ HolderInv /\ TargetInv

-----------------------------------------------------------------------------
(* Lemmas about the data.                                                   *)

\* An idle handler is a task.
LEMMA NoTaskType == NoTask \in Task
  BY DEF NoTask, Task

\* An event the informer accepts, or not, gives a task.
LEMMA DispatchType ==
  ASSUME NEW e \in Event, NEW old \in BOOLEAN, NEW new \in BOOLEAN
  PROVE  Dispatch(e, old, new) \in Task
  BY DEF Dispatch, Task, NoTask, Event, Snapshot

\* A filtered event starts a pass or none.
LEMMA FilterPc ==
  ASSUME FilterUpdate \/ FilterOld \/ FilterDelete
  PROVE  task'.pc \in {"idle", "filterOld", "read"}
<1>1. /\ Dispatch(Head(queue), TRUE, TRUE).pc = "read"
      /\ Dispatch(Head(queue), PortsKnown, FALSE).pc \in {"idle", "read"}
      /\ [NoTask EXCEPT !.pc = "filterOld"].pc = "filterOld"
  BY DEF Dispatch, NoTask
<1>2. CASE FilterUpdate
  <2>1. CASE PortsKnown
    <3>1. task' = Dispatch(Head(queue), TRUE, TRUE)
      BY <1>2, <2>1, Zenon DEF FilterUpdate
    <3> QED BY <1>1, <3>1
  <2>2. CASE ~PortsKnown
    <3>1. task' = [NoTask EXCEPT !.pc = "filterOld"]
      BY <1>2, <2>2, Zenon DEF FilterUpdate
    <3> QED BY <1>1, <3>1
  <2> QED BY <2>1, <2>2
<1>3. CASE FilterOld \/ FilterDelete
  <2>1. task' = Dispatch(Head(queue), PortsKnown, FALSE)
    BY <1>3, Zenon DEF FilterOld, FilterDelete
  <2> QED BY <1>1, <2>1
<1> QED BY <1>2, <1>3

\* The reservation read ends the pass, or leads to a health check or the list.
LEMMA GetReservationPc ==
  ASSUME task \in Task, GetReservation
  PROVE  task'.pc \in {"idle", "probe", "list"}
<1>1. /\ [task EXCEPT !.pc = "list", !.assn = assigned].pc = "list"
      /\ [task EXCEPT !.pc = "probe", !.assn = assigned].pc = "probe"
      /\ NoTask.pc = "idle"
  BY DEF NoTask, Task
<1>2. task' \in {[task EXCEPT !.pc = "list", !.assn = assigned],
                [task EXCEPT !.pc = "probe", !.assn = assigned], NoTask}
  BY Zenon DEF GetReservation
<1> QED BY <1>1, <1>2

\* Delivering an event keeps the queue a sequence of events.
LEMMA DeliverType ==
  ASSUME queue \in Seq(Event), NEW n \in Nodes, NEW old \in NodeObject,
         NEW new \in NodeObject, NEW kind \in {"update", "delete", "tombstone"},
         Deliver(kind, n, old, new)
  PROVE  queue' \in Seq(Event)
  BY DEF Deliver, Event, Snapshot, SnapshotOf, NodeObject

\* Delivering an event leaves the first event of a queue that has one.
LEMMA DeliverHead ==
  ASSUME queue \in Seq(Event), queue # <<>>, NEW n, NEW old, NEW new, NEW kind,
         Deliver(kind, n, old, new)
  PROVE  queue' # <<>> /\ Head(queue') = Head(queue)
  BY DEF Deliver

-----------------------------------------------------------------------------
(* Type correctness.                                                        *)

\* Every step keeps the variables in their types.
LEMMA TypeStep ==
  ASSUME IInv, [Next]_vars
  PROVE  TypeOK'
<1> USE ConfigAssumption, FaultsAssumption, PortAssumption, NoTaskType
    DEF IInv, world, metal, ports
<1>1. CASE FilterUpdate
  <2>1. Head(queue) \in Event /\ Tail(queue) \in Seq(Event)
    BY <1>1 DEF FilterUpdate, TypeOK
  <2>2. Dispatch(Head(queue), TRUE, TRUE) \in Task
    BY <2>1, DispatchType
  <2>3. [NoTask EXCEPT !.pc = "filterOld"] \in Task
    BY DEF NoTask, Task
  <2>4. task' \in Task
    BY <1>1, <2>2, <2>3 DEF FilterUpdate
  <2> QED BY <1>1, <2>1, <2>4 DEF FilterUpdate, TypeOK
<1>2. CASE FilterOld
  <2>1. Head(queue) \in Event /\ Tail(queue) \in Seq(Event)
    BY <1>2 DEF FilterOld, TypeOK, QueueInv
  <2>2. task' \in Task
    BY <1>2, <2>1, DispatchType DEF FilterOld, PortsKnown
  <2> QED BY <1>2, <2>1, <2>2 DEF FilterOld, TypeOK
<1>3. CASE FilterDelete
  <2>1. Head(queue) \in Event /\ Tail(queue) \in Seq(Event)
    BY <1>3 DEF FilterDelete, TypeOK
  <2>2. task' \in Task
    BY <1>3, <2>1, DispatchType DEF FilterDelete, PortsKnown
  <2> QED BY <1>3, <2>1, <2>2 DEF FilterDelete, TypeOK
<1>4. CASE PanicOnTombstone
  BY <1>4 DEF PanicOnTombstone, Restart, Finish, TypeOK
<1>5. CASE GetReservation
  <2>1. task \in Task /\ assigned \in SUBSET Nodes
    BY DEF TypeOK
  <2>2. /\ [task EXCEPT !.pc = "list", !.assn = assigned] \in Task
        /\ [task EXCEPT !.pc = "probe", !.assn = assigned] \in Task
    BY <2>1 DEF Task
  <2>3. task' \in Task
    BY <1>5, <2>2 DEF GetReservation
  <2> QED BY <1>5, <2>3 DEF GetReservation, TypeOK
<1>6. CASE HealthCheckPasses \/ HealthCheckFails
  BY <1>6 DEF HealthCheckPasses, HealthCheckFails, Finish, TypeOK, Task
<1>7. CASE ListCandidates
  <2>1. potentialNodes(task) \subseteq Nodes
    BY DEF potentialNodes, tryFilterSelf, tryFilterUnschedulableNodes,
           filterDeletingNodes, controlPlaneNodes
  <2>2. task' \in Task
    <3>1. task \in Task
      BY DEF TypeOK
    <3>2. \A cands \in SUBSET Nodes : \A alias \in SUBSET cands :
            [task EXCEPT !.pc = "try", !.cands = cands, !.alias = alias] \in Task
      BY <3>1 DEF Task
    <3>3. {n \in potentialNodes(task) : node[n].listed} \in SUBSET potentialNodes(task)
      OBVIOUS
    <3> QED BY <1>7, <2>1, <3>2, <3>3, Zenon DEF ListCandidates
  <2> QED BY <1>7, <2>2 DEF ListCandidates, Up, TypeOK
<1>8. ASSUME NEW n \in Nodes, CandidateAnswers(n) \/ CandidateFails(n)
      PROVE  TypeOK'
  <2>1. task \in Task
    BY DEF TypeOK
  <2>2. \A pc \in {"attach", "detach"} : \A alias \in {{}, {n}} :
          [task EXCEPT !.target = n, !.cands = {}, !.alias = alias, !.pc = pc] \in Task
    BY <2>1 DEF Task
  <2>3. [task EXCEPT !.cands = @ \ {n}, !.alias = @ \ {n}] \in Task
    BY <2>1 DEF Task
  <2>4. CASE CandidateAnswers(n)
    <3>1. CASE n \in BadProviderID
      BY <2>4, <3>1 DEF CandidateAnswers, Finish, TypeOK
    <3>2. CASE n \notin BadProviderID
      <4>1. \E pc \in {"attach", "detach"} : \E alias \in {{}, {n}} :
              task' = [task EXCEPT !.target = n, !.cands = {}, !.alias = alias, !.pc = pc]
        BY <2>4, <3>2 DEF CandidateAnswers
      <4> QED BY <2>2, <2>4, <3>2, <4>1 DEF CandidateAnswers, TypeOK
    <3> QED BY <3>1, <3>2
  <2>5. CASE CandidateFails(n)
    BY <2>3, <2>5 DEF CandidateFails, TypeOK
  <2> QED BY <1>8, <2>4, <2>5
<1>9. CASE NoCandidateLeft
  BY <1>9 DEF NoCandidateLeft, Finish, TypeOK
<1>10. CASE Detach
  BY <1>10 DEF Detach, Finish, TypeOK, Task
<1>11. CASE Attach
  BY <1>11 DEF Attach, Finish, TypeOK, TargetInv
<1>12. CASE CallFails
  BY <1>12 DEF CallFails, Disturb, Finish, TypeOK
<1>13. CASE ResponseLost
  BY <1>13 DEF ResponseLost, Disturb, Finish, TypeOK, TargetInv
<1>14. CASE ProbeTimesOut
  <2>1. task \in Task
    BY DEF TypeOK
  <2>2. \A n \in Nodes : [task EXCEPT !.cands = @ \ {n}, !.alias = @ \ {n}] \in Task
    BY <2>1 DEF Task
  <2>3. [task EXCEPT !.pc = "list"] \in Task /\ task.cands \subseteq Nodes
    BY <2>1 DEF Task
  <2>4. task' \in Task
    <3>1. \/ task' = [task EXCEPT !.pc = "list"]
          \/ \E n \in task.cands :
               task' = [task EXCEPT !.cands = @ \ {n}, !.alias = @ \ {n}]
      BY <1>14, Zenon DEF ProbeTimesOut
    <3> QED BY <2>2, <2>3, <3>1
  <2>5. faults' \in 0 .. MaxFaults
    <3>1. faults < MaxFaults /\ faults' = faults + 1
      BY <1>14, Zenon DEF ProbeTimesOut, Disturb
    <3> QED BY <3>1 DEF TypeOK
  <2>6. UNCHANGED <<server, node, metal, ports, queue, wasUp>>
    BY <1>14, Zenon DEF ProbeTimesOut
  <2> QED BY <2>4, <2>5, <2>6 DEF TypeOK
<1>15. CASE Crash
  BY <1>15 DEF Crash, Restart, Disturb, Finish, TypeOK
<1>16. CASE SyncService
  BY <1>16 DEF SyncService, TypeOK
<1>17. ASSUME NEW n \in Nodes, Resync(n) \/ RefreshAddresses(n) \/ Cordon(n)
                                \/ Uncordon(n) \/ MarkDeleting(n)
       PROVE  TypeOK'
  <2>1. PICK obj \in NodeObject : UpdateNode(n, obj)
    <3>1. /\ node[n] \in NodeObject
          /\ (n \in assigned) \in BOOLEAN
      BY DEF TypeOK
    <3>2. \A b \in BOOLEAN : /\ [node[n] EXCEPT !.listed = b] \in NodeObject
                             /\ [node[n] EXCEPT !.unsched = b] \in NodeObject
                             /\ [node[n] EXCEPT !.deleting = b] \in NodeObject
      BY <3>1 DEF NodeObject
    <3>3. CASE Resync(n)
      BY <3>1, <3>3 DEF Resync
    <3>4. CASE RefreshAddresses(n)
      BY <3>1, <3>2, <3>4 DEF RefreshAddresses
    <3>5. CASE Cordon(n) \/ Uncordon(n)
      BY <3>2, <3>5 DEF Cordon, Uncordon
    <3>6. CASE MarkDeleting(n)
      BY <3>2, <3>6 DEF MarkDeleting
    <3> QED BY <1>17, <3>3, <3>4, <3>5, <3>6
  <2>2. queue' \in Seq(Event) /\ node' \in [Nodes -> NodeObject]
    BY <2>1, DeliverType DEF UpdateNode, TypeOK
  <2>3. faults' \in 0 .. MaxFaults
    BY <1>17 DEF Resync, RefreshAddresses, Cordon, Uncordon, MarkDeleting,
                 Disturb, TypeOK
  <2> QED BY <1>17, <2>2, <2>3 DEF Resync, RefreshAddresses, Cordon, Uncordon,
                                   MarkDeleting, TypeOK
<1>18. ASSUME NEW n \in Nodes, RemoveNode(n)
       PROVE  TypeOK'
  <2>1. queue' \in Seq(Event)
    BY <1>18, DeliverType DEF RemoveNode, TypeOK
  <2> QED BY <1>18, <2>1 DEF RemoveNode, Absent, Disturb, NodeObject, TypeOK
<1>19. ASSUME NEW n \in Nodes, AddNode(n)
       PROVE  TypeOK'
  <2>1. [Absent EXCEPT !.exists = TRUE, !.listed = n \in assigned] \in NodeObject
    <3>1. (n \in assigned) \in BOOLEAN
      OBVIOUS
    <3> QED BY <3>1 DEF Absent, NodeObject
  <2> QED BY <1>19, <2>1 DEF AddNode, TypeOK
<1>20. ASSUME NEW n \in Nodes, ServerStops(n) \/ ServerStarts(n)
       PROVE  TypeOK'
  <2>1. CASE ServerStops(n)
    BY <2>1 DEF ServerStops, Disturb, TypeOK
  <2>2. CASE ServerStarts(n)
    BY <2>2 DEF ServerStarts, TypeOK
  <2> QED BY <1>20, <2>1, <2>2
<1>21. ASSUME NEW n \in Nodes, OperatorAssigns(n) \/ OperatorUnassigns(n)
       PROVE  TypeOK'
  BY <1>21 DEF OperatorAssigns, OperatorUnassigns, Disturb, TypeOK
<1>22. CASE ChangePort
  BY <1>22 DEF ChangePort, Disturb, TypeOK
<1>23. CASE UNCHANGED vars
  BY <1>23 DEF vars, TypeOK
<1> QED
  BY <1>1, <1>2, <1>3, <1>4, <1>5, <1>6, <1>7, <1>8, <1>9, <1>10, <1>11, <1>12,
     <1>13, <1>14, <1>15, <1>16, <1>17, <1>18, <1>19, <1>20, <1>21, <1>22,
     <1>23
  DEF Next, Manager, Faults, Kubernetes, World

-----------------------------------------------------------------------------
(* The rest of the invariant, a lemma for each conjunct.                    *)

\* Only the handler takes events from the queue.
LEMMA QueueStep ==
  ASSUME IInv, [Next]_vars
  PROVE  QueueInv'
<1> USE DEF IInv, QueueInv
<1>1. queue \in Seq(Event)
  BY DEF TypeOK
<1>2. CASE FilterUpdate
  <2>1. CASE PortsKnown
    <3>1. task'.pc \in {"idle", "read"}
      BY <1>2, <2>1 DEF FilterUpdate, Dispatch, NoTask
    <3> QED BY <3>1
  <2>2. CASE ~PortsKnown
    BY <1>2, <2>2 DEF FilterUpdate
  <2> QED BY <2>1, <2>2
<1>3. CASE \/ Manager /\ ~FilterUpdate
           \/ Faults
  <2>1. task'.pc # "filterOld"
    <3>1. CASE FilterOld \/ FilterDelete
      <4>1. task' = Dispatch(Head(queue), PortsKnown, FALSE)
        BY <3>1, Zenon DEF FilterOld, FilterDelete
      <4>2. Dispatch(Head(queue), PortsKnown, FALSE).pc # "filterOld"
        BY DEF Dispatch, NoTask
      <4> QED BY <4>1, <4>2
    <3>2. CASE \/ PanicOnTombstone \/ HealthCheckPasses \/ NoCandidateLeft
               \/ Attach \/ CallFails \/ ResponseLost \/ Crash
      BY <3>2 DEF PanicOnTombstone, Restart, HealthCheckPasses, NoCandidateLeft,
                  Attach, CallFails, ResponseLost, Crash, Finish, NoTask
    <3>3. task \in Task
      BY DEF TypeOK
    <3>4. CASE GetReservation \/ HealthCheckFails \/ ListCandidates \/ Detach
      <4>1. CASE GetReservation
        BY <3>3, <4>1, GetReservationPc
      <4>2. CASE HealthCheckFails \/ ListCandidates
        BY <3>3, <4>2 DEF HealthCheckFails, ListCandidates, Task
      <4>3. CASE Detach
        <5>1. task' \in {[task EXCEPT !.pc = "attach"], NoTask}
          BY <4>3, Zenon DEF Detach, Finish
        <5> QED BY <3>3, <5>1 DEF NoTask, Task
      <4> QED BY <3>4, <4>1, <4>2, <4>3
    <3>5. CASE ProbeTimesOut \/ \E n \in Nodes : CandidateAnswers(n) \/ CandidateFails(n)
      <4>1. CASE ProbeTimesOut
        <5>1. \/ task' = [task EXCEPT !.pc = "list"]
              \/ /\ task.pc = "try"
                 /\ \E n \in task.cands :
                      task' = [task EXCEPT !.cands = @ \ {n}, !.alias = @ \ {n}]
          BY <4>1 DEF ProbeTimesOut
        <5>2. /\ [task EXCEPT !.pc = "list"].pc = "list"
              /\ \A n : [task EXCEPT !.cands = @ \ {n}, !.alias = @ \ {n}].pc = task.pc
          BY <3>3 DEF Task
        <5> QED BY <5>1, <5>2
      <4>2. ASSUME NEW n \in Nodes, CandidateFails(n)
            PROVE  task'.pc # "filterOld"
        BY <3>3, <4>2 DEF CandidateFails, Task
      <4>3. ASSUME NEW n \in Nodes, CandidateAnswers(n)
            PROVE  task'.pc # "filterOld"
        <5>1. CASE n \in BadProviderID
          BY <4>3, <5>1 DEF CandidateAnswers, Finish, NoTask
        <5>2. CASE n \notin BadProviderID
          BY <3>3, <4>3, <5>2 DEF CandidateAnswers, Task
        <5> QED BY <5>1, <5>2
      <4> QED BY <3>5, <4>1, <4>2, <4>3
    <3> QED BY <1>3, <3>1, <3>2, <3>4, <3>5 DEF Manager, Faults
  <2> QED BY <2>1
<1>4. CASE SyncService \/ UNCHANGED vars
  BY <1>4 DEF SyncService, vars
<1>5. CASE Kubernetes
  <2>1. task' = task
    BY <1>5 DEF Kubernetes, Resync, RefreshAddresses, Cordon, Uncordon,
                MarkDeleting, RemoveNode, AddNode, ChangePort
  <2>2. \/ UNCHANGED queue
        \/ \E n, old, new, kind : Deliver(kind, n, old, new)
    BY <1>5 DEF Kubernetes, Resync, RefreshAddresses, Cordon, Uncordon,
                MarkDeleting, RemoveNode, AddNode, ChangePort, UpdateNode
  <2> QED BY <1>1, <2>1, <2>2, DeliverHead
<1>6. CASE World
  BY <1>6 DEF World, ServerStops, ServerStarts, OperatorAssigns, OperatorUnassigns
<1> QED BY <1>2, <1>3, <1>4, <1>5, <1>6 DEF Next

\* Passes start with known ports, and only a restart forgets them.
LEMMA PortStep ==
  ASSUME IInv, [Next]_vars
  PROVE  PortInv'
<1> USE PortAssumption DEF IInv, PortInv, PortsKnown, ports
<1>1. CASE Manager
  <2>1. CASE FilterUpdate \/ FilterOld \/ FilterDelete
    BY <2>1 DEF FilterUpdate, FilterOld, FilterDelete, Dispatch, NoTask
  <2>2. CASE PanicOnTombstone
    BY <2>2 DEF PanicOnTombstone, Restart, Finish, NoTask
  <2>3. CASE \/ GetReservation \/ HealthCheckPasses \/ HealthCheckFails
             \/ ListCandidates \/ NoCandidateLeft \/ Detach \/ Attach
             \/ \E n \in Nodes : CandidateAnswers(n) \/ CandidateFails(n)
    <3>1. /\ UNCHANGED ports
          /\ task.pc \notin {"idle", "filterOld"}
      BY <2>3 DEF GetReservation, HealthCheckPasses, HealthCheckFails,
                  ListCandidates, NoCandidateLeft, Detach, Attach,
                  CandidateAnswers, CandidateFails
    <3> QED BY <3>1
  <2> QED BY <1>1, <2>1, <2>2, <2>3 DEF Manager
<1>2. CASE CallFails \/ ResponseLost \/ ProbeTimesOut
  <2>1. /\ UNCHANGED ports
        /\ task.pc \notin {"idle", "filterOld"}
    BY <1>2 DEF CallFails, ResponseLost, ProbeTimesOut
  <2> QED BY <2>1
<1>3. CASE Crash
  BY <1>3 DEF Crash, Restart, Finish, NoTask
<1>4. CASE SyncService
  BY <1>4 DEF SyncService, TypeOK
<1>5. CASE Kubernetes \/ World \/ UNCHANGED vars
  <2>1. UNCHANGED <<apiServerPort, nodeAPIServerPort, task>>
    BY <1>5 DEF Kubernetes, Resync, RefreshAddresses, Cordon, Uncordon,
                MarkDeleting, RemoveNode, AddNode, ChangePort, World, ServerStops,
                ServerStarts, OperatorAssigns, OperatorUnassigns, vars
  <2> QED BY <2>1
<1> QED BY <1>1, <1>2, <1>3, <1>4, <1>5 DEF Next, Faults

\* The manager never makes a second assignment, and knows of the one it made.
LEMMA HolderStep ==
  ASSUME IInv, [Next]_vars
  PROVE  SingleHolder' /\ HolderInv'
<1> USE DEF IInv, SingleHolder, HolderInv, AtMostOne, metal
<1>0. task \in Task /\ assigned \in SUBSET Nodes /\ manual \subseteq assigned
  BY DEF TypeOK
<1>1. CASE FilterUpdate \/ FilterOld \/ FilterDelete
  <2>1. UNCHANGED <<assigned, manual>>
    BY <1>1 DEF FilterUpdate, FilterOld, FilterDelete
  <2> QED BY <1>1, <2>1, FilterPc
<1>2. CASE PanicOnTombstone \/ Crash
  BY <1>2 DEF PanicOnTombstone, Crash, Restart, Finish, NoTask
<1>3. CASE GetReservation
  BY <1>0, <1>3 DEF GetReservation, NoTask, Task
<1>4. CASE HealthCheckPasses \/ HealthCheckFails \/ NoCandidateLeft \/ CallFails
  BY <1>0, <1>4 DEF HealthCheckPasses, HealthCheckFails, NoCandidateLeft,
                    CallFails, Finish, NoTask, Task
<1>5. CASE ListCandidates
  BY <1>0, <1>5 DEF ListCandidates, Task
<1>6. ASSUME NEW n \in Nodes, CandidateAnswers(n)
      PROVE  SingleHolder' /\ HolderInv'
  <2>1. UNCHANGED <<assigned, manual>>
    BY <1>6 DEF CandidateAnswers
  <2>2. CASE n \in BadProviderID
    BY <1>6, <2>1, <2>2 DEF CandidateAnswers, Finish, NoTask
  <2>3. CASE n \notin BadProviderID
    <3>1. /\ task'.pc = IF task.assn = {} THEN "attach" ELSE "detach"
          /\ task'.assn = task.assn
      BY <1>0, <1>6, <2>3 DEF CandidateAnswers, Task
    <3> QED BY <1>6, <2>1, <3>1 DEF CandidateAnswers
  <2> QED BY <2>2, <2>3
<1>7. ASSUME NEW n \in Nodes, CandidateFails(n)
      PROVE  SingleHolder' /\ HolderInv'
  BY <1>0, <1>7 DEF CandidateFails, Task
<1>8. CASE Detach
  BY <1>0, <1>8 DEF Detach, Finish, NoTask, Task
<1>9. CASE Attach
  BY <1>0, <1>9 DEF Attach, Finish, NoTask
<1>10. CASE ResponseLost
  BY <1>0, <1>10 DEF ResponseLost, Finish, NoTask
<1>11. CASE ProbeTimesOut
  BY <1>0, <1>11 DEF ProbeTimesOut, Task
<1>12. CASE SyncService \/ Kubernetes \/ UNCHANGED vars
  <2>1. UNCHANGED <<assigned, manual, task>>
    BY <1>12 DEF SyncService, Kubernetes, Resync, RefreshAddresses, Cordon,
                 Uncordon, MarkDeleting, RemoveNode, AddNode, ChangePort, vars
  <2> QED BY <2>1
<1>13. CASE World
  BY <1>0, <1>13 DEF World, ServerStops, ServerStarts, OperatorAssigns,
                     OperatorUnassigns
<1> QED
  BY <1>1, <1>2, <1>3, <1>4, <1>5, <1>6, <1>7, <1>8, <1>9, <1>10, <1>11, <1>12,
     <1>13 DEF Next, Manager, Faults

\* The node chosen has been up since the candidates were listed.
LEMMA TargetStep ==
  ASSUME IInv, [Next]_vars
  PROVE  TargetInv'
<1> USE DEF IInv, TargetInv
<1>0. task \in Task /\ server \in [Nodes -> KubePorts \union {NoPort}]
  BY DEF TypeOK
<1>1. CASE FilterUpdate \/ FilterOld \/ FilterDelete
  BY <1>1, FilterPc
<1>2. CASE \/ PanicOnTombstone \/ Crash \/ HealthCheckPasses \/ NoCandidateLeft
           \/ Attach \/ CallFails \/ ResponseLost
  <2>1. task' = NoTask
    BY <1>2 DEF PanicOnTombstone, Crash, Restart, HealthCheckPasses,
                NoCandidateLeft, Attach, CallFails, ResponseLost, Finish
  <2> QED BY <2>1 DEF NoTask
<1>3. CASE GetReservation \/ HealthCheckFails
  <2>1. task'.pc \in {"idle", "list", "probe"}
    BY <1>0, <1>3, GetReservationPc DEF HealthCheckFails, Task
  <2> QED BY <2>1
<1>4. CASE ListCandidates
  BY <1>0, <1>4 DEF ListCandidates, Up, world, Task
<1>5. ASSUME NEW n \in Nodes, CandidateAnswers(n)
      PROVE  TargetInv'
  <2>1. AnswersItself(n) => n \in wasUp
    <3>1. nodeAPIServerPort # NoPort
      BY <1>5 DEF CandidateAnswers, PortInv, PortsKnown
    <3> QED BY <1>5, <3>1 DEF CandidateAnswers, AnswersItself, Up
  <2>2. CASE n \in BadProviderID
    BY <1>5, <2>2 DEF CandidateAnswers, Finish, NoTask
  <2>3. CASE n \notin BadProviderID
    <3>1. /\ task'.pc \in {"attach", "detach"}
          /\ task'.target = n
          /\ task'.alias = IF AnswersItself(n) THEN {} ELSE {n}
          /\ wasUp' = wasUp
      BY <1>0, <1>5, <2>3 DEF CandidateAnswers, Task
    <3> QED BY <2>1, <3>1
  <2> QED BY <2>2, <2>3
<1>6. ASSUME NEW n \in Nodes, CandidateFails(n)
      PROVE  TargetInv'
  BY <1>0, <1>6 DEF CandidateFails, Up, world, Task
<1>7. CASE Detach
  BY <1>0, <1>7 DEF Detach, Finish, NoTask, Task
<1>8. CASE ProbeTimesOut
  BY <1>0, <1>8 DEF ProbeTimesOut, Up, Task
<1>9. CASE SyncService \/ Kubernetes \/ UNCHANGED vars
  <2>1. UNCHANGED <<server, task, wasUp>>
    BY <1>9 DEF SyncService, Kubernetes, Resync, RefreshAddresses, Cordon,
                Uncordon, MarkDeleting, RemoveNode, AddNode, ChangePort, world, vars
  <2> QED BY <2>1 DEF Up
<1>10. CASE World
  BY <1>0, <1>10 DEF World, ServerStops, ServerStarts, OperatorAssigns,
                     OperatorUnassigns, Up
<1> QED
  BY <1>1, <1>2, <1>3, <1>4, <1>5, <1>6, <1>7, <1>8, <1>9, <1>10
  DEF Next, Manager, Faults

-----------------------------------------------------------------------------
(* The theorems.                                                            *)

\* The invariant holds when the manager starts.
LEMMA InitInv == Init => IInv
<1> SUFFICES ASSUME Init PROVE IInv
  OBVIOUS
<1>1. node \in [Nodes -> NodeObject]
  <2>1. \A n \in Nodes : (n \in assigned) \in BOOLEAN
    OBVIOUS
  <2> QED BY <2>1 DEF Init, NodeObject
<1>2. TypeOK
  BY <1>1, NoTaskType, PortAssumption, FaultsAssumption DEF Init, TypeOK
<1>3. QueueInv /\ HolderInv /\ TargetInv
  BY DEF Init, QueueInv, HolderInv, TargetInv, NoTask
<1>4. PortInv
  BY PortAssumption DEF Init, PortInv, NoTask
<1>5. SingleHolder
  BY DEF Init, SingleHolder, AtMostOne
<1> QED BY <1>2, <1>3, <1>4, <1>5 DEF IInv

\* The inductive invariant: what a pass relies on stays true between its calls,
\* whatever Kubernetes, the API servers and the operators do meanwhile.
THEOREM Invariance == Spec => []IInv
<1>1. IInv /\ [Next]_vars => IInv'
  BY TypeStep, QueueStep, PortStep, HolderStep, TargetStep DEF IInv
<1> QED BY InitInv, <1>1, PTL DEF Spec

\* Every variable keeps its type.
THEOREM TypeCorrectness == Spec => []TypeOK
<1>1. IInv => TypeOK
  BY DEF IInv
<1> QED BY Invariance, <1>1, PTL

\* The manager never assigns the EIP to a second device.
THEOREM AtMostOneHolder == Spec => []SingleHolder
<1>1. IInv => SingleHolder
  BY DEF IInv
<1> QED BY Invariance, <1>1, PTL

\* The manager assigns the EIP only to a node whose API server was up since it
\* looked for one, or to one that only the EIP answered for.
THEOREM MoveTargets == Spec => MovesToLiveServer
<1> DEFINE Move == \A n \in (assigned' \ manual') \ assigned : n \in wasUp \union task.alias
<1>1. IInv /\ [Next]_vars => [Move]_vars
  <2> SUFFICES ASSUME IInv, Next PROVE Move
    BY DEF vars
  <2> USE DEF IInv, metal
  <2>1. CASE Attach \/ ResponseLost
    BY <2>1 DEF Attach, ResponseLost, TargetInv
  <2>2. CASE Detach \/ World
    BY <2>2 DEF Detach, World, ServerStops, ServerStarts, OperatorAssigns,
                OperatorUnassigns
  <2>3. CASE \/ FilterUpdate \/ FilterOld \/ FilterDelete \/ PanicOnTombstone
             \/ GetReservation \/ HealthCheckPasses \/ HealthCheckFails
             \/ ListCandidates \/ NoCandidateLeft
             \/ \E n \in Nodes : CandidateAnswers(n) \/ CandidateFails(n)
             \/ CallFails \/ ProbeTimesOut \/ Crash \/ SyncService \/ Kubernetes
    <3>1. UNCHANGED assigned
      BY <2>3 DEF FilterUpdate, FilterOld, FilterDelete, PanicOnTombstone,
           GetReservation, HealthCheckPasses, HealthCheckFails, ListCandidates,
           NoCandidateLeft, CandidateAnswers, CandidateFails, CallFails,
           ProbeTimesOut, Crash, SyncService, Kubernetes, Resync,
           RefreshAddresses, Cordon, Uncordon, MarkDeleting, RemoveNode, AddNode,
           ChangePort
    <3> QED BY <3>1
  <2> QED BY <2>1, <2>2, <2>3 DEF Next, Manager, Faults
<1>2. Spec => [][Move]_vars
  BY Invariance, <1>1, PTL DEF Spec
<1> QED BY <1>2 DEF MovesToLiveServer

\* The manager implements the abstract specification: each of its steps is a step
\* there, or none.
THEOREM Refinement == Spec => ImplementsElasticIP
<1>1. Init => Abstract!Init
  BY DEF Init, AtMostOne, NoTask, StoodFor, Up, Abstract!Init, Abstract!AtMostOne
<1>2. IInv /\ [Next]_vars => [Abstract!Next]_(Abstract!vars)
  <2> DEFINE Stutter == UNCHANGED <<Up, assigned, manual, wasUp, StoodFor>>
  <2> SUFFICES ASSUME IInv, [Next]_vars
               PROVE  Abstract!Next \/ Stutter
    BY DEF Abstract!vars
  <2> USE DEF world, metal, Finish
  <2>0. /\ task \in Task
        /\ server \in [Nodes -> KubePorts \union {NoPort}]
        /\ manual \subseteq assigned
    BY DEF IInv, TypeOK
  <2>1. CASE SyncService \/ Kubernetes \/ UNCHANGED vars
    <3>1. UNCHANGED <<server, assigned, manual, wasUp, task>>
      BY <2>1 DEF SyncService, Kubernetes, Resync, RefreshAddresses, Cordon,
           Uncordon, MarkDeleting, RemoveNode, AddNode, ChangePort, vars
    <3> QED BY <3>1 DEF Up, StoodFor
  <2>2. CASE \/ FilterUpdate \/ FilterOld \/ FilterDelete \/ GetReservation
             \/ HealthCheckFails \/ (\E n \in Nodes : CandidateFails(n))
             \/ ProbeTimesOut
    <3>1. /\ UNCHANGED <<server, assigned, manual, wasUp>>
          /\ task.pc \notin {"detach", "attach"}
      BY <2>2 DEF FilterUpdate, FilterOld, FilterDelete, GetReservation,
           HealthCheckFails, CandidateFails, ProbeTimesOut
    <3>2. task'.pc \notin {"detach", "attach"}
      <4>1. CASE FilterUpdate \/ FilterOld \/ FilterDelete
        BY <4>1, FilterPc
      <4>2. CASE GetReservation
        BY <2>0, <4>2, GetReservationPc
      <4>3. CASE HealthCheckFails \/ (\E n \in Nodes : CandidateFails(n))
        BY <2>0, <4>3 DEF HealthCheckFails, CandidateFails, Task
      <4>4. CASE ProbeTimesOut
        BY <2>0, <4>4 DEF ProbeTimesOut, Task
      <4> QED BY <2>2, <4>1, <4>2, <4>3, <4>4
    <3> QED BY <3>1, <3>2 DEF Up, StoodFor
  <2>3. CASE \/ PanicOnTombstone \/ HealthCheckPasses \/ ListCandidates
             \/ NoCandidateLeft \/ CallFails \/ Crash
    <3>1. /\ UNCHANGED <<server, assigned, manual>>
          /\ task'.pc \notin {"detach", "attach"}
          /\ wasUp' \in {{}, Up}
      <4>1. CASE ListCandidates
        <5>1. task'.pc = "try"
          BY <2>0, <4>1 DEF ListCandidates, Task
        <5> QED BY <4>1, <5>1 DEF ListCandidates
      <4>2. CASE \/ PanicOnTombstone \/ HealthCheckPasses \/ NoCandidateLeft
                 \/ CallFails \/ Crash
        BY <4>2 DEF PanicOnTombstone, Restart, HealthCheckPasses, NoCandidateLeft,
             CallFails, Crash, NoTask
      <4> QED BY <2>3, <4>1, <4>2
    <3>2. Abstract!Search
      BY <3>1 DEF Up, StoodFor, Abstract!Search
    <3> QED BY <3>2 DEF Abstract!Next
  <2>4. ASSUME NEW n \in Nodes, CandidateAnswers(n)
        PROVE  Abstract!Next \/ Stutter
    <3>1. /\ UNCHANGED <<server, assigned, manual>>
          /\ Up' = Up
          /\ task.pc = "try"
      BY <2>4 DEF CandidateAnswers, Up
    <3>2. CASE n \in BadProviderID
      <4>1. Abstract!Search
        BY <2>4, <3>1, <3>2 DEF CandidateAnswers, NoTask, StoodFor, Abstract!Search
      <4> QED BY <4>1 DEF Abstract!Next
    <3>3. CASE n \notin BadProviderID
      <4>1. /\ task'.pc \in {"detach", "attach"}
            /\ task'.alias = IF AnswersItself(n) THEN {} ELSE {n}
            /\ wasUp' = wasUp
        BY <2>0, <2>4, <3>3 DEF CandidateAnswers, Task
      <4>2. CASE AnswersItself(n)
        BY <3>1, <4>1, <4>2 DEF StoodFor
      <4>3. CASE ~AnswersItself(n)
        <5>1. PICK s \in assigned : s \in Up
          BY <2>4, <4>3 DEF CandidateAnswers, AnswersEIP
        <5>2. StoodFor' = {n}
          BY <4>1, <4>3 DEF StoodFor
        <5>3. Abstract!StandIn(n)
          BY <3>1, <4>1, <5>1, <5>2 DEF Abstract!StandIn
        <5> QED BY <5>3 DEF Abstract!Next
      <4> QED BY <4>2, <4>3
    <3> QED BY <3>2, <3>3
  <2>5. ASSUME task.pc = "detach", task.assn \subseteq assigned, UNCHANGED server,
               assigned' = assigned \ task.assn, manual' = manual \ task.assn,
               <<wasUp', StoodFor'>> \in {<<{}, {}>>, <<wasUp, StoodFor>>}
        PROVE  Abstract!Next \/ Stutter
    <3>1. AtMostOne(task.assn) /\ task.assn \subseteq Nodes /\ Up' = Up
      BY <2>0, <2>5 DEF IInv, HolderInv, Task, Up
    <3>2. CASE task.assn = {}
      <4>1. Abstract!Search \/ Stutter
        BY <2>5, <3>1, <3>2 DEF Abstract!Search
      <4> QED BY <4>1 DEF Abstract!Next
    <3>3. CASE task.assn # {}
      <4>1. PICK n \in Nodes : task.assn = {n}
        BY <3>1, <3>3 DEF AtMostOne
      <4>2. Abstract!Release(n)
        BY <2>5, <3>1, <4>1 DEF Abstract!Release
      <4> QED BY <4>1, <4>2 DEF Abstract!Next
    <3> QED BY <3>2, <3>3
  <2>6. ASSUME task.pc = "attach", assigned' = assigned \union {task.target},
               UNCHANGED <<server, manual>>, wasUp' = {}, task' = NoTask
        PROVE  Abstract!Next
    <3>1. /\ task.target \in Nodes
          /\ task.target \in wasUp \union StoodFor
          /\ assigned \subseteq manual
      BY <2>6 DEF IInv, TargetInv, HolderInv, StoodFor
    <3>2. StoodFor' = {} /\ Up' = Up
      BY <2>6 DEF NoTask, StoodFor, Up
    <3> QED BY <2>6, <3>1, <3>2 DEF Abstract!Next, Abstract!Assign, Abstract!Free
  <2>7. CASE Detach
    <3>1. CASE task.assn \subseteq assigned
      <4>1. /\ task' = [task EXCEPT !.pc = "attach"]
            /\ task.pc = "detach"
            /\ UNCHANGED wasUp
        BY <2>7, <3>1 DEF Detach
      <4>2. StoodFor' = StoodFor
        BY <2>0, <4>1 DEF StoodFor, Task
      <4> QED BY <2>5, <2>7, <3>1, <4>1, <4>2 DEF Detach
    <3>2. CASE ~(task.assn \subseteq assigned)
      <4>1. Abstract!Search
        BY <2>7, <3>2 DEF Detach, NoTask, StoodFor, Up, Abstract!Search
      <4> QED BY <4>1 DEF Abstract!Next
    <3> QED BY <3>1, <3>2
  <2>8. CASE Attach
    BY <2>6, <2>8 DEF Attach
  <2>9. CASE ResponseLost
    <3>1. StoodFor' = {}
      BY <2>9 DEF ResponseLost, NoTask, StoodFor
    <3> QED BY <2>5, <2>6, <2>9, <3>1 DEF ResponseLost
  <2>10. ASSUME NEW n \in Nodes, ServerStops(n) \/ ServerStarts(n)
         PROVE  Abstract!ServerStops(n) \/ Abstract!ServerStarts(n)
    <3>1. CASE ServerStops(n)
      <4>1. Up' = Up \ {n} /\ StoodFor' = StoodFor
        BY <2>0, <3>1 DEF ServerStops, Up, StoodFor
      <4> QED BY <3>1, <4>1 DEF ServerStops, Abstract!ServerStops
    <3>2. CASE ServerStarts(n)
      <4>1. Up' = Up \union {n} /\ StoodFor' = StoodFor
        BY <2>0, <3>2, PortAssumption DEF ServerStarts, Up, StoodFor
      <4> QED BY <3>2, <4>1 DEF ServerStarts, Abstract!ServerStarts
    <3> QED BY <2>10, <3>1, <3>2
  <2>11. ASSUME NEW n \in Nodes, OperatorAssigns(n)
         PROVE  Abstract!OperatorAssigns(n)
    BY <2>11 DEF OperatorAssigns, Up, StoodFor, Abstract!OperatorAssigns
  <2>12. ASSUME NEW n \in Nodes, OperatorUnassigns(n)
         PROVE  Abstract!Release(n)
    BY <2>12 DEF OperatorUnassigns, Up, StoodFor, Abstract!Release
  <2>13. CASE World
    BY <2>10, <2>11, <2>12, <2>13 DEF World, Abstract!Next
  <2> QED BY <2>1, <2>2, <2>3, <2>4, <2>7, <2>8, <2>9, <2>13 DEF Next, Manager, Faults
<1> QED BY <1>1, <1>2, Invariance, PTL DEF Spec, ImplementsElasticIP, Abstract!Spec
=============================================================================
