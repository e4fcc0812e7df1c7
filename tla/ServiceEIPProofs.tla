-------------------------- MODULE ServiceEIPProofs --------------------------
(***************************************************************************)
(* Theorems about ServiceEIP, for any services, addresses, number of       *)
(* workers, kind of load balancer and disturbances.  The inductive         *)
(* invariant says, of each service on its own, what its sync has           *)
(* established by the call it is at; that other services' syncs, a crash   *)
(* and the rest of the project leave it true is why no lock is needed.     *)
(***************************************************************************)
EXTENDS ServiceEIP, TLAPS, FiniteSetTheorems

\* A sync runs only for a Service that has the finalizer.
FinalizerInv ==
    \A s \in Services :
        /\ task[s].pc # "idle" => service[s].finalizer
        /\ service[s].finalizer => service[s].exists

\* What the sync has found, requested or released is still so at its next calls.
SyncInv ==
    \A s \in Services :
        /\ task[s].pc \in {"request", "unmap", "finalize"} => ReservationsOf(s) = {}
        /\ task[s].pc \in {"save", "release"} =>
             task[s].ip \in IPs /\ holder[task[s].ip] = s
        /\ task[s].pc \in {"map", "unmap"} => task[s].ip \in IPs

IInv == TypeOK /\ FinalizerInv /\ SyncInv /\ OneReservation /\ NoOrphanReservation

\* When no user sets an address or changes a type: a cleanup is that of a deleted
\* Service, and the address that a Service or its sync names is reserved for it.
OwnAddress(s) ==
    /\ service[s].exists => service[s].wants
    /\ ~service[s].exists => service[s].ip = NoIP
    /\ task[s].pc \in {"check", "lookup", "release", "unmap", "finalize"} =>
         service[s].deleting
    /\ service[s].ip # NoIP /\ ~service[s].deleting => holder[service[s].ip] = s
    /\ task[s].pc \in {"find", "map"} /\ task[s].ip # NoIP => holder[task[s].ip] = s

OwnAddressInv == \A s \in Services : OwnAddress(s)

-----------------------------------------------------------------------------
(* Lemmas about the data.                                                   *)

\* An idle sync and an absent Service have their types.
LEMMA RestingTypes == NoTask \in Task /\ Absent \in ServiceObject
  BY DEF NoTask, Task, Absent, ServiceObject

\* A sync that moves on keeps the type of the tasks.
LEMMA GotoType ==
  ASSUME task \in [Services -> Task], NEW s \in Services,
         NEW pc \in {"idle", "find", "request", "save", "map",
                     "check", "lookup", "release", "unmap", "finalize"},
         NEW ip \in IPs \union {NoIP},
         Goto(s, pc) \/ GotoWith(s, pc, ip) \/ Return(s)
  PROVE  task' \in [Services -> Task]
<1>1. [task[s] EXCEPT !.pc = pc] \in Task /\ [pc |-> pc, ip |-> ip] \in Task
  BY DEF Task
<1> QED BY <1>1, RestingTypes DEF Goto, GotoWith, Return

\* Where a sync is after a step, and where the others are.
LEMMA TaskAfter ==
  ASSUME task \in [Services -> Task], NEW s \in Services, NEW pc, NEW ip
  PROVE  /\ Goto(s, pc) => task'[s].pc = pc /\ task'[s].ip = task[s].ip
         /\ GotoWith(s, pc, ip) => task'[s].pc = pc /\ task'[s].ip = ip
         /\ Return(s) => task'[s].pc = "idle" /\ task'[s].ip = NoIP
         /\ Goto(s, pc) \/ GotoWith(s, pc, ip) \/ Return(s) =>
              \A t \in Services \ {s} : task'[t] = task[t]
  BY DEF Goto, GotoWith, Return, NoTask, Task

-----------------------------------------------------------------------------
(* Type correctness.                                                        *)

\* Every step keeps the variables in their types.
LEMMA TypeStep ==
  ASSUME IInv, [Next]_vars
  PROVE  TypeOK'
<1> USE FaultsAssumption, RestingTypes DEF IInv
<1>0. /\ task \in [Services -> Task] /\ service \in [Services -> ServiceObject]
      /\ holder \in [IPs -> Services \union {Nobody, Other}]
  BY DEF TypeOK
<1>1. ASSUME NEW s \in Services, StartEnsure(s)
      PROVE  TypeOK'
  <2>1. service[s].ip \in IPs \union {NoIP}
    BY <1>0 DEF ServiceObject
  <2>2. task' \in [Services -> Task]
    BY <1>0, <1>1, <2>1, GotoType DEF StartEnsure
  <2>3. service' \in [Services -> ServiceObject]
    BY <1>0, <1>1 DEF StartEnsure, ServiceObject
  <2> QED BY <1>1, <2>2, <2>3 DEF StartEnsure, Take, TypeOK
<1>2. ASSUME NEW s \in Services, StartDelete(s)
      PROVE  TypeOK'
  <2>1. task' \in [Services -> Task]
    BY <1>0, <1>2, GotoType DEF StartDelete
  <2> QED BY <1>2, <2>1 DEF StartDelete, Take, TypeOK
<1>3. ASSUME NEW s \in Services, GetLoadBalancer(s)
      PROVE  TypeOK'
  <2>1. task' \in [Services -> Task]
    BY <1>0, <1>3, GotoType DEF GetLoadBalancer
  <2> QED BY <1>3, <2>1 DEF GetLoadBalancer, TypeOK
<1>4. ASSUME NEW s \in Services, RemoveFinalizer(s)
      PROVE  TypeOK'
  <2>1. task' \in [Services -> Task]
    BY <1>0, <1>4 DEF RemoveFinalizer, Return
  <2>2. service' \in [Services -> ServiceObject]
    BY <1>0, <1>4 DEF RemoveFinalizer, ServiceObject
  <2> QED BY <1>4, <2>1, <2>2 DEF RemoveFinalizer, TypeOK
<1>5. ASSUME NEW s \in Services, FindReservation(s)
      PROVE  TypeOK'
  <2>1. ReservationsOf(s) \subseteq IPs
    BY DEF ReservationsOf
  <2>2. task' \in [Services -> Task]
    BY <1>0, <1>5, <2>1, GotoType DEF FindReservation
  <2> QED BY <1>5, <2>2 DEF FindReservation, TypeOK
<1>6. ASSUME NEW s \in Services, RequestReservation(s)
      PROVE  TypeOK'
  <2>1. task' \in [Services -> Task]
    BY <1>0, <1>6, GotoType DEF RequestReservation, Fail
  <2>2. holder' \in [IPs -> Services \union {Nobody, Other}]
    BY <1>0, <1>6 DEF RequestReservation
  <2>3. due' \subseteq Services
    BY <1>6 DEF RequestReservation, Fail, Enqueue, TypeOK
  <2> QED BY <1>6, <2>1, <2>2, <2>3 DEF RequestReservation, TypeOK
<1>7. ASSUME NEW s \in Services, SaveIP(s)
      PROVE  TypeOK'
  <2>1. task[s].ip \in IPs
    BY <1>7 DEF SaveIP, SyncInv
  <2>2. task' \in [Services -> Task]
    BY <1>0, <1>7, GotoType DEF SaveIP
  <2>3. service' \in [Services -> ServiceObject]
    BY <1>0, <1>7, <2>1 DEF SaveIP, ServiceObject
  <2> QED BY <1>7, <2>2, <2>3 DEF SaveIP, Enqueue, TypeOK
<1>8. ASSUME NEW s \in Services, MapIP(s)
      PROVE  TypeOK'
  <2>1. task[s].ip \in IPs
    BY <1>8 DEF MapIP, SyncInv
  <2>2. task' \in [Services -> Task] /\ due' \subseteq Services
    BY <1>0, <1>8 DEF MapIP, Fail, Return, Enqueue, TypeOK
  <2>3. pools' \subseteq Services \X IPs
    <3>1. pools' \subseteq pools \union {<<s, task[s].ip>>}
      BY <1>8 DEF MapIP, Mapped
    <3>2. <<s, task[s].ip>> \in Services \X IPs
      BY <2>1
    <3> QED BY <3>1, <3>2 DEF TypeOK
  <2> QED BY <1>8, <2>2, <2>3 DEF MapIP, TypeOK
<1>9. ASSUME NEW s \in Services, LookUpReservation(s)
      PROVE  TypeOK'
  <2>1. ReservationsOf(s) \subseteq IPs
    BY DEF ReservationsOf
  <2>2. task' \in [Services -> Task]
    BY <1>0, <1>9, <2>1, GotoType DEF LookUpReservation
  <2> QED BY <1>9, <2>2 DEF LookUpReservation, TypeOK
<1>10. ASSUME NEW s \in Services, ReleaseReservation(s) \/ UnmapIP(s)
       PROVE  TypeOK'
  <2>1. task' \in [Services -> Task]
    BY <1>0, <1>10, GotoType DEF ReleaseReservation, UnmapIP
  <2>2. pools' \subseteq Services \X IPs
    BY <1>10 DEF ReleaseReservation, UnmapIP, Unmapped, TypeOK
  <2> QED BY <1>10, <2>1, <2>2 DEF ReleaseReservation, UnmapIP, TypeOK
<1>11. ASSUME NEW s \in Services, CallFails(s)
       PROVE  TypeOK'
  BY <1>11 DEF CallFails, Disturb, Fail, Return, Enqueue, TypeOK
<1>12. ASSUME NEW s \in Services, ResponseLost(s)
       PROVE  TypeOK'
  <2>1. holder' \in [IPs -> Services \union {Nobody, Other}]
    BY <1>0, <1>12 DEF ResponseLost
  <2>2. task[s].pc = "save" => task[s].ip \in IPs
    BY DEF SyncInv
  <2>3. service' \in [Services -> ServiceObject]
    BY <1>0, <1>12, <2>2 DEF ResponseLost, ServiceObject
  <2>4. pools' = pools /\ Fail(s) /\ Disturb("call")
    BY <1>12 DEF ResponseLost
  <2>5. task' \in [Services -> Task]
    BY <1>0, <2>4 DEF Fail, Return
  <2> QED BY <2>1, <2>3, <2>4, <2>5 DEF Disturb, Fail, Enqueue, TypeOK
<1>13. CASE Crash
  BY <1>13 DEF Crash, Disturb, TypeOK
<1>14. ASSUME NEW s \in Services,
              CreateService(s) \/ ChangeType(s) \/ DeleteService(s)
       PROVE  TypeOK'
  <2>1. \A ip \in IPs \union {NoIP} :
          [Absent EXCEPT !.exists = TRUE, !.wants = TRUE, !.ip = ip] \in ServiceObject
    BY DEF Absent, ServiceObject
  <2>2. CASE CreateService(s)
    <3>1. service' \in [Services -> ServiceObject]
      BY <1>0, <2>1, <2>2 DEF CreateService
    <3>2. faults' \in 0 .. MaxFaults
      BY <2>2 DEF CreateService, Disturb, TypeOK
    <3> QED BY <2>2, <3>1, <3>2 DEF CreateService, Enqueue, TypeOK
  <2>3. CASE ChangeType(s)
    <3>1. service' \in [Services -> ServiceObject]
      BY <1>0, <2>3 DEF ChangeType, ServiceObject
    <3> QED BY <2>3, <3>1 DEF ChangeType, Disturb, Enqueue, TypeOK
  <2>4. CASE DeleteService(s)
    <3>1. service' \in [Services -> ServiceObject]
      BY <1>0, <2>4 DEF DeleteService, ServiceObject
    <3> QED BY <2>4, <3>1 DEF DeleteService, Enqueue, TypeOK
  <2> QED BY <1>14, <2>2, <2>3, <2>4
<1>15. ASSUME NEW s \in Services, EditService(s)
       PROVE  TypeOK'
  BY <1>15 DEF EditService, Enqueue, TypeOK
<1>16. ASSUME NEW i \in IPs, OtherReserves(i)
       PROVE  TypeOK'
  BY <1>16 DEF OtherReserves, Disturb, TypeOK
<1>17. CASE UNCHANGED vars
  BY <1>17 DEF vars, TypeOK
<1> QED BY <1>1, <1>2, <1>3, <1>4, <1>5, <1>6, <1>7, <1>8, <1>9, <1>10, <1>11,
           <1>12, <1>13, <1>14, <1>15, <1>16, <1>17 DEF Next, Worker, Start

-----------------------------------------------------------------------------
(* The steps of one service and the other services.                         *)

\* The steps of the sync of s and of its user.
StepOf(s) ==
    \/ Worker(s) \/ CallFails(s) \/ ResponseLost(s)
    \/ CreateService(s) \/ ChangeType(s) \/ EditService(s) \/ DeleteService(s)

\* What a service's reservations, Service and sync look like to it.
SameFor(t) ==
    /\ task'[t] = task[t]
    /\ service'[t] = service[t]
    /\ \A i \in IPs : holder'[i] = t <=> holder[i] = t

\* A service's steps neither release nor make a reservation of another service,
\* nor touch its Service or its sync.
LEMMA Isolation ==
  ASSUME IInv, NEW s \in Services, NEW t \in Services, t # s, StepOf(s)
  PROVE  SameFor(t)
<1> USE HolderAssumption DEF SameFor
<1>0. /\ task \in [Services -> Task] /\ service \in [Services -> ServiceObject]
      /\ holder \in [IPs -> Services \union {Nobody, Other}]
  BY DEF IInv, TypeOK
<1>1. task[s].pc = "release" => task[s].ip \in IPs /\ holder[task[s].ip] = s
  BY DEF IInv, SyncInv
<1>2. CASE StartEnsure(s) \/ StartDelete(s) \/ GetLoadBalancer(s) \/ RemoveFinalizer(s)
  BY <1>0, <1>2 DEF StartEnsure, StartDelete, GetLoadBalancer, RemoveFinalizer,
                    Goto, GotoWith, Return
<1>3. CASE FindReservation(s) \/ LookUpReservation(s) \/ SaveIP(s) \/ MapIP(s) \/ UnmapIP(s)
  BY <1>0, <1>3 DEF FindReservation, LookUpReservation, SaveIP, MapIP, UnmapIP,
                    Goto, GotoWith, Return, Fail
<1>4. CASE RequestReservation(s)
  BY <1>0, <1>4 DEF RequestReservation, GotoWith, Fail, Return
<1>5. CASE ReleaseReservation(s)
  BY <1>0, <1>1, <1>5 DEF ReleaseReservation, Goto
<1>6. CASE CallFails(s)
  BY <1>0, <1>6 DEF CallFails, Fail, Return
<1>7. CASE ResponseLost(s)
  <2>1. task'[t] = task[t]
    BY <1>0, <1>7 DEF ResponseLost, Fail, Return
  <2>2. service'[t] = service[t]
    BY <1>0, <1>7 DEF ResponseLost
  <2>3. \A i \in IPs : holder'[i] = t <=> holder[i] = t
    BY <1>0, <1>1, <1>7 DEF ResponseLost
  <2> QED BY <2>1, <2>2, <2>3
<1>8. CASE CreateService(s) \/ ChangeType(s) \/ EditService(s) \/ DeleteService(s)
  BY <1>0, <1>8 DEF CreateService, ChangeType, EditService, DeleteService
<1> QED BY <1>2, <1>3, <1>4, <1>5, <1>6, <1>7, <1>8 DEF StepOf, Worker, Start

\* The part of the inductive invariant that is about s.
Own(s) ==
    /\ task[s].pc # "idle" => service[s].finalizer
    /\ service[s].finalizer => service[s].exists
    /\ task[s].pc \in {"request", "unmap", "finalize"} => ReservationsOf(s) = {}
    /\ task[s].pc \in {"save", "release"} =>
         task[s].ip \in IPs /\ holder[task[s].ip] = s
    /\ task[s].pc \in {"map", "unmap"} => task[s].ip \in IPs
    /\ \A i, j \in IPs : holder[i] = s /\ holder[j] = s => i = j
    /\ \A i \in IPs : holder[i] = s => service[s].finalizer

\* The invariant is its parts, one for each service.
LEMMA InvByService == IInv <=> TypeOK /\ \A s \in Services : Own(s)
<1>1. ASSUME IInv PROVE \A s \in Services : Own(s)
  BY <1>1 DEF IInv, FinalizerInv, SyncInv, OneReservation, NoOrphanReservation, Own
<1>2. ASSUME TypeOK, \A s \in Services : Own(s) PROVE IInv
  <2>1. FinalizerInv /\ SyncInv
    BY <1>2 DEF FinalizerInv, SyncInv, Own
  <2>2. OneReservation /\ NoOrphanReservation
    BY <1>2 DEF OneReservation, NoOrphanReservation, Own
  <2> QED BY <1>2, <2>1, <2>2 DEF IInv
<1> QED BY <1>1, <1>2 DEF IInv

\* A step that is not seen by s leaves its part as it was.
LEMMA UnseenStep ==
  ASSUME NEW s \in Services, Own(s), SameFor(s)
  PROVE  Own(s)'
<1>1. ReservationsOf(s)' = ReservationsOf(s)
  BY DEF SameFor, ReservationsOf
<1> QED BY <1>1 DEF SameFor, Own

\* A service's own steps keep its part of the invariant: what a call relies on was
\* established by the calls before it.
LEMMA OwnStep ==
  ASSUME TypeOK, NEW s \in Services, Own(s), StepOf(s)
  PROVE  Own(s)'
<1> USE HolderAssumption DEF ReservationsOf
<1>0. /\ task \in [Services -> Task] /\ service \in [Services -> ServiceObject]
      /\ holder \in [IPs -> Services \union {Nobody, Other}]
  BY DEF TypeOK
<1>1. CASE StartEnsure(s)
  <2>1. task'[s].pc = "find" /\ holder' = holder
    BY <1>0, <1>1, TaskAfter DEF StartEnsure
  <2>2. service'[s].finalizer /\ service'[s].exists
    BY <1>0, <1>1 DEF StartEnsure, ServiceObject
  <2> QED BY <2>1, <2>2 DEF Own
<1>2. CASE StartDelete(s)
  <2>1. task'[s].pc = "check" /\ holder' = holder /\ service' = service
    BY <1>0, <1>2, TaskAfter DEF StartDelete
  <2> QED BY <1>2, <2>1 DEF StartDelete, Own
<1>3. CASE GetLoadBalancer(s)
  <2>1. \/ task'[s].pc = "finalize" /\ ReservationsOf(s) = {}
        \/ task'[s].pc = "lookup"
    BY <1>0, <1>3, TaskAfter DEF GetLoadBalancer
  <2>2. holder' = holder /\ service' = service /\ task[s].pc # "idle"
    BY <1>3 DEF GetLoadBalancer
  <2> QED BY <2>1, <2>2 DEF Own
<1>4. CASE RemoveFinalizer(s)
  <2>1. task'[s].pc = "idle" /\ holder' = holder
    BY <1>0, <1>4, TaskAfter DEF RemoveFinalizer
  <2>2. ~service'[s].finalizer
    BY <1>0, <1>4 DEF RemoveFinalizer, Absent, ServiceObject
  <2>3. \A i \in IPs : holder[i] # s
    BY <1>4 DEF RemoveFinalizer, Own
  <2> QED BY <2>1, <2>2, <2>3 DEF Own
<1>5. CASE FindReservation(s)
  <2>1. \/ task'[s].pc = "map" /\ task'[s].ip = task[s].ip /\ task[s].ip # NoIP
        \/ task'[s].pc = "request" /\ ReservationsOf(s) = {}
        \/ task'[s].pc = "save" /\ task'[s].ip \in ReservationsOf(s)
    BY <1>0, <1>5, TaskAfter DEF FindReservation
  <2>2. task[s].ip \in IPs \union {NoIP}
    BY <1>0 DEF Task
  <2>3. holder' = holder /\ service' = service /\ task[s].pc # "idle"
    BY <1>5 DEF FindReservation
  <2> QED BY <2>1, <2>2, <2>3 DEF Own
<1>6. ASSUME task[s].pc = "request", service' = service,
             NEW i \in IPs, holder[i] = Nobody, holder' = [holder EXCEPT ![i] = s],
             \/ task'[s].pc = "save" /\ task'[s].ip = i
             \/ task'[s].pc = "idle"
      PROVE  Own(s)'
  <2>1. \A j \in IPs : holder'[j] = s <=> j = i
    BY <1>0, <1>6 DEF Own
  <2>2. service[s].finalizer /\ service[s].exists
    BY <1>6 DEF Own
  <2> QED BY <1>6, <2>1, <2>2 DEF Own
<1>7. CASE RequestReservation(s)
  <2>1. CASE \E i \in IPs : holder[i] = Nobody
    <3>1. PICK i \in IPs : /\ holder[i] = Nobody
                           /\ holder' = [holder EXCEPT ![i] = s]
                           /\ GotoWith(s, "save", i)
      BY <1>7, <2>1 DEF RequestReservation
    <3>2. task'[s].pc = "save" /\ task'[s].ip = i
      BY <1>0, <3>1, TaskAfter
    <3> QED BY <1>6, <1>7, <3>1, <3>2 DEF RequestReservation
  <2>2. CASE ~\E i \in IPs : holder[i] = Nobody
    <3>1. task'[s].pc = "idle" /\ holder' = holder /\ service' = service
      BY <1>0, <1>7, <2>2, TaskAfter DEF RequestReservation, Fail
    <3> QED BY <3>1 DEF Own
  <2> QED BY <2>1, <2>2
<1>8. CASE SaveIP(s)
  <2>1. task'[s].pc = "map" /\ task'[s].ip = task[s].ip /\ holder' = holder
    BY <1>0, <1>8, TaskAfter DEF SaveIP
  <2>2. /\ service'[s].finalizer = service[s].finalizer
        /\ service'[s].exists = service[s].exists
    BY <1>0, <1>8 DEF SaveIP, ServiceObject
  <2> QED BY <1>8, <2>1, <2>2 DEF SaveIP, Own
<1>9. CASE MapIP(s)
  <2>1. task'[s].pc = "idle" /\ holder' = holder /\ service' = service
    BY <1>0, <1>9, TaskAfter DEF MapIP, Fail
  <2> QED BY <2>1 DEF Own
<1>10. CASE LookUpReservation(s)
  <2>1. \/ task'[s].pc = "finalize" /\ ReservationsOf(s) = {}
        \/ task'[s].pc = "release" /\ task'[s].ip \in ReservationsOf(s)
    <3>1. CASE ReservationsOf(s) = {} /\ Goto(s, "finalize")
      BY <1>0, <3>1, TaskAfter
    <3>2. ASSUME NEW i \in ReservationsOf(s), GotoWith(s, "release", i)
          PROVE  task'[s].pc = "release" /\ task'[s].ip \in ReservationsOf(s)
      BY <1>0, <3>2, TaskAfter
    <3> QED BY <1>10, <3>1, <3>2 DEF LookUpReservation
  <2>2. holder' = holder /\ service' = service /\ task[s].pc # "idle"
    BY <1>10 DEF LookUpReservation
  <2> QED BY <2>1, <2>2 DEF Own
<1>11. ASSUME task[s].pc = "release", service' = service,
              holder' = [holder EXCEPT ![task[s].ip] = Nobody],
              \/ task'[s].pc = "unmap" /\ task'[s].ip = task[s].ip
              \/ task'[s].pc = "idle"
       PROVE  Own(s)'
  <2>1. \A j \in IPs : holder'[j] # s
    BY <1>0, <1>11 DEF Own
  <2>2. task[s].ip \in IPs /\ service[s].finalizer
    BY <1>11 DEF Own
  <2> QED BY <1>11, <2>1, <2>2 DEF Own
<1>12. CASE ReleaseReservation(s)
  <2>1. task'[s].pc = "unmap" /\ task'[s].ip = task[s].ip
    BY <1>0, <1>12, TaskAfter DEF ReleaseReservation
  <2> QED BY <1>11, <1>12, <2>1 DEF ReleaseReservation
<1>13. CASE UnmapIP(s)
  <2>1. task'[s].pc = "finalize" /\ holder' = holder /\ service' = service
    BY <1>0, <1>13, TaskAfter DEF UnmapIP
  <2> QED BY <1>13, <2>1 DEF UnmapIP, Own
<1>14. CASE CallFails(s)
  <2>1. task'[s].pc = "idle" /\ holder' = holder /\ service' = service
    BY <1>0, <1>14, TaskAfter DEF CallFails, Fail
  <2> QED BY <2>1 DEF Own
<1>15. CASE ResponseLost(s)
  <2>1. task'[s].pc = "idle"
    BY <1>0, <1>15, TaskAfter DEF ResponseLost, Fail
  <2>2. CASE task[s].pc = "request"
    <3>1. service' = service
      BY <1>15, <2>2 DEF ResponseLost
    <3>2. PICK i \in IPs : holder[i] = Nobody /\ holder' = [holder EXCEPT ![i] = s]
      BY <1>15, <2>2 DEF ResponseLost
    <3> QED BY <1>6, <2>1, <2>2, <3>1, <3>2
  <2>3. CASE task[s].pc = "save"
    <3>1. holder' = holder /\ service' = [service EXCEPT ![s].ip = task[s].ip]
      BY <1>15, <2>3 DEF ResponseLost
    <3>2. /\ service'[s].finalizer = service[s].finalizer
          /\ service'[s].exists = service[s].exists
      BY <1>0, <3>1 DEF ServiceObject
    <3> QED BY <2>1, <3>1, <3>2 DEF Own
  <2>4. CASE task[s].pc = "release"
    <3>1. service' = service /\ holder' = [holder EXCEPT ![task[s].ip] = Nobody]
      BY <1>15, <2>4 DEF ResponseLost
    <3> QED BY <1>11, <2>1, <2>4, <3>1
  <2> QED BY <1>15, <2>2, <2>3, <2>4 DEF ResponseLost
<1>16. CASE CreateService(s)
  <2>1. ~service[s].finalizer /\ task[s].pc = "idle"
    BY <1>16 DEF CreateService, Own
  <2>2. service'[s].exists
    BY <1>0, <1>16 DEF CreateService, Absent
  <2>3. task' = task /\ holder' = holder
    BY <1>16 DEF CreateService
  <2> QED BY <2>1, <2>2, <2>3 DEF Own
<1>17. CASE DeleteService(s)
  <2>1. task' = task /\ holder' = holder
    BY <1>17 DEF DeleteService
  <2>2. CASE service[s].finalizer
    <3>1. service'[s].finalizer /\ service'[s].exists = service[s].exists
      BY <1>0, <1>17, <2>2 DEF DeleteService, ServiceObject
    <3> QED BY <2>1, <2>2, <3>1 DEF Own
  <2>3. CASE ~service[s].finalizer
    <3>1. ~service'[s].finalizer
      BY <1>0, <1>17, <2>3 DEF DeleteService, Absent
    <3> QED BY <2>1, <2>3, <3>1 DEF Own
  <2> QED BY <2>2, <2>3
<1>18. CASE ChangeType(s) \/ EditService(s)
  <2>1. task' = task /\ holder' = holder
    BY <1>18 DEF ChangeType, EditService
  <2>2. /\ service'[s].finalizer = service[s].finalizer
        /\ service'[s].exists = service[s].exists
    BY <1>0, <1>18 DEF ChangeType, EditService, ServiceObject
  <2> QED BY <2>1, <2>2 DEF Own
<1> QED BY <1>1, <1>2, <1>3, <1>4, <1>5, <1>7, <1>8, <1>9, <1>10, <1>12, <1>13,
           <1>14, <1>15, <1>16, <1>17, <1>18 DEF StepOf, Worker, Start

-----------------------------------------------------------------------------
(* The theorems.                                                            *)

\* Every step keeps the inductive invariant.
LEMMA InvStep ==
  ASSUME IInv, [Next]_vars
  PROVE  IInv'
<1>0. TypeOK /\ \A s \in Services : Own(s)
  BY InvByService
<1>1. TypeOK'
  BY TypeStep
<1>2. ASSUME NEW s \in Services, StepOf(s)
      PROVE  \A t \in Services : Own(t)'
  <2>1. Own(s)'
    BY <1>0, <1>2, OwnStep
  <2>2. \A t \in Services \ {s} : Own(t)'
    BY <1>0, <1>2, Isolation, UnseenStep
  <2> QED BY <2>1, <2>2
<1>3. ASSUME Crash, NEW s \in Services
      PROVE  Own(s)'
  BY <1>0, <1>3 DEF Crash, NoTask, ReservationsOf, Own
<1>4. ASSUME NEW i \in IPs, OtherReserves(i), NEW s \in Services
      PROVE  Own(s)'
  <2>1. SameFor(s)
    BY <1>0, <1>4, HolderAssumption DEF OtherReserves, SameFor, TypeOK
  <2> QED BY <1>0, <2>1, UnseenStep
<1>5. ASSUME UNCHANGED vars, NEW s \in Services
      PROVE  Own(s)'
  BY <1>0, <1>5, UnseenStep DEF vars, SameFor
<1>6. \A s \in Services : Own(s)'
  BY <1>2, <1>3, <1>4, <1>5 DEF Next, StepOf
<1>7. TypeOK' /\ (\A s \in Services : Own(s)') => IInv'
  <2>1. ASSUME TypeOK', \A s \in Services : Own(s)' PROVE IInv'
    <3>1. FinalizerInv' /\ SyncInv'
      BY <2>1 DEF FinalizerInv, SyncInv, Own
    <3>2. OneReservation' /\ NoOrphanReservation'
      BY <1>1, <2>1 DEF OneReservation, NoOrphanReservation, Own, TypeOK
    <3> QED BY <1>1, <3>1, <3>2 DEF IInv
  <2> QED BY <2>1
<1> QED BY <1>1, <1>6, <1>7

\* The inductive invariant: what a sync has read or done at its earlier calls is
\* still so at its later ones, whatever other syncs, crashes and lost calls do.
THEOREM Invariance == Spec => []IInv
<1>1. Init => IInv
  <2> SUFFICES ASSUME Init PROVE IInv
    OBVIOUS
  <2>1. TypeOK
    BY FaultsAssumption, RestingTypes DEF Init, TypeOK
  <2>2. FinalizerInv /\ SyncInv
    BY DEF Init, FinalizerInv, SyncInv, NoTask, Absent
  <2>3. OneReservation /\ NoOrphanReservation
    BY HolderAssumption DEF Init, OneReservation, NoOrphanReservation
  <2> QED BY <2>1, <2>2, <2>3 DEF IInv
<1>2. IInv /\ [Next]_vars => IInv'
  BY InvStep
<1> QED BY <1>1, <1>2, PTL DEF Spec

\* Every variable keeps its type.
THEOREM TypeCorrectness == Spec => []TypeOK
<1>1. IInv => TypeOK
  BY DEF IInv
<1> QED BY Invariance, <1>1, PTL

\* No service ever has two reservations.
THEOREM AtMostOneReservation == Spec => []OneReservation
<1>1. IInv => OneReservation
  BY DEF IInv
<1> QED BY Invariance, <1>1, PTL

\* Nothing stays reserved for a Service that is gone, or that gave its finalizer up.
THEOREM NoOrphans == Spec => []NoOrphanReservation
<1>1. IInv => NoOrphanReservation
  BY DEF IInv
<1> QED BY Invariance, <1>1, PTL

\* Only the cleanup of its own service releases a reservation, and gives it to
\* nobody.
THEOREM ReleaseByOwner == Spec => ReleasedByOwner
<1> DEFINE Released ==
      \A i \in IPs : holder[i] \in Services /\ holder'[i] # holder[i] =>
        /\ holder'[i] = Nobody
        /\ task[holder[i]] = [pc |-> "release", ip |-> i]
<1>1. IInv /\ [Next]_vars => [Released]_vars
  <2> SUFFICES ASSUME IInv, Next, NEW i \in IPs, NEW t \in Services,
                      holder[i] = t, holder'[i] # t
               PROVE  /\ holder'[i] = Nobody
                      /\ task[t] = [pc |-> "release", ip |-> i]
    OBVIOUS
  <2>0. /\ task \in [Services -> Task]
        /\ holder \in [IPs -> Services \union {Nobody, Other}]
    BY DEF IInv, TypeOK
  <2>1. ASSUME NEW s \in Services, StepOf(s), s # t
        PROVE  FALSE
    BY <2>1, Isolation DEF SameFor
  <2>2. ASSUME holder' = [holder EXCEPT ![task[t].ip] = Nobody], task[t].pc = "release"
        PROVE  /\ holder'[i] = Nobody
               /\ task[t] = [pc |-> "release", ip |-> i]
    <3>1. task[t].ip = i
      BY <2>0, <2>2
    <3>2. task[t] \in Task /\ task[t].pc = "release"
      BY <2>0, <2>2
    <3> QED BY <2>0, <2>2, <3>1, <3>2 DEF Task
  <2>3. ASSUME NEW j \in IPs, holder[j] = Nobody, NEW x, holder' = [holder EXCEPT ![j] = x]
        PROVE  FALSE
    BY <2>0, <2>3, HolderAssumption
  <2>4. CASE StepOf(t)
    <3>1. CASE RequestReservation(t)
      BY <2>3, <3>1 DEF RequestReservation
    <3>2. CASE ReleaseReservation(t)
      BY <2>2, <3>2 DEF ReleaseReservation
    <3>3. CASE ResponseLost(t)
      BY <2>2, <2>3, <3>3 DEF ResponseLost
    <3>4. CASE ~(RequestReservation(t) \/ ReleaseReservation(t) \/ ResponseLost(t))
      <4>1. holder' = holder
        BY <2>4, <3>4 DEF StepOf, Worker, Start, StartEnsure, StartDelete,
             GetLoadBalancer, RemoveFinalizer, FindReservation, SaveIP, MapIP,
             LookUpReservation, UnmapIP, CallFails, CreateService, ChangeType,
             EditService, DeleteService
      <4> QED BY <4>1
    <3> QED BY <3>1, <3>2, <3>3, <3>4
  <2>5. CASE Crash
    BY <2>5 DEF Crash
  <2>6. ASSUME NEW j \in IPs, OtherReserves(j)
        PROVE  FALSE
    BY <2>3, <2>6 DEF OtherReserves
  <2> QED BY <2>1, <2>4, <2>5, <2>6 DEF Next, StepOf
<1>2. Spec => [][Released]_vars
  BY Invariance, <1>1, PTL DEF Spec
<1> QED BY <1>2 DEF ReleasedByOwner

\* A service's own steps keep the address it names its own.
LEMMA OwnAddressStep ==
  ASSUME {"retype", "byo"} \cap Disturbances = {},
         IInv, NEW s \in Services, OwnAddress(s), StepOf(s)
  PROVE  OwnAddress(s)'
<1> USE HolderAssumption, NoIPAssumption
<1>0. /\ task \in [Services -> Task] /\ service \in [Services -> ServiceObject]
      /\ holder \in [IPs -> Services \union {Nobody, Other}]
  BY DEF IInv, TypeOK
<1>1. Own(s)
  BY InvByService
<1>2. CASE StartEnsure(s)
  <2>1. task'[s].pc = "find" /\ task'[s].ip = service[s].ip /\ holder' = holder
    BY <1>0, <1>2, TaskAfter DEF StartEnsure
  <2>2. service'[s] = [service[s] EXCEPT !.finalizer = TRUE]
    BY <1>0, <1>2 DEF StartEnsure
  <2>3. \A f \in {"exists", "wants", "ip", "deleting"} : service'[s][f] = service[s][f]
    BY <1>0, <2>2 DEF ServiceObject
  <2> QED BY <1>2, <2>1, <2>3 DEF StartEnsure, OwnAddress
<1>3. CASE StartDelete(s)
  <2>1. task'[s].pc = "check" /\ holder' = holder /\ service' = service
    BY <1>0, <1>3, TaskAfter DEF StartDelete
  <2>2. service[s].deleting
    BY <1>1, <1>3 DEF StartDelete, Own, OwnAddress
  <2> QED BY <2>1, <2>2 DEF OwnAddress
<1>4. CASE GetLoadBalancer(s) \/ UnmapIP(s)
  <2>1. /\ task'[s].pc \in {"finalize", "lookup"} /\ holder' = holder
        /\ service' = service /\ task[s].pc \in {"check", "unmap"}
    BY <1>0, <1>4, TaskAfter DEF GetLoadBalancer, UnmapIP
  <2> QED BY <2>1 DEF OwnAddress
<1>5. CASE RemoveFinalizer(s)
  <2>1. task'[s].pc = "idle" /\ holder' = holder
    BY <1>0, <1>5, TaskAfter DEF RemoveFinalizer
  <2>2. service'[s] = Absent
    BY <1>0, <1>5 DEF RemoveFinalizer, OwnAddress
  <2> QED BY <2>1, <2>2 DEF Absent, OwnAddress
<1>6. CASE FindReservation(s)
  <2>1. holder' = holder /\ service' = service /\ task[s].pc = "find"
    BY <1>6 DEF FindReservation
  <2>2. \/ task'[s].pc = "map" /\ task'[s].ip = task[s].ip /\ task[s].ip # NoIP
        \/ task'[s].pc \in {"request", "save"}
    BY <1>0, <1>6, TaskAfter DEF FindReservation
  <2> QED BY <2>1, <2>2 DEF OwnAddress
<1>7. ASSUME service' = service, task'[s].pc \in {"save", "idle"},
             \A i \in IPs : holder[i] = s => holder'[i] = s
      PROVE  OwnAddress(s)'
  <2>1. service[s].ip \in IPs \union {NoIP}
    BY <1>0 DEF ServiceObject
  <2> QED BY <1>7, <2>1 DEF OwnAddress
<1>8. CASE RequestReservation(s)
  <2>1. CASE \E i \in IPs : holder[i] = Nobody
    <3>1. PICK i \in IPs : /\ holder[i] = Nobody
                           /\ holder' = [holder EXCEPT ![i] = s]
                           /\ GotoWith(s, "save", i)
      BY <1>8, <2>1 DEF RequestReservation
    <3>2. task'[s].pc = "save" /\ service' = service
      BY <1>0, <1>8, <3>1, TaskAfter DEF RequestReservation
    <3> QED BY <1>0, <1>7, <3>1, <3>2
  <2>2. CASE ~\E i \in IPs : holder[i] = Nobody
    <3>1. task'[s].pc = "idle" /\ holder' = holder /\ service' = service
      BY <1>0, <1>8, <2>2, TaskAfter DEF RequestReservation, Fail
    <3> QED BY <1>7, <3>1
  <2> QED BY <2>1, <2>2
<1>9. ASSUME task[s].pc = "save", service' = [service EXCEPT ![s].ip = task[s].ip],
             holder' = holder,
             \/ task'[s].pc = "map" /\ task'[s].ip = task[s].ip
             \/ task'[s].pc = "idle"
      PROVE  OwnAddress(s)'
  <2>1. task[s].ip \in IPs /\ holder[task[s].ip] = s /\ service[s].exists
    BY <1>1, <1>9 DEF Own
  <2>2. service'[s] = [service[s] EXCEPT !.ip = task[s].ip]
    BY <1>0, <1>9
  <2>3. /\ service'[s].ip = task[s].ip
        /\ \A f \in {"exists", "wants", "deleting"} : service'[s][f] = service[s][f]
    BY <1>0, <2>2 DEF ServiceObject
  <2> QED BY <1>9, <2>1, <2>3 DEF OwnAddress
<1>10. CASE SaveIP(s)
  <2>1. task'[s].pc = "map" /\ task'[s].ip = task[s].ip
    BY <1>0, <1>10, TaskAfter DEF SaveIP
  <2> QED BY <1>9, <1>10, <2>1 DEF SaveIP
<1>11. CASE MapIP(s) \/ CallFails(s)
  <2>1. task'[s].pc = "idle" /\ holder' = holder /\ service' = service
    BY <1>0, <1>11, TaskAfter DEF MapIP, CallFails, Fail
  <2> QED BY <1>7, <2>1
<1>12. CASE LookUpReservation(s)
  <2>1. /\ task'[s].pc \in {"finalize", "release"} /\ task[s].pc = "lookup"
        /\ holder' = holder /\ service' = service
    BY <1>0, <1>12, TaskAfter DEF LookUpReservation
  <2> QED BY <2>1 DEF OwnAddress
<1>13. ASSUME task[s].pc = "release", service' = service, task'[s].pc \in {"unmap", "idle"}
       PROVE  OwnAddress(s)'
  BY <1>13 DEF OwnAddress
<1>14. CASE ReleaseReservation(s)
  <2>1. task'[s].pc = "unmap"
    BY <1>0, <1>14, TaskAfter DEF ReleaseReservation
  <2> QED BY <1>13, <1>14, <2>1 DEF ReleaseReservation
<1>15. CASE ResponseLost(s)
  <2>1. task'[s].pc = "idle"
    BY <1>0, <1>15, TaskAfter DEF ResponseLost, Fail
  <2>2. CASE task[s].pc = "request"
    <3>1. PICK i \in IPs : holder[i] = Nobody /\ holder' = [holder EXCEPT ![i] = s]
      BY <1>15, <2>2 DEF ResponseLost
    <3>2. service' = service
      BY <1>15, <2>2 DEF ResponseLost
    <3> QED BY <1>0, <1>7, <2>1, <3>1, <3>2
  <2>3. CASE task[s].pc = "save"
    BY <1>9, <1>15, <2>1, <2>3 DEF ResponseLost
  <2>4. CASE task[s].pc = "release"
    BY <1>13, <1>15, <2>1, <2>4 DEF ResponseLost
  <2> QED BY <1>15, <2>2, <2>3, <2>4 DEF ResponseLost
<1>16. CASE CreateService(s)
  <2>1. task[s].pc = "idle" /\ task' = task /\ holder' = holder
    BY <1>1, <1>16 DEF CreateService, Own
  <2>2. service'[s] = [Absent EXCEPT !.exists = TRUE, !.wants = TRUE, !.ip = NoIP]
    BY <1>0, <1>16 DEF CreateService, Disturb
  <2>3. service'[s].exists /\ service'[s].wants /\ service'[s].ip = NoIP
    BY <2>2 DEF Absent
  <2> QED BY <2>1, <2>3 DEF OwnAddress
<1>17. CASE ChangeType(s)
  BY <1>17 DEF ChangeType, Disturb
<1>18. CASE EditService(s)
  BY <1>18 DEF EditService, OwnAddress
<1>19. CASE DeleteService(s)
  <2>1. task' = task /\ holder' = holder
    BY <1>19 DEF DeleteService
  <2>2. CASE service[s].finalizer
    <3>1. service'[s] = [service[s] EXCEPT !.deleting = TRUE]
      BY <1>0, <1>19, <2>2 DEF DeleteService
    <3>2. /\ service'[s].deleting
          /\ \A f \in {"exists", "wants", "ip"} : service'[s][f] = service[s][f]
      BY <1>0, <3>1 DEF ServiceObject
    <3> QED BY <2>1, <3>2 DEF OwnAddress
  <2>3. CASE ~service[s].finalizer
    <3>1. task[s].pc = "idle"
      BY <1>1, <2>3 DEF Own
    <3>2. service'[s] = Absent
      BY <1>0, <1>19, <2>3 DEF DeleteService
    <3> QED BY <2>1, <3>1, <3>2 DEF Absent, OwnAddress
  <2> QED BY <2>2, <2>3
<1> QED BY <1>2, <1>3, <1>4, <1>5, <1>6, <1>8, <1>10, <1>11, <1>12, <1>14, <1>15,
           <1>16, <1>17, <1>18, <1>19 DEF StepOf, Worker, Start

\* While users neither set addresses nor change types, the address mapped for a
\* service is one that is reserved for it.
THEOREM MappedIsReserved ==
  ASSUME {"retype", "byo"} \cap Disturbances = {}
  PROVE  Spec => []MapsReserved
<1>1. Init => OwnAddressInv
  BY DEF Init, OwnAddressInv, OwnAddress, Absent, NoTask
<1>2. IInv /\ OwnAddressInv /\ [Next]_vars => OwnAddressInv'
  <2> SUFFICES ASSUME IInv, OwnAddressInv, [Next]_vars, NEW t \in Services
               PROVE  OwnAddress(t)'
    BY DEF OwnAddressInv
  <2>1. OwnAddress(t)
    BY DEF OwnAddressInv
  <2>2. ASSUME SameFor(t) PROVE OwnAddress(t)'
    <3>1. task[t] \in Task /\ service[t] \in ServiceObject
      BY DEF IInv, TypeOK
    <3>2. task[t].ip \in IPs \union {NoIP} /\ service[t].ip \in IPs \union {NoIP}
      BY <3>1 DEF Task, ServiceObject
    <3> QED BY <2>1, <2>2, <3>2 DEF SameFor, OwnAddress
  <2>3. ASSUME NEW s \in Services, StepOf(s)
        PROVE  OwnAddress(t)'
    <3>1. CASE s = t
      BY <2>1, <2>3, <3>1, OwnAddressStep
    <3>2. CASE s # t
      BY <2>2, <2>3, <3>2, Isolation
    <3> QED BY <3>1, <3>2
  <2>4. CASE Crash
    BY <2>1, <2>4 DEF Crash, NoTask, OwnAddress
  <2>5. ASSUME NEW i \in IPs, OtherReserves(i)
        PROVE  SameFor(t)
    BY <2>5, HolderAssumption DEF OtherReserves, SameFor, IInv, TypeOK
  <2>6. CASE UNCHANGED vars
    BY <2>2, <2>6 DEF vars, SameFor
  <2> QED BY <2>2, <2>3, <2>4, <2>5, <2>6 DEF Next, StepOf
<1>3. IInv /\ OwnAddressInv => MapsReserved
  BY NoIPAssumption DEF IInv, SyncInv, OwnAddressInv, OwnAddress, MapsReserved
<1> QED BY Invariance, <1>1, <1>2, <1>3, PTL DEF Spec

-----------------------------------------------------------------------------
(* What stays mapped.  An address is a loose end of a service when nothing   *)
(* is left to undo its mapping: it is mapped and not reserved for the        *)
(* service, or about to be mapped like that.  A type that was changed counts *)
(* from the change on, whatever address its service will have by then.       *)

Doubtful(s) ==
    /\ service[s].exists /\ ~service[s].deleting
    /\ \/ ~service[s].wants
       \/ task[s].pc \in Cleaning
       \/ service[s].ip # NoIP /\ holder[service[s].ip] # s

Loose(s, i) ==
    \/ <<s, i>> \in pools /\ holder[i] # s /\ ~(task[s].pc = "unmap" /\ task[s].ip = i)
    \/ Doubtful(s) /\ i = service[s].ip
    \/ task[s].pc \in {"find", "map"} /\ i = task[s].ip /\ i # NoIP /\ holder[i] # s

Addresses == IPs \union {NoIP}
LooseEnds == {p \in Services \X Addresses : Loose(p[1], p[2])}
Running == {s \in Services : task[s].pc # "idle"}

\* A sync asks for an address only for a Service whose spec has none.
AskedFor(s) ==
    /\ task[s].pc = "find" => task[s].ip = service[s].ip
    /\ task[s].pc \in {"request", "save"} => service[s].ip = NoIP

LeakInv ==
    /\ \A s \in Services : AskedFor(s)
    /\ IsFiniteSet(Running) /\ Cardinality(Running) <= Workers
    /\ IsFiniteSet(LooseEnds) /\ Cardinality(LooseEnds) <= faults * Workers

\* A sync of one service makes no loose end of another.
LEMMA LooseOfOthers ==
  ASSUME IInv, NEW s \in Services, NEW t \in Services, t # s, StepOf(s), NEW i \in Addresses, Loose(t, i)'
  PROVE  Loose(t, i)
<1>1. SameFor(t)
  BY Isolation
<1>2. <<t, i>> \in pools' => <<t, i>> \in pools
  <2>1. CASE MapIP(s)
    <3>1. pools' \subseteq pools \union {<<s, task[s].ip>>}
      BY <2>1 DEF MapIP, Mapped
    <3> QED BY <3>1
  <2>2. CASE UnmapIP(s)
    BY <2>2 DEF UnmapIP, Unmapped
  <2>3. CASE ResponseLost(s)
    BY <2>3 DEF ResponseLost
  <2>4. CASE ~(MapIP(s) \/ UnmapIP(s) \/ ResponseLost(s))
    <3>1. pools' = pools
      BY <2>4 DEF StepOf, Worker, Start, StartEnsure, StartDelete, GetLoadBalancer, LookUpReservation,
         ReleaseReservation, RemoveFinalizer, FindReservation, RequestReservation, SaveIP, CallFails, CreateService,
         ChangeType, EditService, DeleteService
    <3> QED BY <3>1
  <2> QED BY <2>1, <2>2, <2>3, <2>4
<1>3. task[t] \in Task /\ service[t] \in ServiceObject /\ pools \subseteq Services \X IPs
  BY DEF IInv, TypeOK
<1>4. \A j \in IPs : holder'[j] # t <=> holder[j] # t
  BY <1>1 DEF SameFor
<1>5. Doubtful(t)' => Doubtful(t)
  BY <1>1, <1>3, <1>4 DEF SameFor, Doubtful, ServiceObject
<1>6. i \in IPs \/ i = NoIP
  BY DEF Addresses
<1>7. <<t, i>> \in pools => i \in IPs
  BY <1>3
<1> QED BY <1>1, <1>2, <1>4, <1>5, <1>6, <1>7 DEF Loose, SameFor

LEMMA AskedForStep ==
  ASSUME IInv, NEW s \in Services, AskedFor(s), StepOf(s)
  PROVE  AskedFor(s)'
<1>0. /\ task \in [Services -> Task] /\ service \in [Services -> ServiceObject]
  BY DEF IInv, TypeOK
<1>1. CASE StartEnsure(s)
  <2>1. task'[s] = [pc |-> "find", ip |-> service[s].ip] /\ service'[s].ip = service[s].ip
    BY <1>0, <1>1 DEF StartEnsure, GotoWith, ServiceObject
  <2> QED BY <2>1 DEF AskedFor
<1>2. CASE FindReservation(s)
  <2>1. service' = service
    BY <1>2 DEF FindReservation
  <2>2. task'[s].pc = "map" \/ (task[s].ip = NoIP /\ task'[s].pc \in {"request", "save"})
    BY <1>0, <1>2 DEF FindReservation, Goto, GotoWith, Task
  <2> QED BY <1>2, <2>1, <2>2 DEF AskedFor, FindReservation
<1>3. CASE RequestReservation(s)
  <2>1. service' = service /\ task'[s].pc \in {"save", "idle"}
    BY <1>0, <1>3 DEF RequestReservation, GotoWith, Fail, Return, NoTask
  <2> QED BY <1>3, <2>1 DEF AskedFor, RequestReservation
<1>4. CASE \/ StartDelete(s) \/ GetLoadBalancer(s) \/ LookUpReservation(s) \/ ReleaseReservation(s) \/ UnmapIP(s)
           \/ RemoveFinalizer(s) \/ SaveIP(s) \/ MapIP(s) \/ CallFails(s) \/ ResponseLost(s)
  <2>1. task'[s].pc \notin {"find", "request", "save"}
    BY <1>0, <1>4 DEF StartDelete, GetLoadBalancer, LookUpReservation, ReleaseReservation, UnmapIP, RemoveFinalizer,
       SaveIP, MapIP, CallFails, ResponseLost, Goto, GotoWith, Fail, Return, NoTask, Task
  <2> QED BY <2>1 DEF AskedFor
<1>5. CASE CreateService(s) \/ DeleteService(s)
  <2>1. task' = task /\ (task[s].pc = "idle" \/ service'[s].ip = service[s].ip)
    BY <1>0, <1>5 DEF CreateService, DeleteService, IInv, FinalizerInv, ServiceObject
  <2> QED BY <2>1 DEF AskedFor
<1>6. CASE ChangeType(s) \/ EditService(s)
  <2>1. task' = task /\ service'[s].ip = service[s].ip
    BY <1>0, <1>6 DEF ChangeType, EditService, ServiceObject
  <2> QED BY <2>1 DEF AskedFor
<1> QED BY <1>1, <1>2, <1>3, <1>4, <1>5, <1>6 DEF StepOf, Worker, Start

\* What a service's own step adds: nothing; or the address that is saved in place of
\* none; or, where the step is a disturbance, a single address.
Added(s, b) == \A i \in Addresses : Loose(s, i)' => Loose(s, i) \/ i = b
Moved(s) == Loose(s, NoIP) /\ ~Loose(s, NoIP)' /\ \E b \in Addresses : Added(s, b)
Disturbed(s) == faults' = faults + 1 /\ \E b \in Addresses : Added(s, b)
NoneAdded(s) == \A i \in Addresses : Loose(s, i)' => Loose(s, i)

LEMMA LooseOfUsers ==
  ASSUME IInv, NEW s \in Services, CreateService(s) \/ ChangeType(s) \/ EditService(s) \/ DeleteService(s)
  PROVE  (faults' = faults /\ NoneAdded(s)) \/ Disturbed(s)
<1>0. /\ task \in [Services -> Task] /\ service \in [Services -> ServiceObject] /\ faults \in Nat
      /\ task[s].pc # "idle" => service[s].exists
      /\ \A i \in IPs : holder[i] = s => service[s].exists
  BY FaultsAssumption DEF IInv, TypeOK, FinalizerInv, NoOrphanReservation
<1>1. UNCHANGED <<holder, pools, task>>
  BY DEF CreateService, ChangeType, EditService, DeleteService
<1>2. service'[s].ip \in Addresses
  <2>1. service' \in [Services -> ServiceObject]
    BY TypeStep DEF Next, IInv, TypeOK
  <2> QED BY <2>1 DEF ServiceObject, Addresses
<1>3. Added(s, service'[s].ip)
  BY <1>1 DEF Added, Loose
<1>4. CASE CreateService(s)
  <2>1. CASE faults' = faults + 1
    BY <1>2, <1>3, <2>1 DEF Disturbed
  <2>2. CASE faults' # faults + 1
    <3>1. service'[s] = [Absent EXCEPT !.exists = TRUE, !.wants = TRUE, !.ip = NoIP] /\ faults' = faults
      BY <1>0, <1>4, <2>2 DEF CreateService, Disturb
    <3>2. ~Doubtful(s)'
      BY <1>0, <1>1, <1>4, <3>1 DEF Doubtful, Absent, Cleaning, CreateService
    <3>3. NoneAdded(s)
      BY <1>1, <3>2 DEF NoneAdded, Loose
    <3> QED BY <3>1, <3>3
  <2> QED BY <2>1, <2>2
<1>5. CASE ChangeType(s)
  <2>1. faults' = faults + 1
    BY <1>5 DEF ChangeType, Disturb
  <2> QED BY <1>2, <1>3, <2>1 DEF Disturbed
<1>6. CASE EditService(s)
  BY <1>1, <1>6 DEF EditService, NoneAdded, Loose, Doubtful
<1>7. CASE DeleteService(s)
  <2>1. ~service'[s].exists \/ service'[s].deleting
    BY <1>0, <1>7 DEF DeleteService, ServiceObject, Absent
  <2>2. NoneAdded(s) /\ faults' = faults
    BY <1>1, <1>7, <2>1 DEF NoneAdded, Loose, Doubtful, DeleteService
  <2> QED BY <2>2
<1> QED BY <1>4, <1>5, <1>6, <1>7

\* A sync that goes on makes no loose end, except that the saved address takes the place
\* of the one that was still to come.
LEMMA LooseOfSync ==
  ASSUME IInv, NEW s \in Services, AskedFor(s), Worker(s)
  PROVE  faults' = faults /\ (NoneAdded(s) \/ Moved(s))
<1> USE HolderAssumption, NoIPAssumption
<1>0. /\ task \in [Services -> Task] /\ service \in [Services -> ServiceObject] /\ Own(s)
      /\ holder \in [IPs -> Services \union {Nobody, Other}] /\ pools \subseteq Services \X IPs
      /\ service[s].ip \in Addresses /\ task[s].ip \in Addresses
      /\ task[s].pc # "idle" => service[s].exists
  BY InvByService DEF IInv, TypeOK, Own, Task, ServiceObject, Addresses
<1>1. CASE StartEnsure(s)
  <2>1. /\ task'[s].pc = "find" /\ task'[s].ip = service[s].ip
        /\ UNCHANGED <<holder, pools, faults>>
        /\ service[s].exists /\ ~service[s].deleting /\ service[s].wants /\ task[s].pc = "idle"
    BY <1>0, <1>1 DEF StartEnsure, Take, GotoWith
  <2>2. service'[s] = [service[s] EXCEPT !.finalizer = TRUE] /\ service[s] \in ServiceObject
    BY <1>0, <1>1 DEF StartEnsure
  <2>3. /\ service'[s].exists = service[s].exists /\ service'[s].deleting = service[s].deleting
        /\ service'[s].wants = service[s].wants /\ service'[s].ip = service[s].ip
    BY <2>2 DEF ServiceObject
  <2> QED BY <2>1, <2>3 DEF NoneAdded, Loose, Doubtful, Cleaning
<1>2. CASE StartDelete(s)
  <2>1. /\ task'[s].pc = "check" /\ UNCHANGED <<service, holder, pools, faults>>
        /\ service[s].deleting \/ ~service[s].wants
    BY <1>0, <1>2 DEF StartDelete, Goto
  <2>2. task[s].pc = "idle"
    BY <1>2 DEF StartDelete, Take
  <2> QED BY <2>1, <2>2 DEF NoneAdded, Loose, Doubtful, Cleaning
<1>3. CASE GetLoadBalancer(s) \/ LookUpReservation(s)
  <2>1. task[s].pc \in {"check", "lookup"} /\ UNCHANGED <<service, holder, pools, faults>>
    BY <1>3 DEF GetLoadBalancer, LookUpReservation
  <2>2. task'[s].pc \in {"lookup", "finalize", "release"}
    <3>1. CASE GetLoadBalancer(s)
      BY <1>0, <3>1 DEF GetLoadBalancer, Goto, Task
    <3>2. CASE LookUpReservation(s)
      BY <1>0, <3>2 DEF LookUpReservation, Goto, GotoWith, Task
    <3> QED BY <1>3, <3>1, <3>2
  <2> QED BY <2>1, <2>2 DEF NoneAdded, Loose, Doubtful, Cleaning
<1>4. CASE ReleaseReservation(s)
  <2>1. /\ task[s].pc = "release" /\ task'[s].pc = "unmap" /\ task'[s].ip = task[s].ip
        /\ holder' = [holder EXCEPT ![task[s].ip] = Nobody]
        /\ UNCHANGED <<service, pools, faults>>
    BY <1>0, <1>4 DEF ReleaseReservation, Goto, Task
  <2>2. \A i \in IPs : i # task[s].ip => holder'[i] = holder[i]
    BY <1>0, <2>1
  <2>3. \A i \in Addresses : <<s, i>> \in pools => i \in IPs
    BY <1>0
  <2> QED BY <2>1, <2>2, <2>3 DEF NoneAdded, Loose, Doubtful, Cleaning
<1>5. CASE UnmapIP(s)
  <2>1. /\ task[s].pc = "unmap" /\ task'[s].pc = "finalize" /\ task[s].ip \in IPs
        /\ pools' = Unmapped(s, task[s].ip)
        /\ UNCHANGED <<service, holder, faults>>
    BY <1>0, <1>5 DEF UnmapIP, Goto, Own
  <2>2. <<s, task[s].ip>> \notin pools' /\ pools' \subseteq pools
    BY <2>1 DEF Unmapped
  <2> QED BY <2>1, <2>2 DEF NoneAdded, Loose, Doubtful, Cleaning
<1>6. CASE RemoveFinalizer(s)
  <2>1. /\ task[s].pc = "finalize" /\ task'[s].pc = "idle"
        /\ UNCHANGED <<holder, pools, faults>>
        /\ service'[s] = IF service[s].deleting THEN Absent ELSE [service[s] EXCEPT !.finalizer = FALSE]
    BY <1>0, <1>6 DEF RemoveFinalizer, Return, NoTask
  <2>2. \/ ~service'[s].exists
        \/ /\ service'[s].exists = service[s].exists /\ service'[s].deleting = service[s].deleting
           /\ service'[s].wants = service[s].wants /\ service'[s].ip = service[s].ip
    <3>1. service[s] \in ServiceObject
      BY <1>0
    <3>2. CASE service[s].deleting
      BY <2>1, <3>2 DEF Absent
    <3>3. CASE ~service[s].deleting
      <4>1. service'[s] = [service[s] EXCEPT !.finalizer = FALSE]
        BY <2>1, <3>3
      <4> QED BY <3>1, <4>1 DEF ServiceObject
    <3> QED BY <3>2, <3>3
  <2> QED BY <2>1, <2>2 DEF NoneAdded, Loose, Doubtful, Cleaning
<1>7. CASE FindReservation(s)
  <2>1. task[s].pc = "find" /\ UNCHANGED <<service, holder, pools, faults>>
    BY <1>7 DEF FindReservation
  <2>2. \/ task'[s].pc = "map" /\ task'[s].ip = task[s].ip
        \/ task'[s].pc \in {"request", "save"}
    BY <1>0, <1>7 DEF FindReservation, Goto, GotoWith, Task
  <2> QED BY <2>1, <2>2 DEF NoneAdded, Loose, Doubtful, Cleaning
<1>8. CASE RequestReservation(s)
  <2>1. /\ task[s].pc = "request" /\ task'[s].pc \in {"save", "idle"} /\ UNCHANGED <<service, pools, faults>>
        /\ \A i \in IPs : holder'[i] # s => holder[i] # s
    BY <1>0, <1>8 DEF RequestReservation, GotoWith, Fail, Return, NoTask
  <2>2. \A i \in Addresses : <<s, i>> \in pools => i \in IPs
    BY <1>0
  <2>3. service[s].ip = NoIP
    BY <2>1 DEF AskedFor
  <2> QED BY <2>1, <2>2, <2>3 DEF NoneAdded, Loose, Doubtful, Cleaning
<1>9. CASE SaveIP(s)
  <2> DEFINE b == task[s].ip
  <2>1. /\ task[s].pc = "save" /\ task'[s].pc = "map" /\ task'[s].ip = b /\ b \in IPs /\ holder[b] = s
        /\ UNCHANGED <<holder, pools, faults>> /\ service[s].ip = NoIP
        /\ service'[s] = [service[s] EXCEPT !.ip = b] /\ service[s] \in ServiceObject
    BY <1>0, <1>9 DEF SaveIP, Goto, Task, Own, AskedFor
  <2>2. /\ service'[s].exists = service[s].exists /\ service'[s].deleting = service[s].deleting
        /\ service'[s].wants = service[s].wants /\ service'[s].ip = b
    BY <2>1 DEF ServiceObject
  <2>3. <<s, NoIP>> \notin pools
    BY <1>0
  <2>4. CASE Doubtful(s)
    <3>1. Loose(s, NoIP) /\ ~Loose(s, NoIP)'
      BY <2>1, <2>2, <2>3, <2>4 DEF Loose
    <3>2. Added(s, b)
      BY <2>1, <2>2 DEF Added, Loose
    <3> QED BY <1>0, <2>1, <3>1, <3>2 DEF Moved
  <2>5. CASE ~Doubtful(s)
    <3>1. ~Doubtful(s)'
      BY <2>1, <2>2, <2>5 DEF Doubtful, Cleaning
    <3> QED BY <2>1, <2>2, <3>1 DEF NoneAdded, Loose
  <2> QED BY <2>4, <2>5
<1>10. CASE MapIP(s)
  <2>1. /\ task[s].pc = "map" /\ task'[s].pc = "idle" /\ task[s].ip \in IPs
        /\ UNCHANGED <<service, holder, faults>>
        /\ pools' \subseteq pools \union {<<s, task[s].ip>>}
    BY <1>0, <1>10 DEF MapIP, Mapped, Fail, Return, NoTask, Own
  <2>2. \A i \in Addresses : <<s, i>> \in pools' => <<s, i>> \in pools \/ i = task[s].ip
    BY <2>1
  <2> QED BY <2>1, <2>2 DEF NoneAdded, Loose, Doubtful, Cleaning
<1> QED BY <1>1, <1>2, <1>3, <1>4, <1>5, <1>6, <1>7, <1>8, <1>9, <1>10 DEF Worker, Start

LEMMA LooseOfFailures ==
  ASSUME IInv, NEW s \in Services, AskedFor(s), CallFails(s) \/ ResponseLost(s)
  PROVE  Disturbed(s)
<1> USE HolderAssumption, NoIPAssumption
<1>0. /\ task \in [Services -> Task] /\ service \in [Services -> ServiceObject] /\ Own(s)
      /\ holder \in [IPs -> Services \union {Nobody, Other}] /\ pools \subseteq Services \X IPs
      /\ service[s].ip \in Addresses /\ task[s].ip \in Addresses
  BY InvByService DEF IInv, TypeOK, Task, ServiceObject, Addresses
<1>1. faults' = faults + 1 /\ task'[s].pc = "idle" /\ pools' = pools
  BY <1>0 DEF CallFails, ResponseLost, Disturb, Fail, Return, NoTask
<1>2. \A i \in Addresses : <<s, i>> \in pools => i \in IPs
  BY <1>0
<1>3. Added(s, task[s].ip)
  <2>1. CASE CallFails(s) \/ (ResponseLost(s) /\ task[s].pc \notin {"request", "save", "release"})
    <3>1. UNCHANGED <<service, holder>>
      BY <2>1 DEF CallFails, ResponseLost
    <3> QED BY <1>1, <3>1 DEF Added, Loose, Doubtful, Cleaning
  <2>2. CASE ResponseLost(s) /\ task[s].pc = "request"
    <3>1. service' = service /\ \A i \in IPs : holder'[i] # s => holder[i] # s
      BY <1>0, <2>2 DEF ResponseLost
    <3>2. service[s].ip = NoIP
      BY <2>2 DEF AskedFor
    <3> QED BY <1>1, <1>2, <2>2, <3>1, <3>2 DEF Added, Loose, Doubtful, Cleaning
  <2>3. CASE ResponseLost(s) /\ task[s].pc = "save"
    <3>1. holder' = holder /\ service'[s] = [service[s] EXCEPT !.ip = task[s].ip] /\ service[s] \in ServiceObject
      BY <1>0, <2>3 DEF ResponseLost
    <3>2. service'[s].ip = task[s].ip
      BY <3>1 DEF ServiceObject
    <3> QED BY <1>1, <2>3, <3>1, <3>2 DEF Added, Loose
  <2>4. CASE ResponseLost(s) /\ task[s].pc = "release"
    <3>1. service' = service /\ holder' = [holder EXCEPT ![task[s].ip] = Nobody]
      BY <2>4 DEF ResponseLost
    <3>2. \A i \in IPs : i # task[s].ip => holder'[i] = holder[i]
      BY <1>0, <3>1
    <3> QED BY <1>1, <1>2, <2>4, <3>1, <3>2 DEF Added, Loose, Doubtful, Cleaning
  <2> QED BY <2>1, <2>2, <2>3, <2>4
<1> QED BY <1>0, <1>1, <1>3 DEF Disturbed

\* A crash cuts off what runs: the address of each sync may become a loose end.
LEMMA LooseOfCrash ==
  ASSUME IInv, Crash
  PROVE  LooseEnds' \subseteq LooseEnds \union {<<s, task[s].ip>> : s \in Running}
<1>1. /\ task' = [s \in Services |-> NoTask] /\ UNCHANGED <<service, holder, pools>>
  BY DEF Crash
<1> SUFFICES ASSUME NEW s \in Services, NEW i \in Addresses, Loose(s, i)'
             PROVE  Loose(s, i) \/ (task[s].pc # "idle" /\ i = task[s].ip)
  BY DEF LooseEnds, Running, Addresses
<1>2. task'[s].pc = "idle"
  BY <1>1 DEF NoTask
<1> QED BY <1>1, <1>2 DEF Loose, Doubtful, Cleaning

-----------------------------------------------------------------------------
(* Counting. *)

\* A set that gets one more member, or another in the place of one, grows by one at most.
LEMMA OneMore ==
  ASSUME NEW S, IsFiniteSet(S), NEW T, NEW x, T \subseteq S \union {x}
  PROVE  IsFiniteSet(T) /\ Cardinality(T) <= Cardinality(S) + 1
         /\ Cardinality(S) \in Nat /\ Cardinality(T) \in Nat
<1>1. /\ IsFiniteSet(S \union {x})
      /\ Cardinality(S \union {x}) = IF x \in S THEN Cardinality(S) ELSE Cardinality(S) + 1
  BY FS_AddElement
<1>2. IsFiniteSet(T) /\ Cardinality(T) <= Cardinality(S \union {x})
  BY <1>1, FS_Subset
<1>3. Cardinality(S) \in Nat /\ Cardinality(T) \in Nat
  BY <1>2, FS_CardinalityType
<1> QED BY <1>1, <1>2, <1>3

LEMMA InPlaceOf ==
  ASSUME NEW S, IsFiniteSet(S), NEW T, NEW x, NEW y \in S, y \notin T, T \subseteq S \union {x}
  PROVE  IsFiniteSet(T) /\ Cardinality(T) <= Cardinality(S)
<1>1. IsFiniteSet(S \ {y}) /\ Cardinality(S \ {y}) = Cardinality(S) - 1
  BY FS_RemoveElement
<1>2. T \subseteq (S \ {y}) \union {x}
  OBVIOUS
<1>3. Cardinality(S) \in Nat
  BY FS_CardinalityType
<1> DEFINE R == S \ {y}
<1> HIDE DEF R
<1>4. IsFiniteSet(T) /\ Cardinality(T) <= Cardinality(R) + 1 /\ Cardinality(T) \in Nat
  BY <1>1, <1>2, OneMore DEF R
<1> QED BY <1>1, <1>3, <1>4 DEF R

\* The syncs that run are never more than the workers.
LEMMA RunningStep ==
  ASSUME IInv, LeakInv, [Next]_vars
  PROVE  IsFiniteSet(Running') /\ Cardinality(Running') <= Workers
<1>0. task \in [Services -> Task] /\ IsFiniteSet(Running) /\ Cardinality(Running) <= Workers /\ Cardinality(Running) \in Nat
  BY FS_CardinalityType DEF IInv, TypeOK, LeakInv
<1>1. CASE Running' \subseteq Running
  <2>1. IsFiniteSet(Running') /\ Cardinality(Running') <= Cardinality(Running)
    BY <1>0, <1>1, FS_Subset
  <2>2. Cardinality(Running') \in Nat
    BY <2>1, FS_CardinalityType
  <2> QED BY <1>0, <2>1, <2>2, WorkersAssumption
<1>2. ASSUME NEW s \in Services, StartEnsure(s) \/ StartDelete(s)
      PROVE  IsFiniteSet(Running') /\ Cardinality(Running') <= Workers
  <2>1. Cardinality(Running) < Workers
    BY <1>2 DEF StartEnsure, StartDelete, Take, Running
  <2>2. Running' \subseteq Running \union {s}
    BY <1>0, <1>2 DEF StartEnsure, StartDelete, Goto, GotoWith, Running
  <2>3. IsFiniteSet(Running') /\ Cardinality(Running') <= Cardinality(Running) + 1 /\ Cardinality(Running') \in Nat
    BY <1>0, <2>2, OneMore
  <2> QED BY <1>0, <2>1, <2>3, WorkersAssumption
<1>3. ASSUME NEW s \in Services, StepOf(s), ~(StartEnsure(s) \/ StartDelete(s)) PROVE Running' \subseteq Running
  <2>1. \A t \in Services \ {s} : task'[t] = task[t]
    BY <1>3, Isolation DEF SameFor
  <2>2. task[s].pc = "idle" => task'[s] = task[s]
    BY <1>0, <1>3 DEF StepOf, Worker, Start, GetLoadBalancer, LookUpReservation, ReleaseReservation, UnmapIP,
       RemoveFinalizer, FindReservation, RequestReservation, SaveIP, MapIP, CallFails, ResponseLost, CreateService,
       ChangeType, EditService, DeleteService
  <2> QED BY <2>1, <2>2 DEF Running
<1>4. CASE Crash \/ UNCHANGED vars
  <2>1. Running' \subseteq Running
    BY <1>4 DEF Crash, vars, Running, NoTask
  <2> QED BY <2>1, <1>1
<1>5. ASSUME NEW i \in IPs, OtherReserves(i) PROVE Running' \subseteq Running
  BY <1>5 DEF OtherReserves, Running
<1> QED BY <1>1, <1>2, <1>3, <1>4, <1>5 DEF Next, StepOf

LEMMA WorkersMore ==
  ASSUME NEW f \in Nat, NEW w \in Nat \ {0}
  PROVE  f * w \in Nat /\ (f + 1) * w = f * w + w /\ f * w + 1 <= (f + 1) * w
<1>1. f * w \in Nat /\ (f + 1) * w = f * w + w
  OBVIOUS
<1> QED BY <1>1

\* What one service's step does to the loose ends of all.
LEMMA LooseEndsOfStep ==
  ASSUME IInv, LeakInv, NEW s \in Services, StepOf(s)
  PROVE  IsFiniteSet(LooseEnds') /\ Cardinality(LooseEnds') <= faults' * Workers
<1>1. /\ IsFiniteSet(LooseEnds) /\ Cardinality(LooseEnds) <= faults * Workers
      /\ faults \in Nat /\ AskedFor(s) /\ Workers \in Nat \ {0}
  BY FaultsAssumption, WorkersAssumption DEF IInv, TypeOK, LeakInv
<1>2. \A t \in Services \ {s}, i \in Addresses : Loose(t, i)' => Loose(t, i)
  BY LooseOfOthers
<1>3. \/ faults' = faults /\ (NoneAdded(s) \/ Moved(s))
      \/ Disturbed(s)
  BY <1>1, LooseOfUsers, LooseOfSync, LooseOfFailures DEF StepOf
<1>4. CASE faults' = faults /\ NoneAdded(s)
  <2>1. LooseEnds' \subseteq LooseEnds
    BY <1>2, <1>4 DEF LooseEnds, NoneAdded
  <2>2. IsFiniteSet(LooseEnds') /\ Cardinality(LooseEnds') <= Cardinality(LooseEnds)
    BY <1>1, <2>1, FS_Subset
  <2>3. Cardinality(LooseEnds') \in Nat /\ Cardinality(LooseEnds) \in Nat
    BY <1>1, <2>2, FS_CardinalityType
  <2> QED BY <1>1, <1>4, <2>2, <2>3, WorkersMore
<1>5. CASE faults' = faults /\ Moved(s)
  <2>1. PICK b \in Addresses : Added(s, b)
    BY <1>5 DEF Moved
  <2>2. LooseEnds' \subseteq LooseEnds \union {<<s, b>>}
    BY <1>2, <2>1 DEF LooseEnds, Added
  <2>3. <<s, NoIP>> \in LooseEnds /\ <<s, NoIP>> \notin LooseEnds'
    BY <1>5 DEF Moved, LooseEnds, Addresses
  <2>4. IsFiniteSet(LooseEnds') /\ Cardinality(LooseEnds') <= Cardinality(LooseEnds)
    BY <1>1, <2>2, <2>3, InPlaceOf
  <2>5. Cardinality(LooseEnds') \in Nat /\ Cardinality(LooseEnds) \in Nat
    BY <1>1, <2>4, FS_CardinalityType
  <2> QED BY <1>1, <1>5, <2>4, <2>5, WorkersMore
<1>6. CASE Disturbed(s)
  <2>1. PICK b \in Addresses : Added(s, b)
    BY <1>6 DEF Disturbed
  <2>2. LooseEnds' \subseteq LooseEnds \union {<<s, b>>}
    BY <1>2, <2>1 DEF LooseEnds, Added
  <2>3. /\ IsFiniteSet(LooseEnds') /\ Cardinality(LooseEnds') <= Cardinality(LooseEnds) + 1
        /\ Cardinality(LooseEnds') \in Nat /\ Cardinality(LooseEnds) \in Nat
    BY <1>1, <2>2, OneMore
  <2>4. faults' = faults + 1
    BY <1>6 DEF Disturbed
  <2>5. faults * Workers \in Nat /\ faults * Workers + 1 <= (faults + 1) * Workers /\ (faults + 1) * Workers \in Nat
    BY <1>1, WorkersMore
  <2> DEFINE most == faults * Workers
             more == (faults + 1) * Workers
  <2> HIDE DEF most, more
  <2>6. most \in Nat /\ more \in Nat /\ most + 1 <= more /\ Cardinality(LooseEnds) <= most
    BY <1>1, <2>5 DEF most, more
  <2>7. Cardinality(LooseEnds') <= more
    BY <2>3, <2>6
  <2> QED BY <2>3, <2>4, <2>7 DEF more
<1> QED BY <1>3, <1>4, <1>5, <1>6

LEMMA LeakStep ==
  ASSUME IInv, LeakInv, [Next]_vars
  PROVE  LeakInv'
<1>1. /\ IsFiniteSet(LooseEnds) /\ Cardinality(LooseEnds) <= faults * Workers
      /\ faults \in Nat /\ Workers \in Nat \ {0}
      /\ IsFiniteSet(Running) /\ Cardinality(Running) <= Workers
  BY FaultsAssumption, WorkersAssumption DEF IInv, TypeOK, LeakInv
<1>2. ASSUME NEW t \in Services PROVE AskedFor(t)'
  <2>1. AskedFor(t)
    BY DEF LeakInv
  <2>2. ASSUME NEW s \in Services, StepOf(s), s # t PROVE AskedFor(t)'
    BY <2>1, <2>2, Isolation DEF SameFor, AskedFor
  <2>3. CASE Crash
    BY <2>3 DEF Crash, AskedFor, NoTask
  <2>4. CASE UNCHANGED vars \/ \E i \in IPs : OtherReserves(i)
    BY <2>1, <2>4 DEF OtherReserves, vars, AskedFor
  <2> QED BY <2>1, <2>2, <2>3, <2>4, AskedForStep DEF Next, StepOf
<1>3. IsFiniteSet(LooseEnds') /\ Cardinality(LooseEnds') <= faults' * Workers
  <2>1. CASE \E s \in Services : StepOf(s)
    BY <2>1, LooseEndsOfStep
  <2>2. CASE Crash
    <3> DEFINE Cut == {<<s, task[s].ip>> : s \in Running}
    <3>1. IsFiniteSet(Cut) /\ Cardinality(Cut) <= Workers /\ Cardinality(Cut) \in Nat
      <4> DEFINE f == [s \in Running |-> <<s, task[s].ip>>]
      <4>1. f \in Surjection(Running, Cut)
        BY DEF Surjection
      <4> HIDE DEF f, Cut
      <4>2. IsFiniteSet(Cut) /\ Cardinality(Cut) <= Cardinality(Running)
        BY <1>1, <4>1, FS_Surjection
      <4>3. Cardinality(Cut) \in Nat /\ Cardinality(Running) \in Nat
        BY <1>1, <4>2, FS_CardinalityType
      <4> QED BY <1>1, <4>2, <4>3
    <3>2. LooseEnds' \subseteq LooseEnds \union Cut
      BY <2>2, LooseOfCrash
    <3> HIDE DEF Cut
    <3>3. /\ IsFiniteSet(LooseEnds \union Cut)
          /\ Cardinality(LooseEnds \union Cut) = Cardinality(LooseEnds) + Cardinality(Cut) - Cardinality(LooseEnds \cap Cut)
      BY <1>1, <3>1, FS_Union
    <3>4. Cardinality(LooseEnds \cap Cut) \in Nat /\ Cardinality(LooseEnds) \in Nat
      <4>1. IsFiniteSet(LooseEnds \cap Cut)
        BY <1>1, FS_Intersection
      <4> QED BY <1>1, <4>1, FS_CardinalityType
    <3>5. IsFiniteSet(LooseEnds') /\ Cardinality(LooseEnds') <= Cardinality(LooseEnds \union Cut)
      BY <3>2, <3>3, FS_Subset
    <3>6. Cardinality(LooseEnds') \in Nat
      BY <3>5, FS_CardinalityType
    <3>7. faults' = faults + 1
      BY <2>2 DEF Crash, Disturb
    <3> DEFINE most == faults * Workers
    <3>8. most \in Nat /\ (faults + 1) * Workers = most + Workers /\ Cardinality(LooseEnds) <= most
      BY <1>1, WorkersMore
    <3> HIDE DEF most
    <3>9. Cardinality(LooseEnds') <= most + Workers
      BY <1>1, <3>1, <3>3, <3>4, <3>5, <3>6, <3>8
    <3> QED BY <3>5, <3>7, <3>8, <3>9
  <2>3. CASE UNCHANGED vars \/ \E i \in IPs : OtherReserves(i)
    <3>1. LooseEnds' \subseteq LooseEnds
      <4>1. /\ UNCHANGED <<service, pools, task>>
            /\ \A s \in Services, i \in IPs : holder'[i] # s => holder[i] # s
        BY <2>3, HolderAssumption DEF OtherReserves, vars, IInv, TypeOK
      <4>2. \A s \in Services : service[s].ip \in IPs \union {NoIP}
        BY DEF IInv, TypeOK, ServiceObject
      <4>3. pools \subseteq Services \X IPs
        BY DEF IInv, TypeOK
      <4> QED BY <4>1, <4>2, <4>3 DEF LooseEnds, Loose, Doubtful, Addresses
    <3>2. IsFiniteSet(LooseEnds') /\ Cardinality(LooseEnds') <= Cardinality(LooseEnds)
      BY <1>1, <3>1, FS_Subset
    <3>3. Cardinality(LooseEnds') \in Nat /\ Cardinality(LooseEnds) \in Nat
      BY <1>1, <3>2, FS_CardinalityType
    <3>4. faults' \in {faults, faults + 1}
      BY <2>3 DEF vars, OtherReserves, Disturb
    <3> DEFINE most == faults * Workers
    <3>5. most \in Nat /\ (faults + 1) * Workers = most + Workers /\ Cardinality(LooseEnds) <= most
      BY <1>1, WorkersMore
    <3>6. CASE faults' = faults
      BY <3>2, <3>3, <3>5, <3>6
    <3>7. CASE faults' = faults + 1
      <4> HIDE DEF most
      <4>1. Cardinality(LooseEnds') <= most + Workers
        BY <1>1, <3>2, <3>3, <3>5
      <4> QED BY <3>2, <3>5, <3>7, <4>1
    <3> QED BY <3>4, <3>6, <3>7
  <2> QED BY <2>1, <2>2, <2>3 DEF Next, StepOf
<1> QED BY <1>2, <1>3, RunningStep DEF LeakInv

\* What is mapped for a Service that is gone is a loose end, and there are at most as many as
\* disturbances times workers, whatever kinds of disturbance happen: for each failure, lost
\* answer, address of a user's own or change of type one, for each crash one of every sync it
\* cuts off (loadbalancers.go:262-305).
THEOREM LeaksComeFromFailures == Spec => []LeaksAreFailures
<1>1. Init => LeakInv
  <2> SUFFICES ASSUME Init PROVE LeakInv
    OBVIOUS
  <2>1. Running = {} /\ LooseEnds = {} /\ faults = 0
    BY DEF Init, Running, LooseEnds, Loose, Doubtful, NoTask, Absent
  <2>2. \A s \in Services : AskedFor(s)
    BY DEF Init, AskedFor, NoTask
  <2>3. IsFiniteSet({}) /\ Cardinality({}) = 0
    BY FS_EmptySet
  <2> QED BY <2>1, <2>2, <2>3, WorkersAssumption DEF LeakInv
<1>2. IInv /\ LeakInv /\ [Next]_vars => LeakInv'
  BY LeakStep
<1>3. IInv /\ LeakInv => LeaksAreFailures
  <2> SUFFICES ASSUME IInv, LeakInv PROVE LeaksAreFailures
    OBVIOUS
  <2> DEFINE Left == {p \in pools : ~service[p[1]].exists}
  <2>1. Left \subseteq LooseEnds
    <3> SUFFICES ASSUME NEW s \in Services, NEW i \in IPs, <<s, i>> \in pools, ~service[s].exists
                 PROVE  <<s, i>> \in LooseEnds
      BY DEF IInv, TypeOK
    <3>1. Own(s)
      BY InvByService
    <3> QED BY <3>1 DEF Own, LooseEnds, Loose, Addresses
  <2>2. IsFiniteSet(LooseEnds) /\ Cardinality(LooseEnds) <= faults * Workers /\ faults \in Nat
    BY FaultsAssumption DEF LeakInv, IInv, TypeOK
  <2> HIDE DEF Left
  <2>3. IsFiniteSet(Left) /\ Cardinality(Left) <= Cardinality(LooseEnds)
    BY <2>1, <2>2, FS_Subset
  <2>4. Cardinality(Left) \in Nat /\ Cardinality(LooseEnds) \in Nat /\ faults * Workers \in Nat
    BY <2>2, <2>3, FS_CardinalityType, WorkersAssumption
  <2>5. Cardinality(Left) <= faults * Workers
    BY <2>2, <2>3, <2>4
  <2> QED BY <2>5 DEF LeaksAreFailures, Left
<1> QED BY Invariance, <1>1, <1>2, <1>3, PTL DEF Spec

-----------------------------------------------------------------------------
(* The refinement.  A step of a service moves its own phase only; what the   *)
(* step does to the phase, to what the user wants and to the reservations    *)
(* decides which abstract step it is.                                        *)

\* The reservations made and released by a step.
Made(s)  == \E i \in IPs : holder[i] = Nobody /\ holder' = [holder EXCEPT ![i] = s]
Freed(s) == \E i \in IPs : holder[i] = s /\ holder' = [holder EXCEPT ![i] = Nobody]

Moves(s, from, to) == Phase(s) = from /\ Phase(s)' = to

\* The kinds of steps a service can take.
Kind(s) ==
    \/ UNCHANGED holder /\ Phase(s)' = Phase(s)
    \/ /\ Wanted(s)' = Wanted(s)
       /\ \/ UNCHANGED holder /\ Moves(s, "none", "claimed") /\ Wanted(s)
          \/ UNCHANGED holder /\ Moves(s, "claimed", "releasing") /\ ~Wanted(s)
          \/ UNCHANGED holder /\ Moves(s, "releasing", "claimed")
          \/ UNCHANGED holder /\ Moves(s, "releasing", "none") /\ ReservationsOf(s) = {}
          \/ Made(s) /\ Moves(s, "claimed", "claimed") /\ ReservationsOf(s) = {}
          \/ Freed(s) /\ Phase(s) = "releasing" /\ Phase(s)' \in {"releasing", "claimed"}

\* Whatever a step of a service is, it is of one of these kinds.
LEMMA KindOfStep ==
  ASSUME IInv, NEW s \in Services, StepOf(s)
  PROVE  Kind(s)
<1> USE DEF Cleaning
<1>0. /\ task \in [Services -> Task] /\ service \in [Services -> ServiceObject]
      /\ Own(s)
  BY InvByService DEF TypeOK
<1>1. task[s].pc # "idle" => service[s].finalizer
  BY <1>0 DEF Own
<1>2. ASSUME service' = service, holder' = holder,
             task[s].pc \in Cleaning <=> task'[s].pc \in Cleaning
      PROVE  Kind(s)
  BY <1>2 DEF Kind, Phase
<1>3. CASE StartEnsure(s)
  <2>1. task[s].pc = "idle" /\ task'[s].pc = "find" /\ holder' = holder /\ Wanted(s)
    BY <1>0, <1>3, TaskAfter DEF StartEnsure, Take, Wanted
  <2>2. service'[s] = [service[s] EXCEPT !.finalizer = TRUE]
    BY <1>0, <1>3 DEF StartEnsure
  <2>3. /\ service'[s].finalizer /\ service'[s].exists = service[s].exists
        /\ service'[s].wants = service[s].wants /\ service'[s].deleting = service[s].deleting
    BY <1>0, <2>2 DEF ServiceObject
  <2>4. Wanted(s)'
    BY <2>1, <2>3 DEF Wanted
  <2> QED BY <2>1, <2>3, <2>4 DEF Kind, Moves, Phase
<1>4. CASE StartDelete(s)
  <2>1. /\ task[s].pc = "idle" /\ task'[s].pc = "check" /\ holder' = holder /\ service' = service
        /\ service[s].finalizer /\ ~Wanted(s)
    BY <1>0, <1>4, TaskAfter DEF StartDelete, Take, Wanted
  <2> QED BY <2>1 DEF Kind, Moves, Phase, Wanted
<1>5. CASE GetLoadBalancer(s) \/ LookUpReservation(s) \/ UnmapIP(s)
  <2>1. task'[s].pc \in Cleaning /\ task[s].pc \in Cleaning /\ holder' = holder /\ service' = service
    BY <1>0, <1>5, TaskAfter DEF GetLoadBalancer, LookUpReservation, UnmapIP
  <2> QED BY <1>2, <2>1
<1>6. CASE RemoveFinalizer(s)
  <2>1. /\ task[s].pc = "finalize" /\ holder' = holder
        /\ service'[s] = IF service[s].deleting THEN Absent ELSE [service[s] EXCEPT !.finalizer = FALSE]
    BY <1>0, <1>6 DEF RemoveFinalizer
  <2>2. ~service'[s].finalizer /\ Wanted(s)' = Wanted(s)
    <3>1. CASE service[s].deleting
      BY <2>1, <3>1 DEF Absent, Wanted
    <3>2. CASE ~service[s].deleting
      <4>1. /\ ~service'[s].finalizer /\ service'[s].exists = service[s].exists
            /\ service'[s].wants = service[s].wants /\ service'[s].deleting = service[s].deleting
        BY <1>0, <2>1, <3>2 DEF ServiceObject
      <4> QED BY <4>1 DEF Wanted
    <3> QED BY <3>1, <3>2
  <2>3. ReservationsOf(s) = {}
    BY <1>0, <2>1 DEF Own
  <2> QED BY <1>1, <2>1, <2>2, <2>3 DEF Kind, Moves, Phase
<1>7. CASE FindReservation(s) \/ MapIP(s)
  <2>1. task'[s].pc \notin Cleaning /\ task[s].pc \notin Cleaning /\ holder' = holder /\ service' = service
    <3>1. CASE FindReservation(s)
      <4>1. \/ Goto(s, "map") \/ Goto(s, "request")
            \/ \E i \in ReservationsOf(s) : GotoWith(s, "save", i)
        BY <3>1 DEF FindReservation
      <4>2. task'[s].pc \in {"map", "request", "save"}
        BY <1>0, <4>1, TaskAfter
      <4> QED BY <3>1, <4>2 DEF FindReservation
    <3>2. CASE MapIP(s)
      BY <1>0, <3>2, TaskAfter DEF MapIP, Fail
    <3> QED BY <1>7, <3>1, <3>2
  <2> QED BY <1>2, <2>1
<1>8. ASSUME task[s].pc = "request", Made(s), service' = service, task'[s].pc \notin Cleaning
      PROVE  Kind(s)
  <2>1. ReservationsOf(s) = {}
    BY <1>0, <1>8 DEF Own
  <2> QED BY <1>1, <1>8, <2>1 DEF Kind, Moves, Phase, Wanted
<1>9. CASE RequestReservation(s)
  <2>1. task[s].pc = "request" /\ service' = service /\ task'[s].pc \notin Cleaning
    BY <1>0, <1>9, TaskAfter DEF RequestReservation, Fail
  <2> QED BY <1>2, <1>8, <1>9, <2>1 DEF RequestReservation, Made
<1>10. ASSUME task[s].pc = "save", service' = [service EXCEPT ![s].ip = task[s].ip], holder' = holder,
              task'[s].pc \notin Cleaning
       PROVE  Kind(s)
  <2>1. service'[s].finalizer = service[s].finalizer
    BY <1>0, <1>10 DEF ServiceObject
  <2> QED BY <1>10, <2>1 DEF Kind, Phase
<1>11. CASE SaveIP(s)
  <2>1. task'[s].pc = "map"
    BY <1>0, <1>11, TaskAfter DEF SaveIP
  <2> QED BY <1>10, <1>11, <2>1 DEF SaveIP
<1>12. ASSUME task[s].pc = "release", holder' = [holder EXCEPT ![task[s].ip] = Nobody], service' = service
       PROVE  Kind(s)
  <2>1. task[s].ip \in IPs /\ holder[task[s].ip] = s
    BY <1>0, <1>12 DEF Own
  <2>2. Freed(s)
    BY <1>12, <2>1 DEF Freed
  <2> QED BY <1>1, <1>12, <2>2 DEF Kind, Phase, Wanted
<1>13. CASE ReleaseReservation(s)
  BY <1>12, <1>13 DEF ReleaseReservation
<1>14. CASE CallFails(s)
  <2>1. task'[s].pc = "idle" /\ holder' = holder /\ service' = service /\ service[s].finalizer
    BY <1>0, <1>1, <1>14, TaskAfter DEF CallFails, Fail
  <2> QED BY <2>1 DEF Kind, Moves, Phase, Wanted
<1>15. CASE ResponseLost(s)
  <2>1. task'[s].pc = "idle"
    BY <1>0, <1>15, TaskAfter DEF ResponseLost, Fail
  <2> QED BY <1>8, <1>10, <1>12, <1>15, <2>1 DEF ResponseLost, Made
<1>16. ASSUME task' = task, holder' = holder, service'[s].finalizer = service[s].finalizer
       PROVE  Kind(s)
  BY <1>16 DEF Kind, Phase
<1>17. CASE CreateService(s)
  <2>1. ~service[s].finalizer
    BY <1>0, <1>17 DEF CreateService, Own
  <2>2. ~service'[s].finalizer
    BY <1>0, <1>17 DEF CreateService, Absent
  <2>3. service[s].finalizer \in BOOLEAN /\ holder' = holder
    BY <1>0, <1>17 DEF ServiceObject, CreateService
  <2> QED BY <2>1, <2>2, <2>3 DEF Kind, Phase
<1>18. CASE ChangeType(s) \/ EditService(s)
  <2>1. service'[s].finalizer = service[s].finalizer
    BY <1>0, <1>18 DEF ChangeType, EditService, ServiceObject
  <2> QED BY <1>16, <1>18, <2>1 DEF ChangeType, EditService
<1>19. CASE DeleteService(s)
  <2>1. task' = task /\ holder' = holder
    BY <1>19 DEF DeleteService
  <2>2. service[s].finalizer => service'[s].finalizer
    BY <1>0, <1>19 DEF DeleteService, ServiceObject
  <2>3. ~service[s].finalizer => ~service'[s].finalizer
    BY <1>0, <1>19 DEF DeleteService, Absent
  <2> QED BY <2>1, <2>2, <2>3 DEF Kind, Phase
<1> QED BY <1>3, <1>4, <1>5, <1>6, <1>7, <1>9, <1>11, <1>13, <1>14, <1>15, <1>17, <1>18, <1>19
        DEF StepOf, Worker, Start

\* A step of any of these kinds that leaves the other services alone is an abstract step.
LEMMA KindIsAbstract ==
  ASSUME NEW s \in Services, Kind(s),
         \A t \in Services \ {s} : Phase(t)' = Phase(t) /\ Wanted(t)' = Wanted(t)
  PROVE  Abstract!Next \/ UNCHANGED Abstract!vars
<1> DEFINE W == {t \in Services : Wanted(t)}
           F == [t \in Services |-> Phase(t)]
<1>1. F' = [F EXCEPT ![s] = Phase(s)'] /\ F[s] = Phase(s) /\ (s \in W <=> Wanted(s))
  OBVIOUS
<1>2. Phase(s)' = Phase(s) => F' = F
  BY <1>1
<1>3. Wanted(s)' = Wanted(s) => W' = W
  OBVIOUS
<1>4. W' \in {W \union {s}, W \ {s}}
  <2>1. CASE Wanted(s)'
    <3>1. W' = W \union {s}
      BY <2>1
    <3> QED BY <3>1
  <2>2. CASE ~Wanted(s)'
    <3>1. W' = W \ {s}
      BY <2>2
    <3> QED BY <3>1
  <2> QED BY <2>1, <2>2
<1>5. ReservationsOf(s) = {} => \A i \in IPs : holder[i] # s
  BY DEF ReservationsOf
<1> HIDE DEF W, F
<1>6. ASSUME UNCHANGED holder, Phase(s)' = Phase(s)
      PROVE  Abstract!UserDecides(s)
  BY <1>2, <1>4, <1>6 DEF Abstract!UserDecides, W, F
<1>7. ASSUME Wanted(s)' = Wanted(s), UNCHANGED holder, Moves(s, "none", "claimed"), Wanted(s)
      PROVE  Abstract!Claim(s)
  BY <1>1, <1>3, <1>7 DEF Abstract!Claim, Moves, W, F
<1>8. ASSUME Wanted(s)' = Wanted(s), UNCHANGED holder, Moves(s, "claimed", "releasing"), ~Wanted(s)
      PROVE  Abstract!StartRelease(s)
  BY <1>1, <1>3, <1>8 DEF Abstract!StartRelease, Moves, W, F
<1>9. ASSUME Wanted(s)' = Wanted(s), UNCHANGED holder, Moves(s, "releasing", "claimed")
      PROVE  Abstract!Drop({s})
  <2>1. F' = [t \in Services |-> IF t \in {s} THEN "claimed" ELSE F[t]]
    BY <1>9 DEF F, Moves
  <2>2. \A t \in {s} : F[t] = "releasing"
    BY <1>1, <1>9 DEF Moves
  <2> QED BY <1>3, <1>9, <2>1, <2>2 DEF Abstract!Drop, W, F
<1>10. ASSUME Wanted(s)' = Wanted(s), UNCHANGED holder, Moves(s, "releasing", "none"), ReservationsOf(s) = {}
       PROVE  Abstract!EndRelease(s)
  BY <1>1, <1>3, <1>5, <1>10 DEF Abstract!EndRelease, Moves, W, F
<1>11. ASSUME Wanted(s)' = Wanted(s), Made(s), Moves(s, "claimed", "claimed"), ReservationsOf(s) = {}
       PROVE  \E i \in IPs : Abstract!Reserve(s, i)
  <2> PICK i \in IPs : holder[i] = Nobody /\ holder' = [holder EXCEPT ![i] = s]
    BY <1>11 DEF Made
  <2>1. Abstract!Reserve(s, i)
    BY <1>1, <1>2, <1>3, <1>5, <1>11 DEF Abstract!Reserve, Moves, W, F
  <2> QED BY <2>1
<1>12. ASSUME Wanted(s)' = Wanted(s), Freed(s), Phase(s) = "releasing", Phase(s)' \in {"releasing", "claimed"}
       PROVE  \E i \in IPs : Abstract!Release(s, i)
  <2> PICK i \in IPs : holder[i] = s /\ holder' = [holder EXCEPT ![i] = Nobody]
    BY <1>12 DEF Freed
  <2>1. F' \in {F, [F EXCEPT ![s] = "claimed"]}
    BY <1>1, <1>2, <1>12
  <2>2. Abstract!Release(s, i)
    BY <1>1, <1>3, <1>12, <2>1 DEF Abstract!Release, W, F
  <2> QED BY <2>2
<1>13. Abstract!Drop({s}) => \E S \in SUBSET Services : Abstract!Drop(S)
  OBVIOUS
<1> QED BY <1>6, <1>7, <1>8, <1>9, <1>10, <1>11, <1>12, <1>13 DEF Kind, Abstract!Next

\* Syncs, retries and crashes amount to the abstract specification: one address for each
\* service, reserved for one that is wanted, released only in a cleanup that began
\* when it was not wanted, and gone before its claim is (loadbalancers.go:262-305, 397-547).
THEOREM Refinement == Spec => ImplementsReservations
<1> DEFINE W == {t \in Services : Wanted(t)}
           F == [t \in Services |-> Phase(t)]
<1>1. Init => Abstract!Init
  <2> SUFFICES ASSUME Init PROVE Abstract!Init
    OBVIOUS
  <2>1. \A t \in Services : ~Wanted(t) /\ Phase(t) = "none"
    BY DEF Init, Absent, Wanted, Phase
  <2> QED BY <2>1 DEF Init, Abstract!Init
<1>2. ASSUME IInv, [Next]_vars
      PROVE  Abstract!Next \/ UNCHANGED Abstract!vars
  <2>1. ASSUME NEW s \in Services, StepOf(s)
        PROVE  Abstract!Next \/ UNCHANGED Abstract!vars
    <3>1. \A t \in Services \ {s} : Phase(t)' = Phase(t) /\ Wanted(t)' = Wanted(t)
      BY <1>2, <2>1, Isolation DEF SameFor, Phase, Wanted
    <3> QED BY <1>2, <2>1, <3>1, KindOfStep, KindIsAbstract
  <2>2. CASE Crash
    <3> DEFINE S == {t \in Services : Phase(t) = "releasing"}
    <3>1. \A t \in Services : task'[t].pc = "idle" /\ service'[t] = service[t] /\ holder' = holder
      BY <2>2 DEF Crash, NoTask
    <3>2. \A t \in Services :
            Wanted(t)' = Wanted(t) /\ Phase(t)' = IF t \in S THEN "claimed" ELSE Phase(t)
      BY <3>1 DEF Wanted, Phase, Cleaning
    <3>3. F' = [t \in Services |-> IF t \in S THEN "claimed" ELSE F[t]] /\ W' = W
      BY <3>2
    <3>4. \A t \in S : F[t] = "releasing"
      OBVIOUS
    <3>5. UNCHANGED holder
      BY <2>2 DEF Crash
    <3>6. S \in SUBSET Services
      OBVIOUS
    <3> HIDE DEF S
    <3>7. Abstract!Drop(S)
      BY <3>3, <3>4, <3>5 DEF Abstract!Drop
    <3> QED BY <3>6, <3>7 DEF Abstract!Next
  <2>3. ASSUME service' = service, task' = task
        PROVE  F' = F /\ W' = W
    BY <2>3 DEF Phase, Wanted
  <2>4. ASSUME NEW i \in IPs, OtherReserves(i)
        PROVE  Abstract!Next
    <3>1. Abstract!OtherReserves(i)
      BY <2>3, <2>4 DEF OtherReserves, Abstract!OtherReserves
    <3> QED BY <3>1 DEF Abstract!Next
  <2>5. CASE UNCHANGED vars
    BY <2>3, <2>5 DEF vars, Abstract!vars
  <2> QED BY <1>2, <2>1, <2>2, <2>4, <2>5 DEF Next, StepOf
<1> QED BY <1>1, <1>2, Invariance, PTL DEF Spec, ImplementsReservations, Abstract!Spec
=============================================================================
