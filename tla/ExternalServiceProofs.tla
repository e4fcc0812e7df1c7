----------------------- MODULE ExternalServiceProofs -----------------------
(* Theorems about ExternalService, for any slices, ports, addresses, changes *)
(* and failures.  What the runs check is not inductive by itself: a status   *)
(* at rest depends on what the manager and the controller had in hand when   *)
(* they wrote it, and the next slice to be applied on what was queued.       *)
EXTENDS ExternalService, TLAPS, SequenceTheorems, FiniteSetTheorems

\* Only finitely many slices have been made.
Finite == IsFiniteSet({n \in Names : slices[n] > 0})

\* The events of one slice are queued in the order of their versions, none of which is
\* later than the slice itself.
InOrder(q, made, last) ==
    /\ \A i \in 1 .. Len(q) :
         /\ q[i].version <= last + 1
         /\ made[q[i].of] > 0 => q[i].version <= made[q[i].of]
    /\ \A i, j \in 1 .. Len(q) : i <= j /\ q[i].of = q[j].of => q[i].version <= q[j].version

\* No event still to be handled is older than what has been applied.
NotBehind(q, applied) == \A i \in 1 .. Len(q) : q[i].of = applied.of => applied.version <= q[i].version

MirrorInv ==
    /\ \A n \in Names : slices[n] <= changes + 1
    /\ mirror.of = Nil => mirror.version = 0
    /\ mirror.of # Nil =>
         /\ mirror.version <= changes + 1
         /\ slices[mirror.of] > 0 => mirror.version <= slices[mirror.of]
    /\ \A m \in managers : InOrder(events[m].slices, slices, changes)
    /\ \A m \in managers : managers = {m} => NotBehind(events[m].slices, mirror)

Agree == svc.status.value = svc.ip.value

\* The endpoint manager alone: the Service always has an address, which only the manager
\* gives it, and whoever is about to write the status has that address in hand, unless the
\* Service is queued again.
AddressInv ==
    managers = {"eip"} =>
        /\ svc.exists => svc.ip.value # Nil
        /\ svc.ip.owners \subseteq {"ccm"}
        /\ pass["eip"].pc \in {"apply", "status"} => pass["eip"].ip # Nil
        /\ pass["eip"].pc = "status" /\ svc.exists => pass["eip"].ip = svc.ip.value
        /\ sync.pc # "update"
        /\ sync.pc \in {"list", "patch"} => sync.ip # Nil
        /\ sync.pc \in {"list", "patch"} /\ svc.exists =>
             queued \/ (sync.ip = svc.ip.value /\ (Agree \/ sync.was = svc.status.value))
        /\ sync.pc = "idle" /\ svc.exists /\ ~svc.deleting => queued \/ Agree

IInv == TypeOK /\ Finite /\ MirrorInv /\ AddressInv

-----------------------------------------------------------------------------
(* Queues of events. *)

\* An order of a finite set has its members, each once.
LEMMA OrderIs ==
    ASSUME NEW S, IsFiniteSet(S), NEW order \in SetToSeqs(S)
    PROVE  /\ order \in Seq(S)
           /\ \A i, j \in 1 .. Len(order) : order[i] \in S /\ (i # j => order[i] # order[j])
<1> DEFINE n == Cardinality(S)
<1>1. n \in Nat
  BY FS_CardinalityType
<1> HIDE DEF n
<1>2. order \in [1 .. n -> S] /\ \A i, j \in 1 .. n : i # j => order[i] # order[j]
  BY DEF SetToSeqs, n
<1>3. order \in Seq(S) /\ Len(order) = n
  BY <1>1, <1>2
<1> QED BY <1>2, <1>3

\* The first event is taken off the queue.
LEMMA RestIs ==
    ASSUME NEW S, NEW q \in Seq(S), q # <<>>
    PROVE  /\ RemoveAt(q, 1) \in Seq(S)
           /\ Len(RemoveAt(q, 1)) = Len(q) - 1
           /\ Len(q) \in Nat \ {0}
           /\ q[1] \in S
           /\ \A i \in 1 .. Len(RemoveAt(q, 1)) : RemoveAt(q, 1)[i] = q[i + 1]
<1> DEFINE r == SubSeq(q, 2, Len(q))
<1>1. Len(q) \in Nat \ {0} /\ \A i \in 1 .. Len(q) : q[i] \in S
  BY EmptySeq, ElementOfSeq
<1>2. SubSeq(q, 1, 0) = <<>>
  BY SubSeqEmpty
<1>3. r = Tail(q)
  BY TailIsSubSeq
<1>4. r \in Seq(S) /\ Len(r) = Len(q) - 1 /\ \A i \in 1 .. Len(r) : r[i] = q[i + 1]
  BY <1>3, HeadTailProperties
<1>5. RemoveAt(q, 1) = r
  <2>1. RemoveAt(q, 1) = SubSeq(q, 1, 0) \o r
    <3>1. 1 - 1 = 0 /\ 1 + 1 = 2
      OBVIOUS
    <3> QED BY <3>1 DEF RemoveAt
  <2> HIDE DEF r
  <2> QED BY <1>2, <1>4, <2>1, ConcatEmptySeq
<1> HIDE DEF r
<1>6. q[1] \in S
  BY <1>1
<1> QED BY <1>1, <1>4, <1>5, <1>6

\* What can be said of the elements of a queue to which one is added.
LEMMA AddedIs ==
    ASSUME NEW S, NEW q \in Seq(S), NEW e \in S
    PROVE  /\ q \o <<e>> \in Seq(S)
           /\ Len(q) \in Nat
           /\ Len(q \o <<e>>) = Len(q) + 1
           /\ \A i \in 1 .. Len(q) + 1 : (q \o <<e>>)[i] = IF i = Len(q) + 1 THEN e ELSE q[i]
<1>1. q \o <<e>> = Append(q, e) /\ Len(q) \in Nat
  BY AppendIsConcat, LenProperties
<1> QED BY <1>1, AppendProperties

LEMMA DeliveredIs ==
    ASSUME NEW e \in Event
    PROVE  Delivered(e) = <<e>>
BY DEF Delivered, Accepted, Event

\* What is there when the process starts or an informer is resynced.
LEMMA PresentIs ==
    ASSUME TypeOK, Finite, NEW without \in SUBSET Names
    PROVE  /\ Present(without) \subseteq Event
           /\ IsFiniteSet(Present(without))
           /\ \A e \in Present(without) : e.of \in Names \ without /\ slices[e.of] > 0 /\ e = Slice(e.of)
<1> DEFINE S == {n \in Names \ without : slices[n] > 0}
<1>1. IsFiniteSet(S)
  BY FS_Subset DEF Finite
<1>2. Present(without) = {Slice(n) : n \in S}
  BY DEF Present
<1>3. IsFiniteSet(Present(without))
  <2> DEFINE f == [n \in S |-> Slice(n)]
  <2>1. f \in Surjection(S, Present(without))
    BY <1>2 DEF Surjection
  <2> HIDE DEF f, S
  <2> QED BY <1>1, <2>1, FS_Surjection
<1>4. \A n \in S : Slice(n) \in Event /\ Slice(n).of = n
  BY DEF TypeOK, Slice, Event
<1> QED BY <1>2, <1>3, <1>4

LEMMA OrdersAreQueues ==
    ASSUME TypeOK, Finite, NEW without \in SUBSET Names, NEW order \in SetToSeqs(Present(without))
    PROVE  order \in Seq(Event)
BY PresentIs, OrderIs, SeqMonotonic

LEMMA RelistedIs ==
    ASSUME TypeOK, Finite
    PROVE  Relisted(Present({})) = SetToSeqs(Present({}))
<1>1. {e \in Present({}) : Accepted(e)} = Present({})
  BY PresentIs DEF Accepted
<1> QED BY <1>1 DEF Relisted

-----------------------------------------------------------------------------
(* The types. *)

LEMMA Blank ==
    ASSUME setting \in PortSettings
    PROVE  NoMirror \in Mirrors /\ NoService \in Services /\ NoPass \in Passes /\ NoSync \in Syncs
           /\ Unlearnt \in Ports
BY BoundsAssumption DEF NoMirror, NoService, NoPass, NoSync, Unlearnt, Unset, Field, Address, Versions,
   Mirrors, Services, Passes, Syncs, Ports

LEMMA SliceStepsKeepTypes ==
    ASSUME TypeOK, Finite,
           \/ \E m \in managers : ApplySlice(m) \/ Resync(m)
           \/ \E n \in Names : SliceChanges(n)
           \/ \E n \in Others : OtherDeleted(n)
           \/ MirrorDeleted \/ MirrorEdited
    PROVE  TypeOK'
<1> USE DEF TypeOK
<1>1. ASSUME NEW m \in managers, ApplySlice(m) PROVE TypeOK'
  <2> DEFINE q == events[m].slices
             e == q[1]
             rest == RemoveAt(q, 1)
  <2>1. q \in Seq(Event) /\ q # <<>>
    BY <1>1 DEF ApplySlice, Queues
  <2>2. rest \in Seq(Event) /\ e \in Event
    BY <2>1, RestIs
  <2>3. events' = [events EXCEPT ![m].slices = rest]
    BY <1>1 DEF ApplySlice, Handled
  <2>4. mirror' \in {mirror, Copy(e)} /\ faults' \in 0 .. MaxFaults
    BY <1>1, BoundsAssumption DEF ApplySlice, Handled, Call, Disturb
  <2>5. Copy(e) \in Mirrors
    BY <2>2 DEF Copy, Event, Mirrors
  <2> HIDE DEF rest, e, q
  <2>6. events' \in [managers -> Queues]
    BY <2>2, <2>3 DEF Queues
  <2> QED BY <1>1, <2>4, <2>5, <2>6 DEF ApplySlice, config, original
<1>2. ASSUME NEW m \in managers, Resync(m) PROVE TypeOK'
  <2>1. PICK order \in SetToSeqs(Present({})) :
          events' = [events EXCEPT ![m] = [slices |-> order, services |-> <<target>>]]
    BY <1>2, RelistedIs DEF Resync
  <2>2. order \in Seq(Event) /\ <<target>> \in Seq(ServersPorts)
    BY OrdersAreQueues
  <2>3. events' \in [managers -> Queues]
    BY <2>1, <2>2 DEF Queues
  <2> QED BY <1>2, <2>3 DEF Resync, config, original, external
<1>3. ASSUME NEW n \in Names, SliceChanges(n) PROVE TypeOK'
  <2> DEFINE e == [of |-> n, version |-> changes + 2]
  <2>1. e \in Event /\ changes + 2 \in Versions /\ changes' \in 0 .. MaxChanges
    BY <1>3, BoundsAssumption DEF SliceChanges, Change, Event, Versions
  <2>2. events' = [m \in managers |-> [events[m] EXCEPT !.slices = @ \o <<e>>]]
    BY <1>3, <2>1, DeliveredIs DEF SliceChanges, AddSlice
  <2> HIDE DEF e
  <2>3. \A m \in managers : events[m].slices \o <<e>> \in Seq(Event)
    BY <2>1, AddedIs DEF Queues
  <2>4. events' \in [managers -> Queues]
    BY <2>2, <2>3 DEF Queues
  <2> QED BY <1>3, <2>1, <2>4 DEF SliceChanges, config, external
<1>4. ASSUME NEW n \in Others, OtherDeleted(n) PROVE TypeOK'
  <2>1. 0 \in Versions /\ changes' \in 0 .. MaxChanges
    BY <1>4, BoundsAssumption DEF OtherDeleted, Change, Versions
  <2> QED BY <1>4, <2>1 DEF OtherDeleted, config, external, memory
<1>5. ASSUME MirrorDeleted \/ MirrorEdited PROVE TypeOK'
  <2>1. mirror' \in Mirrors
    <3>1. NoMirror \in Mirrors /\ [NoMirror EXCEPT !.edited = TRUE] \in Mirrors
      BY Blank DEF Mirrors
    <3> QED BY <1>5, <3>1 DEF MirrorDeleted, MirrorEdited
  <2>2. faults' \in 0 .. MaxFaults
    BY <1>5, BoundsAssumption DEF MirrorDeleted, MirrorEdited, Disturb
  <2> QED BY <1>5, <2>1, <2>2 DEF MirrorDeleted, MirrorEdited, config, original, memory
<1> QED BY <1>1, <1>2, <1>3, <1>4, <1>5

LEMMA ServiceStepsKeepTypes ==
    ASSUME TypeOK,
           \/ \E m \in managers : BeginService(m) \/ ApplyService(m)
           \/ FindReservation \/ ApplyStatus
           \/ \E p \in ServersPorts : ServersMove(p)
           \/ \E a \in EIPs \union {Nil} : Retag(a)
    PROVE  TypeOK'
<1> USE DEF TypeOK
<1>1. ASSUME NEW m \in managers, BeginService(m) PROVE TypeOK'
  <2> DEFINE q == events[m].services
             p == Head(q)
  <2>1. q \in Seq(ServersPorts) /\ q # <<>>
    BY <1>1 DEF BeginService, Queues
  <2>2. p \in ServersPorts /\ Tail(q) \in Seq(ServersPorts)
    BY <2>1, HeadTailProperties
  <2>3. /\ events' = [events EXCEPT ![m].services = Tail(q)]
        /\ ports' = [ports EXCEPT ![m] = Learnt(m, p)]
        /\ pass' = [pass EXCEPT ![m] = [NoPass EXCEPT !.pc = IF m = "eip" THEN "find" ELSE "apply",
                                                      !.target = p]]
    BY <1>1 DEF BeginService
  <2> HIDE DEF p, q
  <2>4. Learnt(m, p) \in Ports
    BY <2>2 DEF Learnt, Ports
  <2>5. [NoPass EXCEPT !.pc = IF m = "eip" THEN "find" ELSE "apply", !.target = p] \in Passes
    BY <2>2 DEF NoPass, Passes, Address
  <2>6. events' \in [managers -> Queues]
    BY <2>2, <2>3 DEF Queues
  <2>7. ports' \in [managers -> Ports] /\ pass' \in [managers -> Passes]
    BY <2>3, <2>4, <2>5
  <2> QED BY <1>1, <2>6, <2>7 DEF BeginService, config, original, external
<1>2. ASSUME NEW m \in managers, ApplyService(m) PROVE TypeOK'
  <2>1. AppliedService(m) \in Services
    <3>1. svc \in Services /\ pass[m].ip \in Address /\ pass[m].target \in ServersPorts \union {0}
      BY DEF Passes
    <3>2. managers \subseteq {"eip", "lb"}
      BY DeploymentsAssumption
    <3>3. \A f \in Field(Address) : Owned(f, pass[m].ip) \in Field(Address) /\ Disowned(f) \in Field(Address)
      BY <3>1 DEF Owned, Disowned, Field, Unset, Address
    <3>4. AppliedPort(m, pass[m].target) \in ServersPorts \union PortSettings \union {OwnPort, 0}
      BY <3>1 DEF AppliedPort
    <3> QED BY <3>1, <3>2, <3>3, <3>4 DEF AppliedService, Services
  <2>2. svc' \in {svc, AppliedService(m)} /\ faults' \in 0 .. MaxFaults
    BY <1>2, BoundsAssumption DEF ApplyService, Call, Disturb
  <2>5. queued' \in BOOLEAN
    BY <1>2, Zenon DEF ApplyService, Call
  <2>3. pass' \in {[pass EXCEPT ![m].pc = "status"], [pass EXCEPT ![m] = NoPass]}
    BY <1>2 DEF ApplyService, Call, End
  <2>4. pass' \in [managers -> Passes]
    BY <2>3, Blank DEF Passes
  <2> QED BY <1>2, <2>1, <2>2, <2>4, <2>5 DEF ApplyService, config, original
<1>3. ASSUME FindReservation PROVE TypeOK'
  <2>1. pass' \in {[pass EXCEPT !["eip"].pc = "apply", !["eip"].ip = tagged], [pass EXCEPT !["eip"] = NoPass]}
    BY <1>3 DEF FindReservation, Call, End
  <2>2. pass' \in [managers -> Passes]
    BY <1>3, <2>1, Blank DEF Passes, FindReservation
  <2>3. faults' \in 0 .. MaxFaults
    BY <1>3, BoundsAssumption DEF FindReservation, Call, Disturb
  <2> QED BY <1>3, <2>2, <2>3 DEF FindReservation, config, original, external
<1>4. ASSUME ApplyStatus PROVE TypeOK'
  <2>1. pass' = [pass EXCEPT !["eip"] = NoPass] /\ pass["eip"].ip \in Address
    BY <1>4 DEF ApplyStatus, Call, End, Passes
  <2>2. svc' \in {svc, [svc EXCEPT !.status = Owned(@, pass["eip"].ip)]} /\ faults' \in 0 .. MaxFaults
    BY <1>4, BoundsAssumption DEF ApplyStatus, Call, Disturb
  <2>3. svc' \in Services
    BY <2>1, <2>2 DEF Services, Owned, Field
  <2> QED BY <1>4, <2>1, <2>2, <2>3, Blank DEF ApplyStatus, config, original
<1>5. ASSUME NEW p \in ServersPorts, ServersMove(p) PROVE TypeOK'
  <2>1. \A m \in managers : Append(events[m].services, p) \in Seq(ServersPorts)
    BY AppendProperties DEF Queues
  <2>2. events' = [m \in managers |-> [events[m] EXCEPT !.services = Append(@, p)]] /\ changes' \in 0 .. MaxChanges
    BY <1>5, BoundsAssumption DEF ServersMove, AddTarget, Change
  <2>3. events' \in [managers -> Queues]
    BY <2>1, <2>2 DEF Queues
  <2> QED BY <1>5, <2>2, <2>3 DEF ServersMove, config, external
<1>6. ASSUME NEW a \in EIPs \union {Nil}, Retag(a) PROVE TypeOK'
  <2>1. changes' \in 0 .. MaxChanges
    BY <1>6, BoundsAssumption DEF Retag, Change
  <2> QED BY <1>6, <2>1 DEF Retag, Address, config, external, memory
<1> QED BY <1>1, <1>2, <1>3, <1>4, <1>5, <1>6

LEMMA SyncStepsKeepTypes ==
    ASSUME TypeOK, BeginSync \/ RemoveSync \/ ListSync \/ UpdateSync \/ PatchSync \/ ServiceDeleted
    PROVE  TypeOK'
<1> USE DEF TypeOK
<1>1. svc \in Services /\ sync \in Syncs /\ tagged \in Address
  OBVIOUS
<1>2. CASE BeginSync
  <2>1. sync' \in Syncs
    BY <1>1, <1>2 DEF BeginSync, NoSync, Syncs, Services, Field, Address
  <2> QED BY <1>2, <2>1 DEF BeginSync, config, original
<1>3. CASE RemoveSync
  <2>1. svc' \in {svc, NoService} /\ sync' = NoSync /\ faults' \in 0 .. MaxFaults
    BY <1>3, BoundsAssumption DEF RemoveSync, Call, Disturb, SyncEnds, SyncFails
  <2>2. queued' \in {queued, TRUE}
    BY <1>3, Zenon DEF RemoveSync, Call, SyncEnds, SyncFails
  <2> QED BY <1>3, <2>1, <2>2, Blank DEF RemoveSync, config, original
<1>4. CASE ListSync
  <2>1. /\ sync' \in {NoSync, [sync EXCEPT !.pc = IF sync.ip # Nil THEN "patch" ELSE "update", !.ip = AddressFound]}
        /\ faults' \in 0 .. MaxFaults
    BY <1>4, BoundsAssumption DEF ListSync, Call, Disturb, SyncFails
  <2>4. queued' \in {queued, TRUE}
    BY <1>4, Zenon DEF ListSync, Call, SyncFails
  <2>2. AddressFound \in Address
    BY <1>1 DEF AddressFound, Syncs
  <2>3. sync' \in Syncs
    BY <1>1, <2>1, <2>2, Blank DEF Syncs
  <2> QED BY <1>4, <2>1, <2>3, <2>4 DEF ListSync, config, original
<1>5. CASE UpdateSync
  <2>1. /\ svc' \in {svc, [svc EXCEPT !.ip = Written(@, sync.ip)]} /\ sync' \in {NoSync, [sync EXCEPT !.pc = "patch"]}
        /\ queued' \in BOOLEAN /\ faults' \in 0 .. MaxFaults
    BY <1>5, BoundsAssumption DEF UpdateSync, Call, Disturb
  <2>2. svc' \in Services /\ sync' \in Syncs
    BY <1>1, <2>1, Blank DEF Services, Syncs, Written, Field
  <2> QED BY <1>5, <2>1, <2>2 DEF UpdateSync, config, original
<1>6. CASE PatchSync
  <2>1. /\ svc' \in {svc, [svc EXCEPT !.status = Written(@, sync.ip)]} /\ sync' = NoSync
        /\ faults' \in 0 .. MaxFaults
    BY <1>6, BoundsAssumption DEF PatchSync, Call, Disturb, SyncEnds, SyncFails
  <2>3. queued' \in {queued, TRUE}
    BY <1>6, Zenon DEF PatchSync, Call, SyncEnds, SyncFails
  <2>2. svc' \in Services
    BY <1>1, <2>1 DEF Services, Syncs, Written, Field
  <2> QED BY <1>6, <2>1, <2>2, <2>3, Blank DEF PatchSync, config, original
<1>7. CASE ServiceDeleted
  <2>1. svc' = [svc EXCEPT !.deleting = TRUE] /\ svc' \in Services
    BY <1>1, <1>7 DEF ServiceDeleted, Services
  <2>2. faults' \in 0 .. MaxFaults
    BY <1>7, BoundsAssumption DEF ServiceDeleted, Disturb
  <2> QED BY <1>7, <2>1, <2>2 DEF ServiceDeleted, config, original, memory
<1> QED BY <1>2, <1>3, <1>4, <1>5, <1>6, <1>7

\* The process starts again.
LEMMA StartIs ==
    ASSUME TypeOK, Finite, NEW without \in SUBSET Names, Start(Present(without)), UNCHANGED <<managers, setting>>
    PROVE  /\ events' \in [managers -> Queues] /\ ports' \in [managers -> Ports]
           /\ pass' \in [managers -> Passes] /\ sync' \in Syncs /\ queued' \in BOOLEAN
           /\ \A m \in managers : events'[m].slices \in SetToSeqs(Present(without))
<1> USE DEF TypeOK
<1>1. events' \in [managers -> {[slices |-> order, services |-> <<target>>] : order \in SetToSeqs(Present(without))}]
  BY DEF Start
<1>2. \A order \in SetToSeqs(Present(without)) : order \in Seq(Event)
  BY OrdersAreQueues
<1>3. events' \in [managers -> Queues] /\ \A m \in managers : events'[m].slices \in SetToSeqs(Present(without))
  <2> DEFINE O == SetToSeqs(Present(without))
             Q == {[slices |-> order, services |-> <<target>>] : order \in O}
  <2>1. <<target>> \in Seq(ServersPorts)
    OBVIOUS
  <2>2. \A q \in Q : q \in Queues /\ q.slices \in O
    <3>1. \A order \in O : order \in Seq(Event)
      BY <1>2
    <3> HIDE DEF O
    <3> SUFFICES ASSUME NEW order \in O
                 PROVE  /\ [slices |-> order, services |-> <<target>>] \in Queues
                        /\ [slices |-> order, services |-> <<target>>].slices = order
      OBVIOUS
    <3> QED BY <2>1, <3>1 DEF Queues
  <2>3. events' \in [managers -> Q]
    BY <1>1
  <2> HIDE DEF O, Q
  <2>4. \A m \in managers : events'[m] \in Q
    BY <2>3
  <2> QED BY <2>2, <2>3, <2>4 DEF O
<1>4. svc.exists \in BOOLEAN
  BY DEF Services
<1> QED BY <1>3, <1>4, Blank DEF Start

LEMMA RestartsKeepTypes ==
    ASSUME TypeOK, Finite, Crash \/ \E n \in Others : MissedDeletion(n)
    PROVE  TypeOK'
<1> USE DEF TypeOK
<1>1. CASE Crash
  <2>1. faults' \in 0 .. MaxFaults
    BY <1>1, BoundsAssumption DEF Crash, Disturb
  <2> QED BY <1>1, <2>1, StartIs DEF Crash, config, original
<1>2. ASSUME NEW n \in Others, MissedDeletion(n) PROVE TypeOK'
  <2>1. faults' \in 0 .. MaxFaults /\ 0 \in Versions /\ {n} \in SUBSET Names
    BY <1>2, BoundsAssumption DEF MissedDeletion, Disturb, Versions, Names
  <2>2. slices' \in [Names -> Versions]
    BY <1>2, <2>1 DEF MissedDeletion
  <2> QED BY <1>2, <2>1, <2>2, StartIs DEF MissedDeletion, config
<1> QED BY <1>1, <1>2

LEMMA NextKeepsTypes ==
    ASSUME TypeOK, Finite, [Next]_vars
    PROVE  TypeOK'
<1>1. CASE Next
  BY <1>1, SliceStepsKeepTypes, ServiceStepsKeepTypes, SyncStepsKeepTypes, RestartsKeepTypes DEF Next
<1>2. CASE UNCHANGED vars
  BY <1>2 DEF TypeOK, vars, config, original, external, memory
<1> QED BY <1>1, <1>2

LEMMA FiniteKept ==
    ASSUME TypeOK, Finite, [Next]_vars
    PROVE  Finite'
<1> DEFINE made == {n \in Names : slices[n] > 0}
<1>1. \/ slices' = slices
      \/ \E n \in Names, v \in Int : slices' = [slices EXCEPT ![n] = v]
  <2>1. CASE UNCHANGED vars
    BY <2>1 DEF vars, original
  <2>2. ASSUME NEW n \in Names, SliceChanges(n) PROVE slices' = [slices EXCEPT ![n] = changes + 2]
    BY <2>2 DEF SliceChanges
  <2>3. ASSUME NEW n \in Others, OtherDeleted(n) \/ MissedDeletion(n) PROVE slices' = [slices EXCEPT ![n] = 0]
    BY <2>3 DEF OtherDeleted, MissedDeletion
  <2>4. changes + 2 \in Int /\ Others \subseteq Names
    BY DEF TypeOK, Names
  <2>5. ASSUME NEW m \in managers, ApplySlice(m) \/ BeginService(m) \/ ApplyService(m) \/ Resync(m)
        PROVE  slices' = slices
    BY <2>5 DEF ApplySlice, BeginService, ApplyService, Resync, original
  <2>6. ASSUME FindReservation \/ ApplyStatus \/ BeginSync \/ RemoveSync \/ ListSync \/ UpdateSync \/ PatchSync
        PROVE  slices' = slices
    BY <2>6 DEF FindReservation, ApplyStatus, BeginSync, RemoveSync, ListSync, UpdateSync, PatchSync, original
  <2>7. ASSUME \/ \E p \in ServersPorts : ServersMove(p)
               \/ \E a \in EIPs \union {Nil} : Retag(a)
               \/ Crash \/ ServiceDeleted \/ MirrorDeleted \/ MirrorEdited
        PROVE  slices' = slices
    BY <2>7 DEF ServersMove, Retag, Crash, ServiceDeleted, MirrorDeleted, MirrorEdited, original
  <2> QED BY <2>1, <2>2, <2>3, <2>4, <2>5, <2>6, <2>7 DEF Next
<1>2. CASE slices' = slices
  BY <1>2 DEF Finite
<1>3. ASSUME NEW n \in Names, NEW v \in Int, slices' = [slices EXCEPT ![n] = v] PROVE Finite'
  <2>1. IsFiniteSet(made \union {n})
    BY FS_AddElement DEF Finite
  <2>2. {k \in Names : slices'[k] > 0} \subseteq made \union {n}
    BY <1>3 DEF TypeOK
  <2> HIDE DEF made
  <2>3. IsFiniteSet({k \in Names : slices'[k] > 0})
    BY <2>1, <2>2, FS_Subset
  <2> QED BY <2>3 DEF Finite
<1> QED BY <1>1, <1>2, <1>3

-----------------------------------------------------------------------------
(* The order of versions. *)

LEMMA EventIs ==
    ASSUME NEW q \in Seq(Event)
    PROVE  Len(q) \in Nat /\ \A i \in 1 .. Len(q) : q[i] \in Event /\ q[i].of \in Names /\ q[i].version \in Int
<1>1. \A e \in Event : e.of \in Names /\ e.version \in Int
  BY BoundsAssumption DEF Event, Versions
<1> QED BY <1>1, ElementOfSeq, LenProperties

\* Later changes, and deletions, leave the order of a queue as it is.
LEMMA StaysInOrder ==
    ASSUME NEW q \in Seq(Event), NEW made \in [Names -> Int], NEW last \in Int, InOrder(q, made, last),
           NEW now \in [Names -> Int], NEW more \in Int, more >= last, \A n \in Names : now[n] \in {made[n], 0}
    PROVE  InOrder(q, now, more)
<1>1. \A i \in 1 .. Len(q) : q[i].of \in Names /\ q[i].version \in Int
  BY EventIs
<1>2. \A i \in 1 .. Len(q) : q[i].version <= last + 1 /\ (made[q[i].of] > 0 => q[i].version <= made[q[i].of])
  BY DEF InOrder
<1>3. ASSUME NEW i \in 1 .. Len(q)
      PROVE  q[i].version <= more + 1 /\ (now[q[i].of] > 0 => q[i].version <= now[q[i].of])
  <2> DEFINE n == q[i].of
             v == q[i].version
  <2>1. n \in Names /\ v \in Int /\ v <= last + 1 /\ (made[n] > 0 => v <= made[n]) /\ made[n] \in Int
    BY <1>1, <1>2
  <2> HIDE DEF n, v
  <2>2. now[n] \in {made[n], 0}
    BY <2>1
  <2>3. v <= more + 1 /\ (now[n] > 0 => v <= now[n])
    BY <2>1, <2>2
  <2> QED BY <2>3 DEF n, v
<1> QED BY <1>3 DEF InOrder

\* The events after a start or a resync are up to date, each of another slice.
LEMMA RelistedInOrder ==
    ASSUME TypeOK, Finite, MirrorInv, NEW without \in SUBSET Names, NEW order \in SetToSeqs(Present(without))
    PROVE  /\ order \in Seq(Event)
           /\ InOrder(order, slices, changes) /\ NotBehind(order, mirror)
           /\ \A i \in 1 .. Len(order) : order[i].of \in Names \ without
<1>1. /\ order \in Seq(Event)
      /\ \A i, j \in 1 .. Len(order) : order[i] \in Present(without) /\ (i # j => order[i] # order[j])
  BY PresentIs, OrderIs, OrdersAreQueues
<1>2. \A i \in 1 .. Len(order) :
        /\ order[i].of \in Names \ without
        /\ slices[order[i].of] > 0
        /\ order[i].version = slices[order[i].of]
        /\ order[i] = Slice(order[i].of)
  BY <1>1, PresentIs DEF Slice
<1>3. \A i, j \in 1 .. Len(order) : order[i].of = order[j].of => i = j
  BY <1>1, <1>2
<1>4. \A n \in Names : slices[n] \in Int /\ slices[n] <= changes + 1 /\ n # Nil
  BY NamesAssumption DEF TypeOK, Versions, MirrorInv, Names
<1>5. mirror.of # Nil /\ slices[mirror.of] > 0 => mirror.version <= slices[mirror.of]
  BY DEF MirrorInv
<1>6. Len(order) \in Nat
  BY <1>1, LenProperties
<1>7. InOrder(order, slices, changes)
  <2>1. \A i, j \in 1 .. Len(order) : order[i].of = order[j].of => order[i].version <= order[j].version
    BY <1>2, <1>3, <1>4
  <2> QED BY <1>2, <1>4, <2>1 DEF InOrder
<1>8. NotBehind(order, mirror)
  BY <1>2, <1>4, <1>5 DEF NotBehind
<1> QED BY <1>1, <1>2, <1>7, <1>8

LEMMA NumbersAre ==
    ASSUME TypeOK
    PROVE  /\ changes \in Int /\ mirror.version \in Int /\ slices \in [Names -> Int]
           /\ \A m \in managers : events[m].slices \in Seq(Event)
BY BoundsAssumption DEF TypeOK, Versions, Mirrors, Queues

\* Nothing of the slices and of the mirror changes.
LEMMA OtherStepsKeepMirror ==
    ASSUME TypeOK, TypeOK', MirrorInv, changes' >= changes, UNCHANGED <<managers, slices, mirror>>,
           \A m \in managers : events'[m].slices = events[m].slices
    PROVE  MirrorInv'
<1>1. changes \in Int /\ changes' \in Int /\ mirror.version \in Int /\ slices \in [Names -> Int]
  BY BoundsAssumption, NumbersAre DEF TypeOK
<1>2. ASSUME NEW m \in managers PROVE InOrder(events'[m].slices, slices', changes')
  BY <1>1, NumbersAre, StaysInOrder DEF MirrorInv
<1> QED BY <1>1, <1>2 DEF MirrorInv

LEMMA ApplySliceKeepsMirror ==
    ASSUME TypeOK, TypeOK', MirrorInv, NEW m \in managers, ApplySlice(m)
    PROVE  MirrorInv' /\ (managers = {m} /\ mirror'.of = mirror.of => mirror'.version >= mirror.version)
<1> DEFINE q == events[m].slices
           e == q[1]
           rest == RemoveAt(q, 1)
<1>1. q \in Seq(Event) /\ q # <<>> /\ InOrder(q, slices, changes) /\ (managers = {m} => NotBehind(q, mirror))
  BY NumbersAre DEF ApplySlice, MirrorInv
<1>2. /\ rest \in Seq(Event) /\ Len(rest) = Len(q) - 1 /\ Len(q) \in Nat \ {0} /\ e \in Event
      /\ \A i \in 1 .. Len(rest) : rest[i] = q[i + 1]
  BY <1>1, RestIs
<1>3. /\ events' = [events EXCEPT ![m].slices = rest]
      /\ mirror' \in {mirror, Copy(e)}
      /\ UNCHANGED <<managers, slices, changes>>
  BY DEF ApplySlice, Handled, Call, config, original
<1>4. \A i \in 1 .. Len(q) : q[i] \in Event /\ q[i].of \in Names /\ q[i].version \in Int
  BY <1>1, EventIs
<1>5. changes \in Int /\ mirror.version \in Int /\ slices \in [Names -> Int]
  BY NumbersAre
<1>6. Copy(e).of = e.of /\ Copy(e).version = e.version /\ e = q[1]
  BY DEF Copy
<1> HIDE DEF rest, e, q
<1>7. InOrder(rest, slices, changes)
  <2>1. ASSUME NEW i \in 1 .. Len(rest) PROVE i + 1 \in 1 .. Len(q) /\ rest[i] = q[i + 1]
    BY <1>2
  <2>2. \A i \in 1 .. Len(rest) :
          /\ rest[i].version <= changes + 1
          /\ slices[rest[i].of] > 0 => rest[i].version <= slices[rest[i].of]
    BY <1>1, <2>1 DEF InOrder
  <2>3. ASSUME NEW i \in 1 .. Len(rest), NEW j \in 1 .. Len(rest), i <= j, rest[i].of = rest[j].of
        PROVE  rest[i].version <= rest[j].version
    <3>1. i + 1 <= j + 1
      BY <2>3
    <3> QED BY <1>1, <2>1, <2>3, <3>1 DEF InOrder
  <2> QED BY <2>2, <2>3 DEF InOrder
<1>8. ASSUME managers = {m} PROVE NotBehind(rest, mirror')
  <2>1. \A i \in 1 .. Len(rest) : 1 <= i + 1 /\ 1 \in 1 .. Len(q) /\ i + 1 \in 1 .. Len(q) /\ rest[i] = q[i + 1]
    BY <1>2
  <2>2. CASE mirror' = mirror
    BY <1>1, <1>8, <2>1, <2>2 DEF NotBehind
  <2>3. CASE mirror' = Copy(e)
    BY <1>1, <1>6, <2>1, <2>3 DEF NotBehind, InOrder
  <2> QED BY <1>3, <2>2, <2>3
<1>9. \A k \in managers : events'[k].slices = IF k = m THEN rest ELSE events[k].slices
  BY <1>3 DEF TypeOK, Queues
<1>10. /\ 1 \in 1 .. Len(q) /\ e.of \in Names /\ e.version \in Int /\ e.of # Nil
       /\ e.version <= changes + 1 /\ (slices[e.of] > 0 => e.version <= slices[e.of])
  BY <1>1, <1>2, <1>4, <1>6, NamesAssumption DEF InOrder, Names
<1>11. MirrorInv'
  <2>1. \A k \in managers : InOrder(events'[k].slices, slices, changes)
    BY <1>7, <1>9 DEF MirrorInv
  <2>2. \A k \in managers : managers = {k} => NotBehind(events'[k].slices, mirror')
    BY <1>8, <1>9
  <2> QED BY <1>3, <1>6, <1>10, <2>1, <2>2 DEF MirrorInv
<1>12. managers = {m} /\ mirror'.of = mirror.of => mirror'.version >= mirror.version
  BY <1>1, <1>3, <1>5, <1>6, <1>10 DEF NotBehind
<1> QED BY <1>11, <1>12

LEMMA SliceChangesKeepsMirror ==
    ASSUME TypeOK, TypeOK', MirrorInv, NEW n \in Names, SliceChanges(n)
    PROVE  MirrorInv'
<1> DEFINE v == changes + 2
           e == [of |-> n, version |-> v]
<1>1. /\ changes \in Int /\ mirror.version \in Int /\ slices \in [Names -> Int] /\ v \in Int /\ changes' \in Int
      /\ e \in Event /\ e.of = n /\ e.version = v /\ n # Nil
  BY NumbersAre, BoundsAssumption, NamesAssumption DEF Event, Versions, TypeOK, SliceChanges, Change, Names
<1>2. /\ events' = [m \in managers |-> [events[m] EXCEPT !.slices = @ \o <<e>>]]
      /\ slices' = [slices EXCEPT ![n] = v]
      /\ changes' = changes + 1
      /\ UNCHANGED <<managers, mirror>>
  BY <1>1, DeliveredIs DEF SliceChanges, AddSlice, Change, config, external
<1>3. /\ \A k \in Names : slices[k] <= changes + 1
      /\ mirror.of # Nil => mirror.version <= changes + 1
      /\ mirror.of # Nil /\ slices[mirror.of] > 0 => mirror.version <= slices[mirror.of]
      /\ mirror.of = Nil => mirror.version = 0
      /\ mirror.of \in Names \union {Nil}
  BY DEF MirrorInv, TypeOK, Mirrors
<1>4. v = changes + 2
  OBVIOUS
<1> HIDE DEF e, v
<1>5. \A k \in Names : slices'[k] = IF k = n THEN v ELSE slices[k]
  BY <1>1, <1>2
<1>6. /\ \A k \in Names : slices'[k] <= changes' + 1
      /\ mirror.of # Nil => mirror.version <= changes' + 1 /\ (slices'[mirror.of] > 0 => mirror.version <= slices'[mirror.of])
  BY <1>1, <1>2, <1>3, <1>4, <1>5
<1>7. ASSUME NEW m \in managers
      PROVE  /\ InOrder(events'[m].slices, slices', changes')
             /\ managers = {m} => NotBehind(events'[m].slices, mirror)
  <2> DEFINE q == events[m].slices
             p == q \o <<e>>
             old == 1 .. Len(q)
  <2>1. q \in Seq(Event) /\ InOrder(q, slices, changes) /\ events'[m].slices = p
    BY <1>2, NumbersAre DEF MirrorInv, TypeOK, Queues
  <2> HIDE DEF q
  <2>2. Len(q) \in Nat /\ Len(p) = Len(q) + 1 /\ \A i \in 1 .. Len(q) + 1 : p[i] = IF i = Len(q) + 1 THEN e ELSE q[i]
    <3>1. q \in Seq(Event) /\ e \in Event
      BY <1>1, <2>1
    <3> QED BY <3>1, AddedIs
  <2>3. \A i \in old : q[i].of \in Names /\ q[i].version \in Int
    BY <2>1, EventIs
  <2> HIDE DEF p
  <2>4. \A i \in 1 .. Len(p) : \/ i \in old /\ p[i] = q[i]
                               \/ i = Len(p) /\ p[i] = e
    BY <2>2
  <2>5. \A i \in old : q[i].version <= changes + 1 /\ (slices[q[i].of] > 0 => q[i].version <= slices[q[i].of])
    BY <2>1 DEF InOrder
  <2>6. \A i \in old : q[i].version <= changes' + 1 /\ (slices'[q[i].of] > 0 => q[i].version <= slices'[q[i].of])
                       /\ q[i].version <= v
    <3> SUFFICES ASSUME NEW i \in old
                 PROVE  q[i].version <= changes' + 1 /\ (slices'[q[i].of] > 0 => q[i].version <= slices'[q[i].of])
                        /\ q[i].version <= v
      OBVIOUS
    <3> DEFINE k == q[i].of
               w == q[i].version
    <3>1. k \in Names /\ w \in Int /\ w <= changes + 1 /\ (slices[k] > 0 => w <= slices[k]) /\ slices[k] \in Int
      BY <1>1, <2>3, <2>5
    <3> HIDE DEF k, w
    <3>2. slices'[k] = IF k = n THEN v ELSE slices[k]
      BY <1>5, <3>1
    <3>3. w <= changes' + 1 /\ (slices'[k] > 0 => w <= slices'[k]) /\ w <= v
      BY <1>1, <1>2, <1>4, <3>1, <3>2
    <3> QED BY <3>3 DEF k, w
  <2>7. InOrder(p, slices', changes')
    <3>1. ASSUME NEW i \in 1 .. Len(p)
          PROVE  p[i].version <= changes' + 1 /\ (slices'[p[i].of] > 0 => p[i].version <= slices'[p[i].of])
      <4>1. CASE i \in old /\ p[i] = q[i]
        BY <2>6, <4>1
      <4>2. CASE p[i] = e
        BY <1>1, <1>2, <1>4, <1>5, <4>2
      <4> QED BY <2>4, <4>1, <4>2
    <3>2. ASSUME NEW i \in 1 .. Len(p), NEW j \in 1 .. Len(p), i <= j, p[i].of = p[j].of
          PROVE  p[i].version <= p[j].version
      <4>1. CASE i \in old /\ j \in old
        <5>1. p[i] = q[i] /\ p[j] = q[j]
          BY <2>2, <4>1
        <5> QED BY <2>1, <3>2, <4>1, <5>1 DEF InOrder
      <4>2. CASE p[j] = e
        <5>1. CASE i \in old /\ p[i] = q[i]
          BY <1>1, <2>6, <4>2, <5>1
        <5>2. CASE p[i] = e
          BY <1>1, <4>2, <5>2
        <5> QED BY <2>4, <5>1, <5>2
      <4>3. i \in old \/ j \notin old
        BY <2>2, <3>2
      <4> QED BY <2>4, <4>1, <4>2, <4>3
    <3> QED BY <3>1, <3>2 DEF InOrder
  <2>8. ASSUME managers = {m} PROVE NotBehind(p, mirror)
    <3>1. NotBehind(q, mirror)
      BY <2>8 DEF MirrorInv, q
    <3>2. ASSUME NEW i \in 1 .. Len(p), p[i].of = mirror.of PROVE mirror.version <= p[i].version
      <4>1. CASE i \in old /\ p[i] = q[i]
        BY <3>1, <3>2, <4>1 DEF NotBehind
      <4>2. CASE p[i] = e
        BY <1>1, <1>3, <1>4, <3>2, <4>2
      <4> QED BY <2>4, <4>1, <4>2
    <3> QED BY <3>2 DEF NotBehind
  <2> QED BY <2>1, <2>7, <2>8
<1> QED BY <1>2, <1>3, <1>6, <1>7 DEF MirrorInv

LEMMA DeletionsKeepMirror ==
    ASSUME TypeOK, TypeOK', MirrorInv, NEW n \in Others, OtherDeleted(n)
    PROVE  MirrorInv'
<1>1. changes \in Int /\ mirror.version \in Int /\ slices \in [Names -> Int]
  BY NumbersAre
<1>2. /\ changes' = changes + 1 /\ UNCHANGED <<managers, mirror, events>>
      /\ slices' = [slices EXCEPT ![n] = 0] /\ n \in Names
  BY DEF OtherDeleted, Change, config, external, memory, Names
<1>3. slices' \in [Names -> Int] /\ \A k \in Names : slices'[k] \in {slices[k], 0} /\ slices'[k] <= changes' + 1
  BY <1>1, <1>2, BoundsAssumption DEF MirrorInv, TypeOK
<1>4. ASSUME NEW m \in managers PROVE InOrder(events'[m].slices, slices', changes')
  <2>1. events'[m].slices \in Seq(Event) /\ InOrder(events'[m].slices, slices, changes)
    BY <1>2, NumbersAre DEF MirrorInv
  <2>2. changes' \in Int /\ changes' >= changes
    BY <1>1, <1>2
  <2> QED BY <1>1, <1>3, <2>1, <2>2, StaysInOrder
<1>5. mirror.of \in Names \union {Nil}
  BY DEF TypeOK, Mirrors
<1>6. mirror.of # Nil => mirror.version <= changes' + 1 /\ (slices'[mirror.of] > 0 => mirror.version <= slices'[mirror.of])
  BY <1>1, <1>2, <1>3, <1>5 DEF MirrorInv
<1> QED BY <1>2, <1>3, <1>4, <1>6 DEF MirrorInv

LEMMA ResyncKeepsMirror ==
    ASSUME TypeOK, Finite, MirrorInv, NEW m \in managers, Resync(m)
    PROVE  MirrorInv'
<1>1. PICK order \in SetToSeqs(Present({})) :
        events' = [events EXCEPT ![m] = [slices |-> order, services |-> <<target>>]]
  BY RelistedIs DEF Resync
<1>2. InOrder(order, slices, changes) /\ NotBehind(order, mirror)
  BY RelistedInOrder
<1>3. UNCHANGED <<managers, slices, changes, mirror>>
  BY DEF Resync, config, original, external
<1>4. \A k \in managers : events'[k].slices = IF k = m THEN order ELSE events[k].slices
  BY <1>1 DEF TypeOK, Queues
<1> QED BY <1>2, <1>3, <1>4 DEF MirrorInv

LEMMA RestartsKeepMirror ==
    ASSUME TypeOK, TypeOK', Finite, MirrorInv, Crash \/ \E n \in Others : MissedDeletion(n)
    PROVE  MirrorInv'
<1>1. PICK without \in SUBSET Names :
        /\ Start(Present(without))
        /\ \A n \in Names : slices'[n] = IF n \in without THEN 0 ELSE slices[n]
  <2>1. CASE Crash
    BY <2>1 DEF Crash, original
  <2>2. ASSUME NEW n \in Others, MissedDeletion(n)
        PROVE  Start(Present({n})) /\ {n} \subseteq Names /\ \A k \in Names : slices'[k] = IF k \in {n} THEN 0 ELSE slices[k]
    BY <2>2 DEF MissedDeletion, Names, TypeOK
  <2> QED BY <2>1, <2>2
<1>2. UNCHANGED <<managers, setting, mirror, changes>>
  BY DEF Crash, MissedDeletion, config
<1>3. changes \in Int /\ mirror.version \in Int /\ slices \in [Names -> Int] /\ slices' \in [Names -> Int]
  BY NumbersAre, BoundsAssumption DEF TypeOK, Versions
<1>4. ASSUME NEW m \in managers
      PROVE  InOrder(events'[m].slices, slices', changes') /\ NotBehind(events'[m].slices, mirror)
  <2> DEFINE q == events'[m].slices
  <2>1. q \in SetToSeqs(Present(without))
    BY <1>1, <1>2, StartIs
  <2> HIDE DEF q
  <2>2. q \in Seq(Event) /\ InOrder(q, slices, changes) /\ NotBehind(q, mirror)
    BY <2>1, RelistedInOrder
  <2>3. \A k \in Names : slices'[k] \in {slices[k], 0}
    BY <1>1
  <2>4. InOrder(q, slices', changes)
    BY <1>3, <2>2, <2>3, StaysInOrder
  <2> QED BY <1>2, <2>2, <2>4 DEF q
<1>5. mirror.of \in Names \union {Nil}
  BY DEF TypeOK, Mirrors
<1>6. /\ \A k \in Names : slices'[k] <= changes + 1
      /\ mirror.of # Nil => mirror.version <= changes + 1 /\ (slices'[mirror.of] > 0 => mirror.version <= slices'[mirror.of])
  BY <1>1, <1>3, <1>5, BoundsAssumption DEF MirrorInv, TypeOK
<1> QED BY <1>2, <1>4, <1>6 DEF MirrorInv

LEMMA NextKeepsMirror ==
    ASSUME TypeOK, TypeOK', Finite, MirrorInv, [Next]_vars
    PROVE  MirrorInv'
<1>1. ASSUME UNCHANGED vars PROVE MirrorInv'
  BY <1>1, NumbersAre, OtherStepsKeepMirror DEF vars, config, original, external, memory
<1>2. ASSUME NEW m \in managers, ApplySlice(m) \/ Resync(m) PROVE MirrorInv'
  BY <1>2, ApplySliceKeepsMirror, ResyncKeepsMirror
<1>3. ASSUME NEW m \in managers, BeginService(m) PROVE MirrorInv'
  <2>1. \A k \in managers : events'[k].slices = events[k].slices
    BY <1>3 DEF BeginService, TypeOK, Queues
  <2> QED BY <1>3, <2>1, NumbersAre, OtherStepsKeepMirror DEF BeginService, config, original, external
<1>4. ASSUME NEW m \in managers, ApplyService(m) PROVE MirrorInv'
  BY <1>4, NumbersAre, OtherStepsKeepMirror DEF ApplyService, config, original
<1>5. ASSUME FindReservation \/ ApplyStatus \/ BeginSync \/ RemoveSync \/ ListSync \/ UpdateSync \/ PatchSync
      PROVE  MirrorInv'
  <2>1. UNCHANGED <<managers, slices, mirror, events, changes>>
    BY <1>5 DEF FindReservation, ApplyStatus, BeginSync, RemoveSync, ListSync, UpdateSync, PatchSync, config,
       original, external
  <2> QED BY <2>1, NumbersAre, OtherStepsKeepMirror
<1>6. ASSUME NEW p \in ServersPorts, ServersMove(p) PROVE MirrorInv'
  <2>1. \A k \in managers : events'[k].slices = events[k].slices
    BY <1>6 DEF ServersMove, AddTarget, TypeOK, Queues, config
  <2> QED BY <1>6, <2>1, NumbersAre, OtherStepsKeepMirror DEF ServersMove, Change, config, external
<1>7. ASSUME NEW a \in EIPs \union {Nil}, Retag(a) PROVE MirrorInv'
  BY <1>7, NumbersAre, OtherStepsKeepMirror DEF Retag, Change, config, external, memory
<1>8. ASSUME ServiceDeleted PROVE MirrorInv'
  BY <1>8, NumbersAre, OtherStepsKeepMirror DEF ServiceDeleted, config, original, memory
<1>9. ASSUME MirrorDeleted \/ MirrorEdited PROVE MirrorInv'
  <2>1. /\ UNCHANGED <<managers, slices, events, changes>>
        /\ mirror'.of = Nil /\ mirror'.version = 0
    BY <1>9 DEF MirrorDeleted, MirrorEdited, NoMirror, config, original, memory
  <2>2. \A m \in managers : NotBehind(events[m].slices, mirror')
    <3>1. ASSUME NEW m \in managers, NEW i \in 1 .. Len(events[m].slices)
          PROVE  events[m].slices[i].of # Nil
      BY NumbersAre, EventIs, NamesAssumption DEF Names
    <3> QED BY <2>1, <3>1 DEF NotBehind
  <2> QED BY <2>1, <2>2 DEF MirrorInv
<1> QED BY <1>1, <1>2, <1>3, <1>4, <1>5, <1>6, <1>7, <1>8, <1>9, SliceChangesKeepsMirror, DeletionsKeepMirror,
           RestartsKeepMirror DEF Next

-----------------------------------------------------------------------------
(* The address. *)

LEMMA ManagerStepsKeepAddress ==
    ASSUME TypeOK, AddressInv, managers = {"eip"}, managers' = managers,
           BeginService("eip") \/ FindReservation \/ ApplyService("eip") \/ ApplyStatus
    PROVE  AddressInv'
<1> DEFINE now == pass["eip"]
           next == pass'["eip"]
<1> USE DEF AddressInv, Agree
<1>1. now \in Passes /\ pass \in [managers -> Passes] /\ svc \in Services
  BY DEF TypeOK
<1>2. CASE BeginService("eip")
  <2>1. next.pc = "find" /\ UNCHANGED <<svc, queued, sync>>
    BY <1>1, <1>2 DEF BeginService, NoPass, external
  <2> QED BY <2>1
<1>3. CASE FindReservation
  <2>1. UNCHANGED <<svc, queued, sync>>
    BY <1>3 DEF FindReservation, external
  <2>2. next.pc = "idle" \/ (next.pc = "apply" /\ next.ip # Nil)
    BY <1>1, <1>3 DEF FindReservation, Call, End, NoPass, Passes
  <2> QED BY <2>1, <2>2
<1>4. CASE ApplyService("eip")
  <2>1. now.ip # Nil /\ UNCHANGED sync
    BY <1>4 DEF ApplyService
  <2>2. next.pc = "idle" \/ (next.pc = "status" /\ next.ip = now.ip /\ svc' = AppliedService("eip"))
    BY <1>1, <1>4 DEF ApplyService, Call, End, NoPass, Passes
  <2>3. CASE svc' = svc /\ queued' = queued
    <3>1. CASE next.pc = "idle"
      BY <2>1, <2>3, <3>1
    <3>2. CASE next.pc = "status" /\ next.ip = now.ip /\ svc' = AppliedService("eip")
      BY <1>1, <2>1, <2>3, <3>2 DEF AppliedService, Owned, Services
    <3> QED BY <2>2, <3>1, <3>2
  <2>4. CASE svc' = AppliedService("eip") /\ queued' = (queued \/ Watched(svc') # Watched(svc))
    <3>1. /\ svc'.exists /\ svc'.deleting = svc.deleting /\ svc'.status = svc.status
          /\ svc'.ip.value = now.ip /\ svc'.ip.owners = svc.ip.owners \union {"ccm"}
      BY <1>1, <2>4 DEF AppliedService, Owned, Services, Field
    <3>2. queued' \/ (queued' = queued /\ svc.exists /\ svc'.ip.value = svc.ip.value)
      <4>1. CASE Watched(svc') # Watched(svc)
        BY <2>4, <4>1, Zenon
      <4>2. CASE Watched(svc') = Watched(svc)
        <5>1. svc'.exists = svc.exists /\ svc'.ip.value = svc.ip.value
          BY <4>2 DEF Watched
        <5>2. queued' = queued
          BY <2>4, <4>2, Zenon DEF TypeOK
        <5> QED BY <3>1, <5>1, <5>2
      <4> QED BY <4>1, <4>2
    <3> QED BY <2>1, <2>2, <3>1, <3>2
  <2>5. \/ svc' = svc /\ queued' = queued
        \/ svc' = AppliedService("eip") /\ queued' = (queued \/ Watched(svc') # Watched(svc))
    BY <1>4, Zenon DEF ApplyService, Call
  <2> QED BY <2>3, <2>4, <2>5
<1>5. CASE ApplyStatus
  <2>1. /\ now.pc = "status" /\ next = NoPass /\ UNCHANGED <<queued, sync>>
        /\ svc' \in {svc, [svc EXCEPT !.status = Owned(@, now.ip)]}
    BY <1>1, <1>5 DEF ApplyStatus, Call, End
  <2>2. CASE svc' = svc
    BY <2>1, <2>2 DEF NoPass
  <2>3. CASE svc' = [svc EXCEPT !.status = Owned(@, now.ip)]
    <3>1. /\ svc'.exists = svc.exists /\ svc'.deleting = svc.deleting /\ svc'.ip = svc.ip
          /\ svc'.status.value = now.ip
      BY <1>1, <2>3 DEF Owned, Services
    <3> QED BY <2>1, <3>1 DEF NoPass
  <2> QED BY <2>1, <2>2, <2>3
<1> QED BY <1>2, <1>3, <1>4, <1>5

LEMMA SyncStepsKeepAddress ==
    ASSUME TypeOK, AddressInv, managers = {"eip"}, managers' = managers,
           BeginSync \/ RemoveSync \/ ListSync \/ UpdateSync \/ PatchSync \/ ServiceDeleted
    PROVE  AddressInv'
<1> USE DEF AddressInv, Agree
<1>1. svc \in Services /\ sync \in Syncs
  BY DEF TypeOK
<1>2. pass' = pass
  BY DEF BeginSync, RemoveSync, ListSync, UpdateSync, PatchSync, ServiceDeleted, memory
<1>3. CASE BeginSync
  <2>1. svc' = svc /\ svc.exists /\ sync = NoSync
    BY <1>3 DEF BeginSync
  <2>2. CASE svc.deleting
    <3>1. sync'.pc = "remove"
      BY <1>3, <2>2 DEF BeginSync, NoSync
    <3> QED BY <1>2, <2>1, <3>1
  <2>3. CASE ~svc.deleting
    <3>1. sync' = [pc |-> "list", ip |-> svc.ip.value, was |-> svc.status.value]
      BY <1>3, <2>3 DEF BeginSync
    <3> QED BY <1>2, <2>1, <3>1
  <2> QED BY <2>2, <2>3
<1>4. CASE RemoveSync
  <2>1. sync' = NoSync /\ (svc' = NoService \/ (svc' = svc /\ queued'))
    <3>1. sync' = NoSync
      BY <1>4 DEF RemoveSync, Call, SyncEnds, SyncFails
    <3>2. svc' = NoService \/ (svc' = svc /\ queued')
      BY <1>4, Zenon DEF RemoveSync, Call, SyncEnds, SyncFails
    <3> QED BY <3>1, <3>2
  <2>2. CASE svc' = NoService
    BY <1>2, <2>1, <2>2 DEF NoService, Unset, NoSync
  <2>3. CASE svc' = svc /\ queued'
    BY <1>2, <2>1, <2>3 DEF NoSync
  <2> QED BY <2>1, <2>2, <2>3
<1>5. CASE ListSync
  <2>1. sync.pc = "list" /\ svc' = svc
    BY <1>5 DEF ListSync
  <2>2. \/ sync' = NoSync /\ queued'
        \/ sync' = [sync EXCEPT !.pc = IF sync.ip # Nil THEN "patch" ELSE "update", !.ip = AddressFound]
           /\ queued' = queued
    BY <1>5, Zenon DEF ListSync, Call, SyncFails
  <2>3. CASE sync' = NoSync /\ queued'
    BY <1>2, <2>1, <2>3 DEF NoSync
  <2>4. CASE sync' = [sync EXCEPT !.pc = IF sync.ip # Nil THEN "patch" ELSE "update", !.ip = AddressFound]
             /\ queued' = queued
    <3>1. sync'.pc = "patch" /\ sync'.ip = sync.ip /\ sync'.was = sync.was
      BY <1>1, <2>1, <2>4 DEF AddressFound, Syncs
    <3> QED BY <1>2, <2>1, <2>4, <3>1
  <2> QED BY <2>2, <2>3, <2>4
<1>6. CASE UpdateSync
  BY <1>6 DEF UpdateSync
<1>7. CASE PatchSync
  <2>1. sync.pc = "patch" /\ sync' = NoSync
    BY <1>7 DEF PatchSync, Call, SyncEnds, SyncFails
  <2>2. \/ sync.ip = sync.was /\ svc' = svc /\ queued' = queued
        \/ svc' = [svc EXCEPT !.status = Written(@, sync.ip)] /\ queued' \in {queued, TRUE}
        \/ svc' = svc /\ queued'
    BY <1>7, Zenon DEF PatchSync, Call, SyncEnds, SyncFails
  <2>3. CASE sync.ip = sync.was /\ svc' = svc /\ queued' = queued
    BY <1>2, <2>1, <2>3 DEF NoSync
  <2>4. CASE svc' = [svc EXCEPT !.status = Written(@, sync.ip)] /\ queued' \in {queued, TRUE}
    <3>1. /\ svc'.exists = svc.exists /\ svc'.deleting = svc.deleting /\ svc'.ip = svc.ip
          /\ svc'.status.value = sync.ip
      BY <1>1, <2>4 DEF Written, Services
    <3> QED BY <1>2, <2>1, <2>4, <3>1 DEF NoSync
  <2>5. CASE svc' = svc /\ queued'
    BY <1>2, <2>1, <2>5 DEF NoSync
  <2> QED BY <2>2, <2>3, <2>4, <2>5
<1>8. CASE ServiceDeleted
  <2>1. /\ svc'.exists = svc.exists /\ svc'.deleting /\ svc'.ip = svc.ip /\ svc'.status = svc.status
        /\ sync' = sync
    BY <1>1, <1>8 DEF ServiceDeleted, Services, memory
  <2>2. queued'
    BY <1>8, Zenon DEF ServiceDeleted
  <2> QED BY <1>2, <2>1, <2>2
<1> QED BY <1>3, <1>4, <1>5, <1>6, <1>7, <1>8

LEMMA NextKeepsAddress ==
    ASSUME TypeOK, AddressInv, [Next]_vars
    PROVE  AddressInv'
<1> SUFFICES ASSUME managers' = {"eip"} PROVE AddressInv'
  BY DEF AddressInv
<1>1. managers' = managers
  BY DEF Next, ApplySlice, BeginService, ApplyService, Resync, FindReservation, ApplyStatus, BeginSync, RemoveSync,
     ListSync, UpdateSync, PatchSync, SliceChanges, OtherDeleted, MissedDeletion, ServersMove, Retag, Crash,
     ServiceDeleted, MirrorDeleted, MirrorEdited, config, vars
<1>2. ASSUME UNCHANGED <<svc, queued, sync, pass>> PROVE AddressInv'
  BY <1>1, <1>2 DEF AddressInv, Agree
<1>3. ASSUME \/ UNCHANGED vars
             \/ \E m \in managers : ApplySlice(m) \/ Resync(m)
             \/ \E n \in Names : SliceChanges(n)
             \/ \E n \in Others : OtherDeleted(n)
             \/ \E p \in ServersPorts : ServersMove(p)
             \/ \E a \in EIPs \union {Nil} : Retag(a)
             \/ MirrorDeleted \/ MirrorEdited
      PROVE  AddressInv'
  <2>1. UNCHANGED <<svc, queued, sync, pass>>
    BY <1>3 DEF ApplySlice, Resync, SliceChanges, OtherDeleted, ServersMove, Retag, MirrorDeleted, MirrorEdited,
       vars, config, original, external, memory
  <2> QED BY <1>2, <2>1
<1>4. ASSUME Crash \/ \E n \in Others : MissedDeletion(n) PROVE AddressInv'
  <2>1. UNCHANGED svc /\ sync' = NoSync /\ pass' = [m \in managers |-> NoPass] /\ queued' = svc.exists
    BY <1>1, <1>4 DEF Crash, MissedDeletion, Start
  <2>2. pass'["eip"] = NoPass
    BY <1>1, <2>1
  <2>3. svc.exists => queued'
    BY <2>1, Zenon
  <2> QED BY <1>1, <2>1, <2>2, <2>3 DEF AddressInv, Agree, NoPass, NoSync
<1> QED BY <1>1, <1>3, <1>4, ManagerStepsKeepAddress, SyncStepsKeepAddress DEF Next

-----------------------------------------------------------------------------
(* The theorems. *)

LEMMA InitEstablishes ==
    ASSUME Init
    PROVE  IInv
<1>1. slices \in [Names -> Versions] /\ Kubernetes \in Names /\ slices[Kubernetes] = 1
  BY BoundsAssumption DEF Init, Names, Versions
<1>2. Slice(Kubernetes) \in Event /\ Slice(Kubernetes).of = Kubernetes /\ Slice(Kubernetes).version = 1
  BY <1>1, BoundsAssumption DEF Slice, Event, Versions
<1>3. <<Slice(Kubernetes)>> \in Seq(Event) /\ <<target>> \in Seq(ServersPorts)
  BY <1>2 DEF Init
<1>4. \A m \in managers : events[m].slices = <<Slice(Kubernetes)>>
  BY DEF Init
<1>5. setting \in PortSettings
  BY DEF Init
<1>6. TypeOK
  <2>1. events \in [managers -> Queues]
    BY <1>3 DEF Init, Queues
  <2>2. faults \in 0 .. MaxFaults /\ changes \in 0 .. MaxChanges
    BY BoundsAssumption DEF Init
  <2> QED BY <1>1, <1>5, <2>1, <2>2, Blank DEF TypeOK, Init, Address
<1>7. Finite
  <2>1. {n \in Names : slices[n] > 0} \subseteq {Kubernetes}
    BY DEF Init
  <2> QED BY <2>1, FS_Singleton, FS_Subset DEF Finite
<1>8. MirrorInv
  <2>1. \A n \in Names : slices[n] <= changes + 1
    BY DEF Init
  <2>2. mirror.of = Nil /\ mirror.version = 0
    BY DEF Init, NoMirror
  <2>3. Kubernetes # Nil /\ changes = 0
    BY NamesAssumption DEF Init
  <2> DEFINE q == <<Slice(Kubernetes)>>
  <2>4. Len(q) = 1 /\ q[1].of = Kubernetes /\ q[1].version = 1
    BY <1>2
  <2> HIDE DEF q
  <2>5. InOrder(q, slices, changes) /\ NotBehind(q, mirror)
    BY <1>1, <2>2, <2>3, <2>4 DEF InOrder, NotBehind
  <2> QED BY <1>4, <2>1, <2>2, <2>5 DEF MirrorInv, q
<1>9. AddressInv
  <2>1. managers = {"eip"} => pass["eip"] = NoPass
    BY DEF Init
  <2> QED BY <2>1 DEF AddressInv, Agree, Init, NoService, Unset, NoPass, NoSync
<1> QED BY <1>6, <1>7, <1>8, <1>9 DEF IInv

LEMMA NextPreserves ==
    ASSUME IInv, [Next]_vars
    PROVE  IInv'
BY NextKeepsTypes, FiniteKept, NextKeepsMirror, NextKeepsAddress DEF IInv

\* The invariant of the mirror and of the address: what the informers, the manager and the
\* service controller have in hand fits what is applied (eip_controlplane_reconciliation.go:436-560).
THEOREM Invariance == Spec => []IInv
<1>1. Init => IInv
  BY InitEstablishes
<1>2. IInv /\ [Next]_vars => IInv'
  BY NextPreserves
<1> QED BY <1>1, <1>2, PTL DEF Spec

\* The managers apply only what their informers told them, and the service controller only
\* what it read: every variable keeps its type.
THEOREM TypeCorrectness == Spec => []TypeOK
<1>1. IInv => TypeOK
  BY DEF IInv
<1> QED BY <1>1, Invariance, PTL

\* Where the endpoint manager is alone, a Service at rest shows the address of its spec,
\* though the manager and the service controller both write the status from what they read
\* before (eip_controlplane_reconciliation.go:547, loadbalancers.go:179).
THEOREM StatusAgreesAtRest == Spec => []RestsConsistent
<1>1. IInv => RestsConsistent
  BY DEF IInv, AddressInv, Agree, RestsConsistent, NoSync
<1> QED BY <1>1, Invariance, PTL

LEMMA OneManagerIs ==
    ASSUME TypeOK, Cardinality(managers) = 1, NEW m \in managers
    PROVE  managers = {m}
<1>1. managers \subseteq {"eip", "lb"}
  BY DeploymentsAssumption DEF TypeOK
<1>2. IsFiniteSet(managers)
  <2>1. IsFiniteSet({"eip"} \union {"lb"}) /\ managers \subseteq {"eip"} \union {"lb"}
    BY <1>1, FS_Singleton, FS_AddElement
  <2> QED BY <2>1, FS_Subset
<1>3. Cardinality(managers \ {m}) = 0 /\ IsFiniteSet(managers \ {m})
  BY <1>2, FS_RemoveElement
<1>4. managers \ {m} = {}
  BY <1>3, FS_EmptySet
<1> QED BY <1>4

\* The external slice of a single manager never shows older endpoints of a slice again: its
\* events are handled one at a time and in order, and what a resync or a start adds is
\* current (eip_controlplane_reconciliation.go:436).
THEOREM SliceNeverGoesBack == Spec => NeverGoesBack
<1>1. ASSUME IInv, [Next]_vars
      PROVE  [Cardinality(managers) = 1 /\ mirror'.of = mirror.of => mirror'.version >= mirror.version]_vars
  <2> SUFFICES ASSUME Next, Cardinality(managers) = 1, mirror'.of = mirror.of
               PROVE  mirror'.version >= mirror.version
    BY <1>1
  <2>1. TypeOK /\ TypeOK' /\ MirrorInv
    BY <1>1, NextKeepsTypes DEF IInv
  <2>2. mirror.version \in Int
    BY <2>1, NumbersAre
  <2>3. CASE mirror' = mirror
    BY <2>2, <2>3
  <2>4. ASSUME NEW m \in managers, ApplySlice(m) PROVE mirror'.version >= mirror.version
    BY <2>1, <2>4, ApplySliceKeepsMirror, OneManagerIs
  <2>5. CASE MirrorDeleted \/ MirrorEdited
    <3>1. mirror'.of = Nil /\ mirror'.version = 0
      BY <2>5 DEF MirrorDeleted, MirrorEdited, NoMirror
    <3> QED BY <2>1, <3>1 DEF MirrorInv
  <2> QED BY <2>3, <2>4, <2>5 DEF Next, BeginService, ApplyService, Resync, FindReservation, ApplyStatus, BeginSync,
             RemoveSync, ListSync, UpdateSync, PatchSync, SliceChanges, OtherDeleted, MissedDeletion, ServersMove,
             Retag, Crash, ServiceDeleted, external
<1> QED BY <1>1, Invariance, PTL DEF Spec, NeverGoesBack
=============================================================================
