----------------------- MODULE MetalLBResourcesProofs -----------------------
(***************************************************************************)
(* Theorems about MetalLBResources, for any number of services, addresses, *)
(* nodes, workers and failures.                                            *)
(*                                                                         *)
(* The properties look at services at rest, and none of them is inductive: *)
(* the invariant says how far each call has come (AddMidway,               *)
(* RemoveMidway), that a service has one set-up or removal under way at    *)
(* most, and that a service is once in the advertisement.  Consistent(s)   *)
(* is claimed of a service that the history variables do not except.       *)
(***************************************************************************)
EXTENDS MetalLBResources, TLAPS, SequenceTheorems, FiniteSetTheorems, WellFoundedInduction

Major(t, s) == t.s = s /\ t.op \in {"add", "remove"}

Present(s)  == pool[s] = address[s] /\ Advertised(s)
Absent(s)   == pool[s] = Nil /\ ~Advertised(s)
Unserved(s) == \A n \in Nodes : ~Serves(n, s)

Lists(list, s) == list # Nil /\ \E i \in DOMAIN list : list[i] = s
Once(list, s)  == list = Nil \/ \A i, j \in DOMAIN list : list[i] = s /\ list[j] = s => i = j

\* How far a set-up or a removal of s has come.
AddMidway(t, s) ==
    /\ address[s] = t.ip
    /\ t.pc = "listPools" => Present(s) \/ Absent(s)
    /\ t.pc # "joinPool"
    /\ t.pc = "createPool" => Absent(s)
    /\ t.pc \in {"listAdvs", "writeAdv"} => pool[s] = t.ip /\ ~Advertised(s)
    /\ t.pc \in {"listPeers", "writePeer"} => Present(s)

RemoveMidway(t, s) ==
    /\ address[s] # Nil => s \in due
    /\ t.pc = "listPools" => (pool[s] = Nil <=> ~Advertised(s))
    /\ t.pc \in {"listPools", "deletePool", "listAdvs"} => t.at = 1
    /\ t.pc \in {"listAdvs", "writeAdv"} => pool[s] = Nil
    /\ t.pc = "writeAdv" /\ Advertised(s) => Found(t) # {}
    /\ t.pc \in {"listPeers", "writePeer"} => Absent(s)
    /\ t.pc = "writePeer" /\ address[s] = Nil => \A n \in Nodes : Serves(n, s) => n \in t.left

\* Between two calls a service is set up, or it is yet to be; or it is gone.
AtRest(s) ==
    /\ address[s] # Nil => Present(s) \/ (s \in due /\ Absent(s))
    /\ address[s] = Nil => Absent(s) /\ Unserved(s)

Consistent(s) ==
    /\ Once(adv, s)
    /\ (\A w \in Workers : ~Major(task[w], s)) => AtRest(s)
    /\ address[s] = Nil => \A w \in Workers : task[w].s = s => task[w].op = "remove"
    /\ \A w \in Workers :
         /\ Major(task[w], s) /\ task[w].op = "add" => AddMidway(task[w], s)
         /\ Major(task[w], s) /\ task[w].op = "remove" => RemoveMidway(task[w], s)

Sound(s) == s \notin hurt /\ ~outdated

\* A call is at a step of its operation, with what that needs.
WellFormed(t) ==
    /\ t \in Task
    /\ t.op = "none" <=> t.pc = "idle"
    /\ t.pc = "idle" => t = NoTask
    /\ t.pc # "idle" => t.s \in Services
    /\ t.op \in {"add", "remove"} => t.ip \in IPs
    /\ t.op \notin {"add", "remove"} => t.pc \in {"idle", "listPeers", "writePeer"}
    /\ t.pc \in {"joinPool", "createPool"} => t.op = "add"
    /\ t.pc = "joinPool" => t.into \in Services /\ t.into # t.s
    /\ t.pc = "deletePool" => t.op = "remove"
    /\ t.op = "remove" => t.nodes = NoNodes

\* No two workers set up or tear down the same service.
Exclusive ==
    \A v, w \in Workers : \A s \in Services :
        Major(task[v], s) /\ Major(task[w], s) => v = w

Base ==
    /\ TypeOK
    /\ \A w \in Workers : WellFormed(task[w])
    /\ Exclusive

IInv == Base /\ \A s \in Services : Sound(s) => Consistent(s)

-----------------------------------------------------------------------------
(* Lists of pools and sets of peers.                                         *)

\* A set of natural numbers that is not empty has a least one: the interval below it
\* is the smallest of the intervals below its members.
LEMMA LeastIs ==
    ASSUME NEW S, S \subseteq Nat, S # {}
    PROVE  Min(S) \in S /\ \A i \in S : Min(S) <= i
<1> DEFINE R == StrictSubsetOrdering(Nat)
           T == {1 .. i : i \in S}
<1>1. T \subseteq FiniteSubsetsOf(Nat) /\ T # {}
  <2>1. \A i \in S : 1 .. i \in SUBSET Nat /\ IsFiniteSet(1 .. i)
    BY FS_Interval
  <2> QED BY <2>1 DEF FiniteSubsetsOf
<1>2. IsWellFoundedOn(R, FiniteSubsetsOf(Nat))
  BY FS_StrictSubsetOrderingWellFounded
<1>3. \E a \in T : \A b \in T : ~(<<b, a>> \in R)
  <2> HIDE DEF R, T
  <2> QED BY <1>1, <1>2, WFMin, Zenon
<1>4. PICK x \in S : \A y \in S : ~(<<1 .. y, 1 .. x>> \in R)
  BY <1>3
<1>5. \A y \in S : x <= y
  <2> SUFFICES ASSUME NEW y \in S, y < x PROVE FALSE
    OBVIOUS
  <2>1. 1 .. y \subseteq 1 .. x /\ x \in 1 .. x /\ x \notin 1 .. y /\ 1 .. x \in SUBSET Nat
    OBVIOUS
  <2>2. <<1 .. y, 1 .. x>> \in R
    BY <2>1 DEF StrictSubsetOrdering
  <2> QED BY <2>2, <1>4
<1> QED BY <1>4, <1>5 DEF Min

LEMMA RemoveAtIs ==
    ASSUME NEW list \in Seq(Services), NEW k \in 1 .. Len(list)
    PROVE  /\ RemoveAt(list, k) \in Seq(Services)
           /\ DOMAIN RemoveAt(list, k) = 1 .. Len(list) - 1
           /\ \A i \in 1 .. Len(list) - 1 :
                RemoveAt(list, k)[i] = IF i < k THEN list[i] ELSE list[i + 1]
<1> DEFINE a == SubSeq(list, 1, k - 1)
           b == SubSeq(list, k + 1, Len(list))
<1>1. Len(list) \in Nat /\ \A i \in 1 .. Len(list) : list[i] \in Services
  BY LenProperties, ElementOfSeq
<1>2. a \in Seq(Services) /\ Len(a) = k - 1 /\ \A i \in 1 .. k - 1 : a[i] = list[i]
  BY <1>1, SubSeqProperties
<1>3. b \in Seq(Services) /\ Len(b) = Len(list) - k /\ \A i \in 1 .. Len(list) - k : b[i] = list[k + i]
  BY <1>1, SubSeqProperties
<1> HIDE DEF a, b
<1>4. /\ a \o b \in Seq(Services) /\ Len(a \o b) = Len(list) - 1
      /\ \A i \in 1 .. Len(list) - 1 : (a \o b)[i] = IF i <= k - 1 THEN a[i] ELSE b[i - (k - 1)]
  BY <1>1, <1>2, <1>3, ConcatProperties
<1>5. DOMAIN (a \o b) = 1 .. Len(list) - 1
  BY <1>4, LenProperties
<1>6. \A i \in 1 .. Len(list) - 1 : (a \o b)[i] = IF i < k THEN list[i] ELSE list[i + 1]
  <2> TAKE i \in 1 .. Len(list) - 1
  <2>1. CASE i < k
    BY <2>1, <1>1, <1>2, <1>4
  <2>2. CASE i >= k
    <3>1. i - (k - 1) \in 1 .. Len(list) - k /\ k + (i - (k - 1)) = i + 1
      BY <2>2, <1>1
    <3>2. (a \o b)[i] = b[i - (k - 1)]
      <4>1. ~(i <= k - 1)
        BY <2>2, <1>1
      <4> QED BY <4>1, <1>4
    <3>3. b[i - (k - 1)] = list[k + (i - (k - 1))]
      BY <3>1, <1>3
    <3>4. ~(i < k)
      BY <2>2, <1>1
    <3> QED BY <3>1, <3>2, <3>3, <3>4
  <2>3. i < k \/ i >= k
    BY <1>1
  <2> QED BY <2>1, <2>2, <2>3
<1> QED BY <1>4, <1>5, <1>6 DEF RemoveAt, a, b

\* What a call finds in the list it has, when that is the advertisement.
LEMMA FoundIs ==
    ASSUME NEW t, WellFormed(t), Found(t) # {}
    PROVE  /\ t.list \in Seq(Services)
           /\ Min(Found(t)) \in 1 .. Len(t.list)
           /\ t.list[Min(Found(t))] = t.s
<1>1. t.list # Nil /\ t.list \in Seq(Services) /\ t.at \in Nat \ {0}
  BY DEF WellFormed, Task, Found
<1>2. Len(t.list) \in Nat
  BY <1>1, LenProperties
<1>3. Found(t) \subseteq Nat /\ \A i \in Found(t) : i \in 1 .. Len(t.list) /\ t.list[i] = t.s
  BY <1>1, <1>2 DEF Found
<1> QED BY <1>1, <1>3, LeastIs

\* What a removal writes lists every pool that was listed, but for one place of its own.
LEMMA ShortenedIs ==
    ASSUME NEW t, WellFormed(t), Found(t) # {}
    PROVE  /\ Shortened(t) \in Seq(Services)
           /\ \A s \in Services : s # t.s => (Lists(Shortened(t), s) <=> Lists(t.list, s))
           /\ \A s \in Services : Once(t.list, s) => Once(Shortened(t), s)
           /\ Once(t.list, t.s) => ~Lists(Shortened(t), t.s)
<1> DEFINE list == t.list
           k == Min(Found(t))
           new == RemoveAt(list, k)
<1>1. list \in Seq(Services) /\ k \in 1 .. Len(list) /\ list[k] = t.s
  BY FoundIs
<1>2. Len(list) \in Nat /\ DOMAIN list = 1 .. Len(list) /\ list # Nil
  BY <1>1, LenProperties, NilAssumption
<1>3. /\ new \in Seq(Services) /\ DOMAIN new = 1 .. Len(list) - 1
      /\ \A i \in 1 .. Len(list) - 1 : new[i] = IF i < k THEN list[i] ELSE list[i + 1]
  BY <1>1, RemoveAtIs
<1>4. new # Nil
  BY <1>3, NilAssumption
<1> HIDE DEF list, k, new
<1>5. ASSUME NEW s \in Services, s # t.s, Lists(list, s) PROVE Lists(new, s)
  <2>1. PICK i \in DOMAIN list : list[i] = s
    BY <1>5 DEF Lists
  <2>2. i # k
    BY <2>1, <1>1, <1>5
  <2>3. CASE i < k
    BY <2>1, <2>3, <1>1, <1>2, <1>3, <1>4 DEF Lists
  <2>4. CASE i > k
    <3>1. i - 1 \in 1 .. Len(list) - 1 /\ ~(i - 1 < k) /\ (i - 1) + 1 = i
      BY <2>1, <2>4, <1>1, <1>2
    <3>2. new[i - 1] = s
      BY <3>1, <2>1, <1>3
    <3> QED BY <3>1, <3>2, <1>3, <1>4 DEF Lists
  <2> QED BY <2>1, <2>2, <2>3, <2>4, <1>1, <1>2
<1>6. \A i \in DOMAIN new : /\ new[i] = list[IF i < k THEN i ELSE i + 1]
                            /\ (IF i < k THEN i ELSE i + 1) \in DOMAIN list \ {k}
  BY <1>1, <1>2, <1>3
<1>7. ASSUME NEW s \in Services, Lists(new, s) PROVE \E j \in DOMAIN list \ {k} : list[j] = s
  <2>1. PICK i \in DOMAIN new : new[i] = s
    BY <1>7 DEF Lists
  <2> QED BY <2>1, <1>6
<1>8. ASSUME NEW s \in Services, Once(list, s) PROVE Once(new, s)
  <2> SUFFICES ASSUME NEW i \in DOMAIN new, NEW j \in DOMAIN new, new[i] = s, new[j] = s
               PROVE  i = j
    BY DEF Once
  <2>1. (IF i < k THEN i ELSE i + 1) = (IF j < k THEN j ELSE j + 1)
    BY <1>6, <1>8, <1>2 DEF Once
  <2> QED BY <2>1, <1>1, <1>2, <1>3
<1>9. Once(list, t.s) => ~Lists(new, t.s)
  <2>1. t.s \in Services
    BY <1>1, <1>2, ElementOfSeq
  <2> QED BY <2>1, <1>7, <1>1, <1>2 DEF Once
<1>10. Shortened(t) = new /\ t.list = list
  BY DEF Shortened, new, list, k
<1> QED BY <1>2, <1>3, <1>5, <1>7, <1>8, <1>9, <1>10 DEF Lists

LEMMA AppendIs ==
    ASSUME NEW list \in Seq(Services), NEW e \in Services
    PROVE  /\ Append(list, e) \in Seq(Services)
           /\ \A s \in Services : Lists(Append(list, e), s) <=> Lists(list, s) \/ s = e
           /\ \A s \in Services : s # e \/ ~Lists(list, s) => (Once(list, s) => Once(Append(list, e), s))
<1> DEFINE new == Append(list, e)
<1>1. Len(list) \in Nat /\ DOMAIN list = 1 .. Len(list) /\ list # Nil
  BY LenProperties, NilAssumption
<1>2. /\ new \in Seq(Services) /\ new # Nil
      /\ DOMAIN new = 1 .. Len(list) + 1
      /\ \A i \in DOMAIN new : new[i] = IF i = Len(list) + 1 THEN e ELSE list[i]
  BY <1>1, AppendProperties, LenProperties, NilAssumption
<1> HIDE DEF new
<1>3. ASSUME NEW s \in Services PROVE Lists(new, s) <=> Lists(list, s) \/ s = e
  BY <1>1, <1>2 DEF Lists
<1>4. ASSUME NEW s \in Services, s # e \/ ~Lists(list, s), Once(list, s) PROVE Once(new, s)
  BY <1>1, <1>2, <1>4 DEF Lists, Once
<1> QED BY <1>2, <1>3, <1>4 DEF new

LEMMA SingletonIs ==
    ASSUME NEW e \in Services
    PROVE  /\ <<e>> \in Seq(Services)
           /\ \A s \in Services : (Lists(<<e>>, s) <=> s = e) /\ Once(<<e>>, s)
<1>1. <<e>> \in Seq(Services) /\ DOMAIN <<e>> = {1} /\ <<e>>[1] = e
  OBVIOUS
<1> QED BY <1>1, NilAssumption DEF Lists, Once

\* A call that writes the advertisement it has listed changes the place of its own
\* service only.
LEMMA AdvWrittenIs ==
    ASSUME NEW t, WellFormed(t), t.op \in {"add", "remove"},
           t.op = "add" \/ Found(t) # {}
    PROVE  /\ AdvWritten(t) \in Seq(Services) \union {Nil}
           /\ \A s \in Services : s # t.s =>
                /\ t.list # Nil \/ t.op = "add"
                /\ Lists(AdvWritten(t), s) <=> Lists(t.list, s)
                /\ Once(t.list, s) => Once(AdvWritten(t), s)
           /\ t.op = "add" => Lists(AdvWritten(t), t.s)
           /\ t.op = "add" /\ ~Lists(t.list, t.s) => Once(AdvWritten(t), t.s)
           /\ t.op = "remove" /\ Once(t.list, t.s) => ~Lists(AdvWritten(t), t.s) /\ Once(AdvWritten(t), t.s)
<1>1. t.s \in Services /\ t.list \in Seq(Services) \union {Nil}
  BY DEF WellFormed, Task
<1>2. CASE t.op = "add" /\ t.list = Nil
  <2>1. AdvWritten(t) = <<t.s>> /\ \A s : ~Lists(t.list, s)
    BY <1>2 DEF AdvWritten, Lists
  <2> QED BY <1>1, <1>2, <2>1, SingletonIs
<1>3. CASE t.op = "add" /\ t.list # Nil
  <2>1. ~Lists(t.list, t.s) => Once(t.list, t.s)
    BY DEF Lists, Once
  <2>2. AdvWritten(t) = Append(t.list, t.s) /\ t.list \in Seq(Services)
    BY <1>1, <1>3 DEF AdvWritten
  <2> QED BY <1>1, <1>3, <2>1, <2>2, AppendIs
<1>4. CASE t.op = "remove" /\ Len(t.list) > 1
  <2>1. AdvWritten(t) = Shortened(t) /\ t.list \in Seq(Services) /\ t.list # Nil
    BY <1>4, FoundIs, NilAssumption DEF AdvWritten
  <2> QED BY <1>1, <1>4, <2>1, ShortenedIs
<1>5. CASE t.op = "remove" /\ ~(Len(t.list) > 1)
  <2>1. /\ t.list \in Seq(Services) /\ t.list # Nil
        /\ Min(Found(t)) \in 1 .. Len(t.list) /\ t.list[Min(Found(t))] = t.s
    BY <1>5, FoundIs, NilAssumption
  <2>2. Len(t.list) = 1 /\ DOMAIN t.list = {1} /\ t.list[1] = t.s
    <3>1. Len(t.list) \in Nat /\ DOMAIN t.list = 1 .. Len(t.list)
      BY <2>1, LenProperties
    <3>2. PICK k \in 1 .. Len(t.list) : t.list[k] = t.s
      BY <2>1
    <3>3. ~(Len(t.list) > 1)
      BY <1>5
    <3>4. Len(t.list) = 1
      <4> DEFINE len == Len(t.list)
      <4>1. len \in Nat /\ k \in 1 .. len /\ ~(len > 1)
        BY <3>1, <3>3
      <4> HIDE DEF len
      <4>2. len = 1
        BY <4>1
      <4> QED BY <4>2 DEF len
    <3>5. 1 .. 1 = {1}
      OBVIOUS
    <3>6. DOMAIN t.list = {1} /\ k \in {1}
      BY <3>1, <3>2, <3>4, <3>5, Zenon
    <3> QED BY <3>2, <3>4, <3>6
  <2>3. AdvWritten(t) = Nil
    BY <1>5, <2>2 DEF AdvWritten
  <2> QED BY <1>5, <2>1, <2>2, <2>3 DEF Lists, Once
<1> QED BY <1>2, <1>3, <1>4, <1>5

\* What a peer is to become: services of others are neither added nor taken away,
\* unless its data change.
Names(p, s) == p # Nil /\ s \in p.services

LEMMA PeerComputedIs ==
    ASSUME NEW t, WellFormed(t), NEW n \in Nodes
    PROVE  /\ PeerComputed(t, n) \in Peer \union {Nil}
           /\ \A s \in Services : s # t.s /\ Names(PeerComputed(t, n), s) => Names(t.peers[n], s)
           /\ \A s \in Services : Names(t.peers[n], s) /\ ~Names(PeerComputed(t, n), s) =>
                \/ s = t.s /\ t.nodes[n] = Nil
                \/ PeerComputed(t, n) # Nil /\ PeerComputed(t, n).spec # t.peers[n].spec
           /\ t.nodes[n] = Nil => ~Names(PeerComputed(t, n), t.s)
<1> DEFINE p == t.peers[n]
           spec == t.nodes[n]
           new == PeerComputed(t, n)
<1>1. /\ p \in Peer \union {Nil} /\ spec \in Specs \union {Nil}
      /\ t.pc # "idle" => t.s \in Services
      /\ t.pc = "idle" => p = Nil /\ spec = Nil
  BY DEF WellFormed, Task, NoTask, Call, NoNodes, Listed, Wanted
<1>2. Nil \notin Peer /\ Nil \notin Specs
  BY NilAssumption
<1>3. CASE spec # Nil /\ p = Nil
  <2>1. PICK x \in SUBSET {t.s} : new = [services |-> x, spec |-> spec]
    BY <1>3 DEF PeerComputed, NewPeer
  <2>2. t.s \in Services
    BY <1>1, <1>3
  <2> QED BY <1>1, <1>2, <1>3, <2>1, <2>2 DEF Peer, Names
<1>4. CASE spec # Nil /\ p # Nil
  <2>1. t.s \in Services /\ p \in Peer
    BY <1>1, <1>4
  <2>2. new = IF p.spec = spec THEN [p EXCEPT !.services = @ \union {t.s}]
              ELSE [services |-> {}, spec |-> spec]
    BY <1>4 DEF PeerComputed, PeerUpdated, PeerSpecEqual, PeerAddService, NewPeer
  <2> QED BY <1>1, <1>2, <1>4, <2>1, <2>2 DEF Peer, Names
<1>5. CASE spec = Nil /\ p = Nil
  BY <1>5 DEF PeerComputed, Names
<1>6. CASE spec = Nil /\ p # Nil
  <2>1. p \in Peer
    BY <1>1, <1>6
  <2>2. new = IF t.s \in p.services /\ p.services \ {t.s} = {} THEN Nil
              ELSE [p EXCEPT !.services = @ \ {t.s}]
    BY <1>6, <2>1 DEF PeerComputed, PeerCut, PeerRemoveService, Peer
  <2>3. CASE t.s \in p.services /\ p.services \ {t.s} = {}
    BY <1>6, <2>1, <2>2, <2>3 DEF Names
  <2>4. CASE ~(t.s \in p.services /\ p.services \ {t.s} = {})
    BY <1>2, <1>6, <2>1, <2>2, <2>4 DEF Names, Peer
  <2> QED BY <2>3, <2>4
<1> QED BY <1>3, <1>4, <1>5, <1>6

\* A write touches one peer, and gives it what was computed when it is the one listed.
LEMMA PeerWrittenIs ==
    ASSUME TypeOK, NEW t, WellFormed(t), NEW n \in Nodes, ~PeerRefused(t, n)
    PROVE  /\ PeerWritten(t, n) \in Listed
           /\ \A m \in Nodes : m # n => PeerWritten(t, n)[m] = peer[m]
           /\ peer[n] = t.peers[n] => PeerWritten(t, n)[n] = PeerComputed(t, n)
<1> DEFINE new == PeerComputed(t, n)
           old == t.peers[n]
           both == [services |-> IF new.services = old.services THEN peer[n].services ELSE new.services,
                    spec     |-> IF new.spec = old.spec THEN peer[n].spec ELSE new.spec]
<1>1. peer \in Listed /\ old \in Peer \union {Nil} /\ new \in Peer \union {Nil}
  BY PeerComputedIs DEF TypeOK, WellFormed, Task, Listed
<1>2. PeerWritten(t, n) = [peer EXCEPT ![n] = IF new = Nil \/ old = Nil THEN new ELSE both]
  BY <1>1 DEF PeerWritten, Listed
<1>3. old = Nil <=> peer[n] = Nil
  BY <1>1 DEF PeerRefused
<1> HIDE DEF new, old
<1>4. peer[n] \in Peer /\ new \in Peer => both \in Peer
  BY DEF Peer
<1>5. peer[n] = old /\ old \in Peer /\ new \in Peer => both = new
  BY DEF Peer
<1>6. peer[n] \in Peer \union {Nil}
  BY <1>1 DEF Listed
<1>7. (IF new = Nil \/ old = Nil THEN new ELSE both) \in Peer \union {Nil}
  BY <1>1, <1>3, <1>4, <1>6
<1>8. PeerWritten(t, n) \in Listed
  BY <1>1, <1>2, <1>7 DEF Listed
<1>9. peer[n] = old => (IF new = Nil \/ old = Nil THEN new ELSE both) = new
  BY <1>1, <1>5
<1>10. /\ \A m \in Nodes : m # n => PeerWritten(t, n)[m] = peer[m]
       /\ PeerWritten(t, n)[n] = IF new = Nil \/ old = Nil THEN new ELSE both
  BY <1>1, <1>2 DEF Listed
<1> QED BY <1>8, <1>9, <1>10 DEF new, old

-----------------------------------------------------------------------------
(* Every step keeps the types, and the calls as they have to be.             *)

LEMMA NoTaskIs ==
    /\ WellFormed(NoTask)
    /\ \A s \in Services : NoTask.s # s
  BY NilAssumption DEF WellFormed, NoTask, Call, Task, NoNodes, Wanted, Listed

LEMMA CallIs ==
    ASSUME NEW op, NEW pc, NEW s \in Services, NEW ip, NEW nodes \in Wanted,
           \/ op \in {"add", "remove"} /\ pc = "listPools" /\ ip \in IPs
           \/ op = "update" /\ pc = "listPeers" /\ ip = Nil,
           op = "remove" => nodes = NoNodes
    PROVE  /\ WellFormed(Call(op, pc, s, ip, nodes))
           /\ Call(op, pc, s, ip, nodes).op = op /\ Call(op, pc, s, ip, nodes).s = s
           /\ Call(op, pc, s, ip, nodes).pc = pc /\ Call(op, pc, s, ip, nodes).ip = ip
           /\ Call(op, pc, s, ip, nodes).nodes = nodes
<1>1. NoNodes \in Listed
  BY DEF NoNodes, Listed
<1> QED BY <1>1 DEF Call, WellFormed, Task

Tasks ==
    /\ task \in [Workers -> Task]
    /\ \A w \in Workers : WellFormed(task[w])
    /\ Exclusive

\* Base in parts: what is in the cluster, and the calls.
Rest ==
    /\ pool \in [Services -> IPs \union {Nil}]
    /\ adv \in Seq(Services) \union {Nil}
    /\ peer \in Listed
    /\ address \in [Services -> IPs \union {Nil}]
    /\ cluster \in Wanted
    /\ due \subseteq Services /\ stale \subseteq Services
    /\ faults \in 0 .. MaxFaults
    /\ outdated \in BOOLEAN /\ hurt \subseteq Services

LEMMA BaseIs == (Base <=> Rest /\ Tasks) /\ (Base' <=> Rest' /\ Tasks')
<1>1. (Rest /\ Tasks => TypeOK) /\ (Rest' /\ Tasks' => TypeOK')
  BY DEF Rest, Tasks, TypeOK, WellFormed
<1>2. /\ TypeOK => Rest /\ task \in [Workers -> Task]
      /\ TypeOK' => Rest' /\ task' \in [Workers -> Task]
  BY DEF Rest, TypeOK
<1> QED BY <1>1, <1>2 DEF Base, Tasks

\* A call goes on, ends, or begins while no other is for its service.
LEMMA TasksKept ==
    ASSUME Tasks, NEW w \in Workers, NEW u, WellFormed(u),
           task' = [task EXCEPT ![w] = u],
           \/ u = NoTask
           \/ u.s = task[w].s /\ u.op = task[w].op
           \/ u.op = "update"
           \/ \A v \in Workers : ~Major(task[v], u.s)
    PROVE  Tasks'
<1>1. u \in Task
  BY DEF WellFormed
<1>2. /\ task' \in [Workers -> Task] /\ task'[w] = u
      /\ \A v \in Workers : v # w => task'[v] = task[v]
  BY <1>1 DEF Tasks
<1>3. \A v \in Workers : WellFormed(task'[v])
  BY <1>2 DEF Tasks
<1>4. \A s \in Services : Major(u, s) => Major(task[w], s) \/ \A v \in Workers : ~Major(task[v], s)
  BY NoTaskIs DEF Major
<1>5. Exclusive'
  BY <1>2, <1>4 DEF Exclusive, Tasks, Major
<1> QED BY <1>2, <1>3, <1>5 DEF Tasks, WellFormed

LEMMA ReturnKeeps == ASSUME Tasks, NEW w \in Workers, Return(w) PROVE Tasks'
BY TasksKept, NoTaskIs DEF Return

LEMMA FailKeeps ==
    ASSUME Base, NEW w \in Workers, task[w].pc # "idle", Fail(w)
    PROVE  Tasks' /\ due' \subseteq Services /\ stale' \subseteq Services /\ hurt' \subseteq Services
<1>1. task[w].s \in Services
  BY DEF Base, WellFormed
<1> QED BY <1>1, ReturnKeeps, BaseIs DEF Fail, Rest

\* A call that goes on, at another step of its operation.
LEMMA GoesOn ==
    ASSUME Base, NEW w \in Workers, task[w].pc # "idle", NEW u \in Task,
           task' = [task EXCEPT ![w] = u], u.op = task[w].op, u.s = task[w].s,
           u.ip = task[w].ip, u.nodes = task[w].nodes,
           u.pc \in {"deletePool"} => u.op = "remove",
           u.pc \in {"listPools", "listAdvs", "writeAdv"} => u.op \in {"add", "remove"},
           u.pc \in {"joinPool", "createPool"} => u.op = "add",
           u.pc = "joinPool" => u.into \in Services /\ u.into # u.s,
           u.pc # "idle"
    PROVE  Tasks'
<1>1. WellFormed(task[w]) /\ Tasks
  BY BaseIs DEF Base
<1>2. WellFormed(u)
  BY <1>1 DEF WellFormed, Task
<1> QED BY <1>1, <1>2, TasksKept

LEMMA StepKeepsBase ==
    ASSUME Base, NEW w \in Workers, Steps(w)
    PROVE  Base'
<1> DEFINE t == task[w]
<1>1. /\ Rest /\ Tasks /\ TypeOK
      /\ t \in Task /\ WellFormed(t) /\ task \in [Workers -> Task]
  BY BaseIs DEF Base, Tasks
<1>2. CASE SearchPools(w)
  <2>1. Rest'
    BY <1>1, <1>2 DEF SearchPools, Rest, WellFormed
  <2>2. t.op = "add" /\ t.pc = "listPools"
    BY <1>2 DEF SearchPools
  <2>3. CASE Goto(w, "listPeers")
    <3> DEFINE u == [t EXCEPT !.pc = "listPeers"]
    <3>1. u \in Task /\ u.pc = "listPeers" /\ u.op = t.op /\ u.s = t.s /\ u.ip = t.ip /\ u.nodes = t.nodes
      BY <1>1 DEF Task
    <3>2. task' = [task EXCEPT ![w] = u]
      BY <2>3 DEF Goto
    <3> HIDE DEF u
    <3> QED BY <2>1, <2>2, <3>1, <3>2, GoesOn, BaseIs
  <2>4. CASE Goto(w, "createPool")
    <3> DEFINE u == [t EXCEPT !.pc = "createPool"]
    <3>1. u \in Task /\ u.pc = "createPool" /\ u.op = t.op /\ u.s = t.s /\ u.ip = t.ip /\ u.nodes = t.nodes
      BY <1>1 DEF Task
    <3>2. task' = [task EXCEPT ![w] = u]
      BY <2>4 DEF Goto
    <3> HIDE DEF u
    <3> QED BY <2>1, <2>2, <3>1, <3>2, GoesOn, BaseIs
  <2>5. ASSUME NEW o \in Services \ {t.s}, Become(w, [t EXCEPT !.pc = "joinPool", !.into = o])
        PROVE  Base'
    <3> DEFINE u == [t EXCEPT !.pc = "joinPool", !.into = o]
    <3>1. /\ u \in Task /\ u.pc = "joinPool" /\ u.op = t.op /\ u.s = t.s /\ u.ip = t.ip /\ u.nodes = t.nodes
          /\ u.into \in Services /\ u.into # u.s
      BY <1>1 DEF Task
    <3>2. task' = [task EXCEPT ![w] = u]
      BY <2>5 DEF Become
    <3> HIDE DEF u
    <3> QED BY <2>1, <2>2, <3>1, <3>2, GoesOn, BaseIs
  <2> QED BY <1>2, <2>3, <2>4, <2>5 DEF SearchPools
<1>3. CASE FindPool(w)
  <2> DEFINE u == [t EXCEPT !.pc = IF pool[t.s] = Nil THEN "listAdvs" ELSE "deletePool"]
  <2>1. Rest'
    BY <1>1, <1>3 DEF FindPool, Rest, history
  <2>2. t.op = "remove" /\ t.pc = "listPools" /\ task' = [task EXCEPT ![w] = u]
    BY <1>3 DEF FindPool, Goto
  <2>3. u \in Task /\ u.pc \in {"listAdvs", "deletePool"} /\ u.op = t.op /\ u.s = t.s /\ u.ip = t.ip /\ u.nodes = t.nodes
    BY <1>1 DEF Task
  <2> HIDE DEF u
  <2> QED BY <2>1, <2>2, <2>3, GoesOn, BaseIs
<1>4. CASE WritePool(w)
  <2>1. t.pc \in {"joinPool", "createPool", "deletePool"} /\ t.op \in {"add", "remove"}
    BY <1>1, <1>4 DEF WritePool, WellFormed
  <2>2. CASE Fail(w) /\ UNCHANGED <<pool, outdated>>
    <3>1. Rest'
      BY <1>1, <1>4, <2>1, <2>2, FailKeeps DEF WritePool, Rest
    <3> QED BY <2>1, <2>2, <3>1, FailKeeps, BaseIs
  <2>3. CASE /\ pool' = PoolWritten(t)
             /\ outdated' = (outdated \/ PoolOutdated(t))
             /\ Become(w, [t EXCEPT !.pc = IF @ = "joinPool" THEN "listPeers" ELSE "listAdvs", !.into = Nil])
             /\ UNCHANGED <<due, stale, hurt>>
    <3> DEFINE u == [t EXCEPT !.pc = IF @ = "joinPool" THEN "listPeers" ELSE "listAdvs", !.into = Nil]
    <3>1. Rest'
      BY <1>1, <1>4, <2>1, <2>3 DEF WritePool, Rest, PoolWritten, PoolOutdated, WellFormed
    <3>2. /\ u \in Task /\ u.pc \in {"listPeers", "listAdvs"}
          /\ u.op = t.op /\ u.s = t.s /\ u.ip = t.ip /\ u.nodes = t.nodes
      BY <1>1 DEF Task
    <3>3. task' = [task EXCEPT ![w] = u]
      BY <2>3 DEF Become
    <3> HIDE DEF u
    <3> QED BY <2>1, <3>1, <3>2, <3>3, GoesOn, BaseIs
  <2> QED BY <1>4, <2>2, <2>3 DEF WritePool
<1>5. CASE ListAdvs(w)
  <2> DEFINE u == [t EXCEPT !.list = adv, !.pc = "writeAdv"]
  <2>1. Rest'
    BY <1>1, <1>5 DEF ListAdvs, Rest, history
  <2>2. t.pc = "listAdvs" /\ t.op \in {"add", "remove"} /\ task' = [task EXCEPT ![w] = u]
    BY <1>1, <1>5 DEF ListAdvs, Become, WellFormed
  <2>3. u \in Task /\ u.pc = "writeAdv" /\ u.op = t.op /\ u.s = t.s /\ u.ip = t.ip /\ u.nodes = t.nodes
    BY <1>1 DEF Task, Rest
  <2> HIDE DEF u
  <2> QED BY <2>1, <2>2, <2>3, GoesOn, BaseIs
<1>6. CASE WriteAdv(w)
  <2>1. t.pc = "writeAdv" /\ t.op \in {"add", "remove"} /\ (t.op = "add" \/ Found(t) # {})
    BY <1>1, <1>6 DEF WriteAdv, WellFormed
  <2>2. CASE Fail(w) /\ UNCHANGED <<adv, outdated>>
    <3>1. Rest'
      BY <1>1, <1>6, <2>1, <2>2, FailKeeps DEF WriteAdv, Rest
    <3> QED BY <2>1, <2>2, <3>1, FailKeeps, BaseIs
  <2>3. CASE /\ adv' = AdvWritten(t)
             /\ outdated' = (outdated \/ adv # t.list)
             /\ Become(w, IF t.op = "add"
                            THEN [t EXCEPT !.pc = "listPeers", !.list = Nil]
                            ELSE [t EXCEPT !.list = IF adv' = Nil THEN <<>> ELSE adv',
                                           !.at = Min(Found(t)) + 1])
             /\ UNCHANGED <<due, stale, hurt>>
    <3>1. adv' \in Seq(Services) \union {Nil}
      BY <1>1, <2>1, <2>3, AdvWrittenIs
    <3>2. Rest'
      BY <1>1, <1>6, <2>3, <3>1 DEF WriteAdv, Rest
    <3>3. CASE t.op = "add"
      <4> DEFINE u == [t EXCEPT !.pc = "listPeers", !.list = Nil]
      <4>1. u \in Task /\ u.pc = "listPeers" /\ u.op = t.op /\ u.s = t.s /\ u.ip = t.ip /\ u.nodes = t.nodes
        BY <1>1 DEF Task
      <4>2. task' = [task EXCEPT ![w] = u]
        BY <2>3, <3>3 DEF Become
      <4> HIDE DEF u
      <4> QED BY <2>1, <3>2, <4>1, <4>2, GoesOn, BaseIs
    <3>4. CASE t.op # "add"
      <4> DEFINE k == Min(Found(t)) + 1
                 list == IF adv' = Nil THEN <<>> ELSE adv'
                 u == [t EXCEPT !.list = list, !.at = k]
      <4>1. k \in Nat \ {0} /\ list \in Seq(Services)
        <5>1. t.list \in Seq(Services) /\ Min(Found(t)) \in 1 .. Len(t.list)
          BY <1>1, <2>1, <3>4, FoundIs
        <5>2. Min(Found(t)) \in Nat
          BY <5>1
        <5> QED BY <5>2, <3>1
      <4> HIDE DEF k, list
      <4>2. u \in Task /\ u.pc = t.pc /\ u.op = t.op /\ u.s = t.s /\ u.ip = t.ip /\ u.nodes = t.nodes
        BY <1>1, <4>1 DEF Task
      <4>3. task' = [task EXCEPT ![w] = u]
        BY <2>3, <3>4 DEF Become, k, list
      <4> HIDE DEF u
      <4> QED BY <2>1, <3>2, <4>2, <4>3, GoesOn, BaseIs
    <3> QED BY <3>3, <3>4
  <2> QED BY <1>6, <2>2, <2>3 DEF WriteAdv
<1>7. CASE NotAdvertised(w)
  <2> DEFINE u == [t EXCEPT !.pc = "listPeers", !.list = Nil, !.at = 1]
  <2>1. Rest'
    BY <1>1, <1>7 DEF NotAdvertised, Rest, history
  <2>2. t.pc = "writeAdv" /\ task' = [task EXCEPT ![w] = u]
    BY <1>7 DEF NotAdvertised, Become
  <2>3. u \in Task /\ u.pc = "listPeers" /\ u.op = t.op /\ u.s = t.s /\ u.ip = t.ip /\ u.nodes = t.nodes
    <3>1. 1 \in Nat \ {0}
      OBVIOUS
    <3> QED BY <1>1, <3>1 DEF Task
  <2> HIDE DEF u
  <2> QED BY <2>1, <2>2, <2>3, GoesOn, BaseIs
<1>8. CASE ListBGPPeers(w)
  <2>1. Rest' /\ t.pc = "listPeers"
    BY <1>1, <1>8 DEF ListBGPPeers, Rest, history
  <2>2. CASE Return(w)
    BY <1>1, <2>1, <2>2, ReturnKeeps, BaseIs
  <2>3. ASSUME NEW left \in SUBSET Nodes,
               Become(w, [[t EXCEPT !.pc = "writePeer", !.peers = peer] EXCEPT !.left = left])
        PROVE  Base'
    <3> DEFINE u == [[t EXCEPT !.pc = "writePeer", !.peers = peer] EXCEPT !.left = left]
    <3>1. u \in Task /\ u.pc = "writePeer" /\ u.op = t.op /\ u.s = t.s /\ u.ip = t.ip /\ u.nodes = t.nodes
      BY <1>1 DEF Task, Rest
    <3>2. task' = [task EXCEPT ![w] = u]
      BY <2>3 DEF Become
    <3> HIDE DEF u
    <3> QED BY <2>1, <3>1, <3>2, GoesOn, BaseIs
  <2> QED BY <1>8, <2>2, <2>3 DEF ListBGPPeers, Become, Return
<1>9. ASSUME NEW n \in Nodes, WritePeer(w, n) PROVE Base'
  <2>1. t.pc = "writePeer"
    BY <1>9 DEF WritePeer
  <2>2. CASE Fail(w) /\ UNCHANGED <<peer, outdated>>
    <3>1. Rest'
      BY <1>1, <1>9, <2>1, <2>2, FailKeeps DEF WritePeer, Rest
    <3> QED BY <2>1, <2>2, <3>1, FailKeeps, BaseIs
  <2>3. CASE /\ ~PeerRefused(t, n)
             /\ peer' = PeerWritten(t, n)
             /\ outdated' = (outdated \/ peer[n] # t.peers[n])
             /\ Become(w, IF t.left = {n} THEN NoTask ELSE [t EXCEPT !.left = @ \ {n}])
             /\ UNCHANGED <<due, stale, hurt>>
    <3>1. Rest'
      BY <1>1, <1>9, <2>3, PeerWrittenIs DEF WritePeer, Rest
    <3>2. CASE Return(w)
      BY <1>1, <3>1, <3>2, ReturnKeeps, BaseIs
    <3>3. CASE Become(w, [t EXCEPT !.left = @ \ {n}])
      <4> DEFINE u == [t EXCEPT !.left = @ \ {n}]
      <4>1. u \in Task /\ u.pc = t.pc /\ u.op = t.op /\ u.s = t.s /\ u.ip = t.ip /\ u.nodes = t.nodes
        BY <1>1 DEF Task
      <4>2. task' = [task EXCEPT ![w] = u]
        BY <3>3 DEF Become
      <4> HIDE DEF u
      <4> QED BY <2>1, <3>1, <4>1, <4>2, GoesOn, BaseIs
    <3> QED BY <2>3, <3>2, <3>3 DEF Become, Return
  <2> QED BY <1>9, <2>2, <2>3 DEF WritePeer
<1> QED BY <1>2, <1>3, <1>4, <1>5, <1>6, <1>7, <1>8, <1>9 DEF Steps

\* A write that is obeyed although its call fails.
LEMMA ObeyedKeeps ==
    ASSUME Base, NEW w \in Workers, WriteFails(w)
    PROVE  Base'
<1> DEFINE t == task[w]
<1>1. Rest /\ Tasks /\ TypeOK /\ t \in Task /\ WellFormed(t)
  BY BaseIs DEF Base, Tasks
<1>2. Fail(w) /\ UNCHANGED <<address, cluster>> /\ faults' \in 0 .. MaxFaults
  BY <1>1, FaultsAssumption DEF WriteFails, Disturb, Rest
<1>3. t.pc # "idle" /\ outdated' \in BOOLEAN
  BY <1>1 DEF WriteFails, Rest
<1>4. CASE /\ t.pc \in {"joinPool", "createPool", "deletePool"}
           /\ pool' \in IF PoolRefused(t) THEN {pool} ELSE {pool, PoolWritten(t)}
           /\ UNCHANGED <<adv, peer>>
  <2>1. pool' \in [Services -> IPs \union {Nil}]
    BY <1>1, <1>4 DEF Rest, PoolWritten, WellFormed
  <2> QED BY <1>1, <1>2, <1>3, <1>4, <2>1, FailKeeps, BaseIs DEF Rest
<1>5. CASE /\ t.pc = "writeAdv" /\ (t.op = "add" \/ Found(t) # {})
           /\ adv' \in IF AdvRefused(t) THEN {adv} ELSE {adv, AdvWritten(t)}
           /\ UNCHANGED <<pool, peer>>
  <2>1. t.op \in {"add", "remove"}
    BY <1>1, <1>5 DEF WellFormed
  <2>2. adv' \in Seq(Services) \union {Nil}
    BY <1>1, <1>5, <2>1, AdvWrittenIs DEF Rest
  <2> QED BY <1>1, <1>2, <1>3, <1>5, <2>2, FailKeeps, BaseIs DEF Rest
<1>6. CASE /\ t.pc = "writePeer" /\ UNCHANGED <<pool, adv>>
           /\ \E n \in t.left : peer' \in IF PeerRefused(t, n) THEN {peer} ELSE {peer, PeerWritten(t, n)}
  <2>1. t.left \subseteq Nodes
    BY <1>1 DEF Task
  <2>2. peer' \in Listed
    BY <1>1, <1>6, <2>1, PeerWrittenIs DEF Rest
  <2> QED BY <1>1, <1>2, <1>3, <1>6, <2>2, FailKeeps, BaseIs DEF Rest
<1> QED BY <1>4, <1>5, <1>6 DEF WriteFails

LEMMA StartKeepsBase ==
    ASSUME Base, NEW w \in Workers, NEW s \in Services,
           StartAdd(w, s) \/ StartRemove(w, s) \/ StartUpdate(w, s)
    PROVE  Base'
<1>1. Rest /\ Tasks /\ TypeOK /\ address[s] \in IPs \union {Nil} /\ cluster \in Wanted
  BY BaseIs DEF Base, Rest
<1>2. Alone(s) => \A v \in Workers : ~Major(task[v], s)
  BY DEF Alone, Major
<1>3. NoNodes \in Wanted
  BY DEF NoNodes, Wanted
<1>4. CASE StartAdd(w, s)
  <2>1. PICK nodes \in Wanted :
          /\ Passed(nodes)
          /\ Begin(w, Call("add", "listPools", s, address[s], nodes))
    BY <1>4 DEF StartAdd
  <2> DEFINE u == Call("add", "listPools", s, address[s], nodes)
  <2>2. WellFormed(u) /\ u.s = s /\ \A v \in Workers : ~Major(task[v], s)
    BY <1>1, <1>2, <1>4, CallIs DEF StartAdd
  <2>3. task' = [task EXCEPT ![w] = u] /\ outdated' = outdated
    BY <2>1 DEF Begin, Become
  <2>4. faults' \in 0 .. MaxFaults
    BY <1>1, <2>1, FaultsAssumption DEF Passed, Disturb, Rest
  <2>5. Rest'
    BY <1>1, <1>4, <2>3, <2>4 DEF StartAdd, Rest
  <2> HIDE DEF u
  <2>6. Tasks'
    BY <1>1, <2>2, <2>3, TasksKept
  <2> QED BY <2>5, <2>6, BaseIs
<1>5. CASE StartRemove(w, s)
  <2> DEFINE u == Call("remove", "listPools", s, address[s], NoNodes)
  <2>1. WellFormed(u) /\ u.s = s /\ \A v \in Workers : ~Major(task[v], s)
    BY <1>1, <1>2, <1>3, <1>5, CallIs DEF StartRemove
  <2>2. task' = [task EXCEPT ![w] = u] /\ outdated' = outdated
    BY <1>5 DEF StartRemove, Begin, Become
  <2>3. Rest'
    BY <1>1, <1>5, <2>2 DEF StartRemove, Rest
  <2> HIDE DEF u
  <2>4. Tasks'
    BY <1>1, <2>1, <2>2, TasksKept
  <2> QED BY <2>3, <2>4, BaseIs
<1>6. CASE StartUpdate(w, s)
  <2>1. PICK nodes \in Wanted :
          /\ Passed(nodes)
          /\ Begin(w, Call("update", "listPeers", s, Nil, nodes))
    BY <1>6 DEF StartUpdate
  <2> DEFINE u == Call("update", "listPeers", s, Nil, nodes)
  <2>2. WellFormed(u) /\ u.op = "update"
    BY <1>1, CallIs
  <2>3. task' = [task EXCEPT ![w] = u] /\ outdated' = outdated
    BY <2>1 DEF Begin, Become
  <2>4. faults' \in 0 .. MaxFaults
    BY <1>1, <2>1, FaultsAssumption DEF Passed, Disturb, Rest
  <2>5. Rest'
    BY <1>1, <1>6, <2>3, <2>4 DEF StartUpdate, Rest
  <2> HIDE DEF u
  <2>6. Tasks'
    BY <1>1, <2>2, <2>3, TasksKept
  <2> QED BY <2>5, <2>6, BaseIs
<1> QED BY <1>4, <1>5, <1>6

LEMMA OthersKeepBase ==
    ASSUME Base, \/ \E s \in Services : UpdateRefused(s) \/ Requeue(s) \/ \E i \in IPs : Assign(s, i)
                 \/ \E n \in Nodes : NodesChange(n) \/ SpecChanges(n)
                 \/ Crash
    PROVE  Base'
<1>1. Rest /\ Tasks
  BY BaseIs
<1>2. ASSUME NEW s \in Services, UpdateRefused(s) \/ Requeue(s) PROVE Base'
  <2>1. Rest' /\ task' = task
    BY <1>1, <1>2 DEF UpdateRefused, Requeue, Rest, history
  <2> QED BY <1>1, <2>1, BaseIs DEF Tasks, Exclusive, Major
<1>3. ASSUME NEW s \in Services, NEW i \in IPs, Assign(s, i) PROVE Base'
  <2>1. Rest' /\ task' = task
    BY <1>1, <1>3 DEF Assign, Rest, history
  <2> QED BY <1>1, <2>1, BaseIs DEF Tasks, Exclusive, Major
<1>4. ASSUME NEW n \in Nodes, NodesChange(n) PROVE Base'
  <2>1. PICK c \in Specs \union {Nil} : cluster' = [cluster EXCEPT ![n] = c]
    BY <1>4 DEF NodesChange
  <2>2. cluster' \in Wanted
    BY <1>1, <2>1 DEF Rest, Wanted
  <2>3. faults' \in 0 .. MaxFaults
    BY <1>1, <1>4, FaultsAssumption DEF NodesChange, Disturb, Rest
  <2>4. Rest' /\ task' = task
    BY <1>1, <1>4, <2>2, <2>3 DEF NodesChange, Rest, history
  <2> QED BY <1>1, <2>4, BaseIs DEF Tasks, Exclusive, Major
<1>5. ASSUME NEW n \in Nodes, SpecChanges(n) PROVE Base'
  <2>1. PICK c \in Specs : cluster' = [cluster EXCEPT ![n] = c]
    BY <1>5 DEF SpecChanges
  <2>2. cluster' \in Wanted
    BY <1>1, <2>1 DEF Rest, Wanted
  <2>3. faults' \in 0 .. MaxFaults
    BY <1>1, <1>5, FaultsAssumption DEF SpecChanges, Disturb, Rest
  <2>4. Rest' /\ task' = task
    BY <1>1, <1>5, <2>2, <2>3 DEF SpecChanges, Rest, history
  <2> QED BY <1>1, <2>4, BaseIs DEF Tasks, Exclusive, Major
<1>6. CASE Crash
  <2>1. {task[w].s : w \in {v \in Workers : task[v].pc # "idle"}} \subseteq Services
    BY <1>1 DEF Tasks, WellFormed
  <2>2. faults' \in 0 .. MaxFaults
    BY <1>1, <1>6, FaultsAssumption DEF Crash, Disturb, Rest
  <2>3. Rest'
    BY <1>1, <1>6, <2>1, <2>2 DEF Crash, Rest
  <2>4. task' = [w \in Workers |-> NoTask]
    BY <1>6 DEF Crash
  <2>5. Tasks'
    <3>1. NoTask \in Task
      BY NoTaskIs DEF WellFormed
    <3>2. \A w \in Workers : task'[w] = NoTask
      BY <2>4
    <3>3. task' \in [Workers -> Task]
      BY <2>4, <3>1
    <3>4. Exclusive'
      BY <3>2, NoTaskIs DEF Exclusive, Major
    <3> QED BY <3>2, <3>3, <3>4, NoTaskIs DEF Tasks, WellFormed
  <2> QED BY <2>3, <2>5, BaseIs
<1> QED BY <1>2, <1>3, <1>4, <1>5, <1>6

LEMMA NextKeepsBase == ASSUME Base, [Next]_vars PROVE Base'
<1>1. Rest /\ Tasks
  BY BaseIs
<1>2. ASSUME NEW w \in Workers, ListFails(w) PROVE Base'
  <2>1. faults' \in 0 .. MaxFaults
    BY <1>1, <1>2, FaultsAssumption DEF ListFails, Disturb, Rest
  <2>2. task[w].pc # "idle" /\ Fail(w)
    BY <1>2 DEF ListFails
  <2>3. Rest'
    BY <1>1, <1>2, <2>1, <2>2, FailKeeps DEF ListFails, Rest
  <2> QED BY <2>2, <2>3, FailKeeps, BaseIs
<1>3. CASE UNCHANGED vars
  <2>1. Rest' /\ task' = task
    BY <1>1, <1>3 DEF vars, Rest, history
  <2> QED BY <1>1, <2>1, BaseIs DEF Tasks, Exclusive, Major
<1> QED BY <1>2, <1>3, StepKeepsBase, ObeyedKeeps, StartKeepsBase, OthersKeepBase DEF Next

-----------------------------------------------------------------------------
(* What a call takes from others.                                            *)

\* No step makes what was outdated up to date, or a service unhurt; and what a step
\* may do to the three resources when they were not outdated.
WritesPool(t) == PoolWritten(t) = pool' /\ ~PoolRefused(t) /\ t.pc \in {"joinPool", "createPool", "deletePool"}

WritesAdv(t) ==
    /\ t.pc = "writeAdv" /\ t.op \in {"add", "remove"} /\ (t.op = "add" \/ Found(t) # {})
    /\ adv = t.list /\ adv' = AdvWritten(t)

WritesPeer(t, n) ==
    /\ t.pc = "writePeer" /\ n \in t.left
    /\ ~PeerRefused(t, n) /\ peer[n] = t.peers[n] /\ peer' = PeerWritten(t, n)

Act(w) == Steps(w) \/ ListFails(w) \/ WriteFails(w)

LEMMA WhatActsWrite ==
    ASSUME Base, NEW w \in Workers, Act(w), ~outdated'
    PROVE  /\ ~outdated
           /\ hurt \subseteq hurt'
           /\ pool' = pool \/ (WritesPool(task[w]) /\ ~PoolOutdated(task[w]))
           /\ adv' = adv \/ WritesAdv(task[w])
           /\ peer' = peer \/ \E n \in Nodes : WritesPeer(task[w], n)
<1>1. outdated \in BOOLEAN /\ task[w].left \subseteq Nodes
  BY DEF Base, TypeOK, Task
<1>2. ASSUME SearchPools(w) \/ FindPool(w) \/ ListAdvs(w) \/ NotAdvertised(w) \/ ListBGPPeers(w)
      PROVE  UNCHANGED <<pool, adv, peer, outdated>> /\ hurt \subseteq hurt'
  BY <1>2 DEF SearchPools, FindPool, ListAdvs, NotAdvertised, ListBGPPeers, history
<1>3. ASSUME WritePool(w)
      PROVE  /\ UNCHANGED <<adv, peer>> /\ hurt \subseteq hurt' /\ ~outdated
             /\ pool' = pool \/ (WritesPool(task[w]) /\ ~PoolOutdated(task[w]))
  <2>1. UNCHANGED <<adv, peer>> /\ task[w].pc \in {"joinPool", "createPool", "deletePool"}
    BY <1>3 DEF WritePool
  <2>2. CASE Fail(w) /\ UNCHANGED <<pool, outdated>>
    BY <2>1, <2>2 DEF Fail
  <2>3. CASE /\ ~PoolRefused(task[w]) /\ pool' = PoolWritten(task[w])
             /\ outdated' = (outdated \/ PoolOutdated(task[w])) /\ UNCHANGED hurt
    BY <1>1, <2>1, <2>3, Zenon DEF WritesPool
  <2> QED BY <1>3, <2>2, <2>3 DEF WritePool
<1>4. ASSUME WriteAdv(w)
      PROVE  /\ UNCHANGED <<pool, peer>> /\ hurt \subseteq hurt' /\ ~outdated
             /\ adv' = adv \/ WritesAdv(task[w])
  <2>1. task[w].op \in {"add", "remove"}
    BY <1>4 DEF WriteAdv, Base, WellFormed
  <2>2. UNCHANGED <<pool, peer>> /\ task[w].pc = "writeAdv" /\ (task[w].op = "add" \/ Found(task[w]) # {})
    BY <1>4 DEF WriteAdv
  <2>3. CASE Fail(w) /\ UNCHANGED <<adv, outdated>>
    BY <2>2, <2>3 DEF Fail
  <2>4. CASE /\ adv' = AdvWritten(task[w])
             /\ outdated' = (outdated \/ adv # task[w].list) /\ UNCHANGED hurt
    BY <2>1, <2>2, <2>4, Zenon DEF WritesAdv
  <2> QED BY <1>4, <2>3, <2>4 DEF WriteAdv
<1>5. ASSUME NEW n \in Nodes, WritePeer(w, n)
      PROVE  /\ UNCHANGED <<pool, adv>> /\ hurt \subseteq hurt' /\ ~outdated
             /\ peer' = peer \/ WritesPeer(task[w], n)
  <2>1. UNCHANGED <<pool, adv>> /\ task[w].pc = "writePeer" /\ n \in task[w].left
    BY <1>5 DEF WritePeer
  <2>2. CASE Fail(w) /\ UNCHANGED <<peer, outdated>>
    BY <2>1, <2>2 DEF Fail
  <2>3. CASE /\ ~PeerRefused(task[w], n) /\ peer' = PeerWritten(task[w], n)
             /\ outdated' = (outdated \/ peer[n] # task[w].peers[n]) /\ UNCHANGED hurt
    BY <2>1, <2>3, Zenon DEF WritesPeer
  <2> QED BY <1>5, <2>2, <2>3 DEF WritePeer
<1>6. ASSUME WriteFails(w)
      PROVE  /\ hurt \subseteq hurt' /\ ~outdated
             /\ pool' = pool \/ (WritesPool(task[w]) /\ ~PoolOutdated(task[w]))
             /\ adv' = adv \/ WritesAdv(task[w])
             /\ peer' = peer \/ \E n \in Nodes : WritesPeer(task[w], n)
  <2>1. hurt \subseteq hurt'
    BY <1>6 DEF WriteFails, Fail
  <2>2. CASE /\ task[w].pc \in {"joinPool", "createPool", "deletePool"}
             /\ pool' \in IF PoolRefused(task[w]) THEN {pool} ELSE {pool, PoolWritten(task[w])}
             /\ outdated' = (outdated \/ (pool' # pool /\ PoolOutdated(task[w])))
             /\ UNCHANGED <<adv, peer>>
    BY <1>1, <2>1, <2>2 DEF WritesPool
  <2>3. CASE /\ task[w].pc = "writeAdv" /\ (task[w].op = "add" \/ Found(task[w]) # {})
             /\ adv' \in IF AdvRefused(task[w]) THEN {adv} ELSE {adv, AdvWritten(task[w])}
             /\ outdated' = (outdated \/ (adv' # adv /\ adv # task[w].list))
             /\ UNCHANGED <<pool, peer>>
    <3>1. task[w].op \in {"add", "remove"}
      BY <2>3 DEF Base, WellFormed
    <3> QED BY <1>1, <2>1, <2>3, <3>1 DEF WritesAdv
  <2>4. ASSUME NEW n \in task[w].left, UNCHANGED <<pool, adv>>, task[w].pc = "writePeer",
               peer' \in IF PeerRefused(task[w], n) THEN {peer} ELSE {peer, PeerWritten(task[w], n)},
               outdated' = (outdated \/ (peer' # peer /\ peer[n] # task[w].peers[n]))
        PROVE  ~outdated /\ (peer' = peer \/ WritesPeer(task[w], n)) /\ n \in Nodes
    BY <1>1, <2>4 DEF WritesPeer
  <2> QED BY <1>6, <2>1, <2>2, <2>3, <2>4 DEF WriteFails
<1>7. ASSUME ListFails(w) PROVE UNCHANGED <<pool, adv, peer, outdated>> /\ hurt \subseteq hurt'
  BY <1>7 DEF ListFails, Fail
<1> QED BY <1>2, <1>3, <1>4, <1>5, <1>6, <1>7 DEF Act, Steps

LEMMA HowResourcesChange ==
    ASSUME Base, [Next]_vars, ~outdated'
    PROVE  /\ ~outdated
           /\ hurt \subseteq hurt'
           /\ pool' = pool \/ \E w \in Workers : WritesPool(task[w]) /\ ~PoolOutdated(task[w])
           /\ adv' = adv \/ \E w \in Workers : WritesAdv(task[w])
           /\ peer' = peer \/ \E w \in Workers : \E n \in Nodes : WritesPeer(task[w], n)
<1>1. ASSUME NEW w \in Workers, NEW s \in Services, StartAdd(w, s) \/ StartRemove(w, s) \/ StartUpdate(w, s)
      PROVE  UNCHANGED <<pool, adv, peer, outdated>> /\ hurt \subseteq hurt'
  BY <1>1 DEF StartAdd, StartRemove, StartUpdate, Begin
<1>2. ASSUME NEW s \in Services, UpdateRefused(s) \/ Requeue(s) \/ \E i \in IPs : Assign(s, i)
      PROVE  UNCHANGED <<pool, adv, peer, outdated>> /\ hurt \subseteq hurt'
  BY <1>2 DEF UpdateRefused, Requeue, Assign, history
<1>3. ASSUME NEW n \in Nodes, NodesChange(n) \/ SpecChanges(n)
      PROVE  UNCHANGED <<pool, adv, peer, outdated>> /\ hurt \subseteq hurt'
  BY <1>3 DEF NodesChange, SpecChanges, history
<1>4. CASE Crash
  BY <1>4 DEF Crash
<1>5. CASE UNCHANGED vars
  BY <1>5 DEF vars, history
<1> QED BY <1>1, <1>2, <1>3, <1>4, <1>5, WhatActsWrite DEF Next, Act

LEMMA ListsIs == \A s : (Advertised(s) <=> Lists(adv, s)) /\ (Advertised(s)' <=> Lists(adv', s))
BY DEF Advertised, Lists

LEMMA NamesIs == \A n, s : (Serves(n, s) <=> Names(peer[n], s)) /\ (Serves(n, s)' <=> Names(peer'[n], s))
BY DEF Serves, Names

LEMMA AdvOfOthers ==
    ASSUME Base, [Next]_vars, ~outdated', NEW s \in Services
    PROVE  \/ /\ Advertised(s)' <=> Advertised(s)
              /\ Once(adv, s) => Once(adv', s)
           \/ \E w \in Workers : task[w].s = s /\ WritesAdv(task[w])
<1>1. CASE adv' = adv
  BY <1>1, ListsIs
<1>2. ASSUME NEW w \in Workers, WritesAdv(task[w]), task[w].s # s
      PROVE  (Advertised(s)' <=> Advertised(s)) /\ (Once(adv, s) => Once(adv', s))
  <2>1. WellFormed(task[w])
    BY DEF Base
  <2> QED BY <1>2, <2>1, ListsIs, AdvWrittenIs DEF WritesAdv
<1> QED BY <1>1, <1>2, HowResourcesChange

LEMMA LosesOwn == ASSUME Base, [Next]_vars PROVE
    \A s \in Services : ~outdated' =>
         /\ Advertised(s) /\ ~Advertised(s)' =>
              \E w \in Workers : task[w].s = s /\ task[w].op = "remove"
         /\ \A n \in Nodes : Serves(n, s) /\ ~Serves(n, s)' =>
              \/ \E w \in Workers : task[w].s = s /\ task[w].nodes[n] = Nil
              \/ peer'[n] # Nil /\ peer'[n].spec # peer[n].spec
<1> SUFFICES ASSUME NEW s \in Services, ~outdated' PROVE
         /\ Advertised(s) /\ ~Advertised(s)' =>
              \E w \in Workers : task[w].s = s /\ task[w].op = "remove"
         /\ \A n \in Nodes : Serves(n, s) /\ ~Serves(n, s)' =>
              \/ \E w \in Workers : task[w].s = s /\ task[w].nodes[n] = Nil
              \/ peer'[n] # Nil /\ peer'[n].spec # peer[n].spec
  OBVIOUS
<1>1. ASSUME Advertised(s), ~Advertised(s)'
      PROVE  \E w \in Workers : task[w].s = s /\ task[w].op = "remove"
  <2>1. PICK w \in Workers : task[w].s = s /\ WritesAdv(task[w])
    BY <1>1, AdvOfOthers
  <2>2. WellFormed(task[w])
    BY DEF Base
  <2>3. task[w].op # "add"
    BY <1>1, <2>1, <2>2, ListsIs, AdvWrittenIs DEF WritesAdv
  <2> QED BY <2>1, <2>3 DEF WritesAdv
<1>2. ASSUME NEW n \in Nodes, Serves(n, s), ~Serves(n, s)'
      PROVE  \/ \E w \in Workers : task[w].s = s /\ task[w].nodes[n] = Nil
             \/ peer'[n] # Nil /\ peer'[n].spec # peer[n].spec
  <2>1. peer' # peer
    BY <1>2, NamesIs
  <2>2. PICK w \in Workers, m \in Nodes : WritesPeer(task[w], m)
    BY <2>1, HowResourcesChange
  <2>3. WellFormed(task[w]) /\ TypeOK
    BY DEF Base
  <2>4. m = n /\ peer'[n] = PeerComputed(task[w], n) /\ peer[n] = task[w].peers[n]
    BY <1>2, <2>2, <2>3, NamesIs, PeerWrittenIs DEF WritesPeer
  <2> QED BY <1>2, <2>3, <2>4, NamesIs, PeerComputedIs
<1> QED BY <1>1, <1>2

LEMMA InitIsBase == ASSUME Init PROVE Base
<1>1. Rest
  <2>1. peer \in Listed /\ cluster \in Wanted
    BY DEF Init, NoNodes, Listed, Wanted
  <2>2. pool \in [Services -> IPs \union {Nil}] /\ address \in [Services -> IPs \union {Nil}]
    BY DEF Init
  <2>3. adv \in Seq(Services) \union {Nil} /\ due \subseteq Services /\ stale \subseteq Services
    BY DEF Init
  <2>4. outdated \in BOOLEAN /\ hurt \subseteq Services
    BY DEF Init
  <2>5. faults \in 0 .. MaxFaults
    BY FaultsAssumption DEF Init
  <2> QED BY <2>1, <2>2, <2>3, <2>4, <2>5 DEF Rest
<1>2. task \in [Workers -> Task] /\ \A w \in Workers : task[w] = NoTask
  BY NoTaskIs DEF Init, WellFormed
<1>3. Tasks
  BY <1>2, NoTaskIs DEF Tasks, Exclusive, Major
<1> QED BY <1>1, <1>3, BaseIs

\* Every variable has its type, whatever fails and whoever meets.
THEOREM TypeCorrectness == Spec => []TypeOK
<1>1. Spec => []Base
  BY InitIsBase, NextKeepsBase, PTL DEF Spec
<1>2. Base => TypeOK
  BY DEF Base
<1> QED BY <1>1, <1>2, PTL

\* As long as no call writes what has changed since it was listed, a service loses its
\* place in the advertisement and in the peers by its own calls only, or with the data
\* of a peer.
THEOREM OthersLoseNothing == Spec => LosesOnlyItsOwn
<1>1. Spec => []Base
  BY InitIsBase, NextKeepsBase, PTL DEF Spec
<1>2. ASSUME Base, [Next]_vars
      PROVE  [\A s \in Services : ~outdated' =>
                /\ Advertised(s) /\ ~Advertised(s)' =>
                     \E w \in Workers : task[w].s = s /\ task[w].op = "remove"
                /\ \A n \in Nodes : Serves(n, s) /\ ~Serves(n, s)' =>
                     \/ \E w \in Workers : task[w].s = s /\ task[w].nodes[n] = Nil
                     \/ peer'[n] # Nil /\ peer'[n].spec # peer[n].spec]_vars
  BY <1>2, LosesOwn
<1> QED BY <1>1, <1>2, PTL DEF Spec, LosesOnlyItsOwn

-----------------------------------------------------------------------------
(* A service that was not hurt is as its last call has left it.              *)

\* What is said of a service holds on while nothing of it is touched.
LEMMA Untouched ==
    ASSUME NEW s \in Services, Base, Consistent(s),
           pool'[s] = pool[s], Advertised(s)' <=> Advertised(s),
           Once(adv, s) => Once(adv', s),
           address'[s] = address[s], s \in due => s \in due',
           address[s] = Nil => \A n \in Nodes : Serves(n, s)' => Serves(n, s),
           \A v \in Workers :
              \/ task'[v] = task[v]
              \/ /\ ~Major(task[v], s) /\ ~Major(task'[v], s)
                 /\ task'[v].s = s => address[s] # Nil
    PROVE  Consistent(s)'
<1>1. Once(adv, s)'
  BY DEF Consistent, Once
<1>2. \A v \in Workers : Major(task[v], s) \/ Major(task'[v], s) => task'[v] = task[v]
  OBVIOUS
<1>3. ASSUME \A w \in Workers : ~Major(task'[w], s) PROVE AtRest(s)'
  <2>1. AtRest(s)
    BY <1>2, <1>3 DEF Consistent
  <2> QED BY <2>1 DEF AtRest, Present, Absent, Unserved
<1>4. ASSUME address'[s] = Nil, NEW w \in Workers, task'[w].s = s PROVE task'[w].op = "remove"
  BY <1>4 DEF Consistent
<1>5. ASSUME NEW w \in Workers, Major(task'[w], s)
      PROVE  /\ task'[w].op = "add" => AddMidway(task[w], s)'
             /\ task'[w].op = "remove" => RemoveMidway(task[w], s)'
  <2>1. task'[w] = task[w] /\ Major(task[w], s)
    BY <1>2, <1>5
  <2>2. task[w].op = "add" => AddMidway(task[w], s)'
    BY <2>1 DEF Consistent, AddMidway, Present, Absent
  <2>3. task[w].op = "remove" => RemoveMidway(task[w], s)'
    BY <2>1 DEF Consistent, RemoveMidway, Absent, Found
  <2> QED BY <2>1, <2>2, <2>3
<1> QED BY <1>1, <1>3, <1>4, <1>5 DEF Consistent, Major

\* The call that sets up or tears down s goes one step further, or ends.
LEMMA Advances ==
    ASSUME NEW s \in Services, Base, Consistent(s), NEW w \in Workers, Major(task[w], s),
           NEW u, task' = [task EXCEPT ![w] = u],
           \/ /\ u.s = s /\ u.op = task[w].op
              /\ u.op = "add" => AddMidway(task[w], s)'
              /\ u.op = "remove" => RemoveMidway(task[w], s)'
           \/ u = NoTask /\ AtRest(s)',
           address' = address, Once(adv, s)'
    PROVE  Consistent(s)'
<1>1. /\ task'[w] = u
      /\ \A v \in Workers : v # w => task'[v] = task[v] /\ ~Major(task'[v], s)
  BY DEF Base, TypeOK, Exclusive
<1>2. CASE /\ u.s = s /\ u.op = task[w].op
           /\ u.op = "add" => AddMidway(task[w], s)'
           /\ u.op = "remove" => RemoveMidway(task[w], s)'
  <2>1. Major(task'[w], s)
    BY <1>1, <1>2 DEF Major
  <2>2. ASSUME address'[s] = Nil, NEW v \in Workers, task'[v].s = s PROVE task'[v].op = "remove"
    BY <1>1, <1>2, <2>2 DEF Consistent, Major
  <2>3. ASSUME NEW v \in Workers, Major(task'[v], s) PROVE v = w
    BY <1>1, <2>3
  <2> QED BY <1>1, <1>2, <2>1, <2>2, <2>3 DEF Consistent, Major
<1>3. CASE u = NoTask /\ AtRest(s)'
  <2>1. \A v \in Workers : ~Major(task'[v], s)
    BY <1>1, <1>3, NoTaskIs DEF Major
  <2>2. ASSUME address'[s] = Nil, NEW v \in Workers, task'[v].s = s PROVE task'[v].op = "remove"
    BY <1>1, <1>3, <2>2, NoTaskIs DEF Consistent
  <2> QED BY <1>3, <2>1, <2>2 DEF Consistent, Major
<1> QED BY <1>2, <1>3

\* What happens to the call of w.
LEMMA ActTask ==
    ASSUME Base, NEW w \in Workers, Act(w)
    PROVE  /\ address' = address /\ due \subseteq due'
           /\ \A v \in Workers : v # w => task'[v] = task[v]
           /\ task'[w] = NoTask \/ (task'[w].s = task[w].s /\ task'[w].op = task[w].op)
           /\ task[w].pc # "idle"
<1> DEFINE t == task[w]
<1>1. t \in Task /\ task \in [Workers -> Task]
  BY DEF Base, TypeOK
<1>2. ASSUME Fail(w)
      PROVE  /\ due \subseteq due' /\ task'[w] = NoTask
             /\ \A v \in Workers : v # w => task'[v] = task[v]
  BY <1>1, <1>2 DEF Fail, Return
<1>3. ASSUME NEW u, Become(w, u), u = NoTask \/ (u.s = t.s /\ u.op = t.op)
      PROVE  /\ task'[w] = NoTask \/ (task'[w].s = t.s /\ task'[w].op = t.op)
             /\ \A v \in Workers : v # w => task'[v] = task[v]
  BY <1>1, <1>3 DEF Become
<1>4. ASSUME NEW pc, Goto(w, pc)
      PROVE  /\ task'[w].s = t.s /\ task'[w].op = t.op
             /\ \A v \in Workers : v # w => task'[v] = task[v]
  BY <1>1, <1>4 DEF Goto, Task
<1>5. CASE SearchPools(w)
  <2>1. \A o : LET u == [t EXCEPT !.pc = "joinPool", !.into = o] IN u.s = t.s /\ u.op = t.op
    BY <1>1 DEF Task
  <2> QED BY <1>3, <1>4, <1>5, <2>1 DEF SearchPools
<1>6. CASE FindPool(w)
  BY <1>4, <1>6 DEF FindPool
<1>7. CASE WritePool(w)
  <2> DEFINE u == [t EXCEPT !.pc = IF @ = "joinPool" THEN "listPeers" ELSE "listAdvs", !.into = Nil]
  <2>1. u.s = t.s /\ u.op = t.op
    BY <1>1 DEF Task
  <2>2. CASE Fail(w)
    BY <1>2, <1>7, <2>2 DEF WritePool
  <2>3. CASE Become(w, u) /\ UNCHANGED due
    <3> HIDE DEF u
    <3> QED BY <1>3, <1>7, <2>1, <2>3 DEF WritePool
  <2> QED BY <1>7, <2>2, <2>3 DEF WritePool
<1>8. CASE ListAdvs(w)
  <2> DEFINE u == [t EXCEPT !.list = adv, !.pc = "writeAdv"]
  <2>1. u.s = t.s /\ u.op = t.op
    BY <1>1 DEF Task
  <2>2. Become(w, u) /\ t.pc # "idle" /\ address' = address /\ due' = due
    BY <1>8 DEF ListAdvs
  <2> HIDE DEF u
  <2> QED BY <1>3, <2>1, <2>2
<1>9. CASE WriteAdv(w)
  <2> DEFINE u == IF t.op = "add"
                    THEN [t EXCEPT !.pc = "listPeers", !.list = Nil]
                    ELSE [t EXCEPT !.list = IF adv' = Nil THEN <<>> ELSE adv',
                                   !.at = Min(Found(t)) + 1]
  <2>1. u.s = t.s /\ u.op = t.op
    BY <1>1 DEF Task
  <2>2. CASE Fail(w)
    BY <1>2, <1>9, <2>2 DEF WriteAdv
  <2>3. CASE Become(w, u) /\ UNCHANGED due
    <3> HIDE DEF u
    <3> QED BY <1>3, <1>9, <2>1, <2>3 DEF WriteAdv
  <2> QED BY <1>9, <2>2, <2>3 DEF WriteAdv
<1>10. CASE NotAdvertised(w)
  <2> DEFINE u == [t EXCEPT !.pc = "listPeers", !.list = Nil, !.at = 1]
  <2>1. u.s = t.s /\ u.op = t.op
    BY <1>1 DEF Task
  <2>2. Become(w, u) /\ t.pc # "idle" /\ address' = address /\ due' = due
    BY <1>10 DEF NotAdvertised
  <2> HIDE DEF u
  <2> QED BY <1>3, <2>1, <2>2
<1>11. CASE ListBGPPeers(w)
  <2>1. \A left : LET u == [[t EXCEPT !.pc = "writePeer", !.peers = peer] EXCEPT !.left = left]
                  IN  u.s = t.s /\ u.op = t.op
    BY <1>1 DEF Task
  <2>2. t.pc # "idle" /\ address' = address /\ due' = due
    BY <1>11 DEF ListBGPPeers
  <2> QED BY <1>3, <1>11, <2>1, <2>2 DEF ListBGPPeers
<1>12. ASSUME NEW n \in Nodes, WritePeer(w, n)
       PROVE  /\ address' = address /\ due \subseteq due'
              /\ \A v \in Workers : v # w => task'[v] = task[v]
              /\ task'[w] = NoTask \/ (task'[w].s = task[w].s /\ task'[w].op = task[w].op)
              /\ task[w].pc # "idle"
  <2> DEFINE u == IF t.left = {n} THEN NoTask ELSE [t EXCEPT !.left = @ \ {n}]
  <2>1. u = NoTask \/ (u.s = t.s /\ u.op = t.op)
    BY <1>1 DEF Task
  <2>2. CASE Fail(w)
    BY <1>2, <1>12, <2>2 DEF WritePeer
  <2>3. CASE Become(w, u) /\ UNCHANGED due
    <3> HIDE DEF u
    <3> QED BY <1>3, <1>12, <2>1, <2>3 DEF WritePeer
  <2> QED BY <1>12, <2>2, <2>3 DEF WritePeer
<1>13. CASE ListFails(w)
  BY <1>2, <1>13 DEF ListFails
<1>14. CASE WriteFails(w)
  BY <1>2, <1>14 DEF WriteFails
<1> QED BY <1>5, <1>6, <1>7, <1>8, <1>9, <1>10, <1>11, <1>12, <1>13, <1>14 DEF Act, Steps

LEMMA OthersAct ==
    ASSUME Base, NEW w \in Workers, Act(w), NEW s \in Services, Consistent(s), Sound(s)',
           ~Major(task[w], s)
    PROVE  Consistent(s)'
<1> DEFINE t == task[w]
<1>1. ~outdated' /\ WellFormed(t) /\ TypeOK
  BY DEF Sound, Base
<1>2. /\ address' = address /\ due \subseteq due'
      /\ \A v \in Workers : v # w => task'[v] = task[v]
      /\ task'[w] = NoTask \/ (task'[w].s = t.s /\ task'[w].op = t.op)
  BY ActTask
<1>3. t.s = s => address[s] # Nil /\ t.op \notin {"add", "remove"}
  BY DEF Consistent, Major
<1>4. pool'[s] = pool[s]
  <2>1. CASE pool' = pool
    BY <2>1
  <2>2. CASE WritesPool(t) /\ ~PoolOutdated(t)
    <3>1. t.s # s
      BY <1>1, <1>3, <2>2 DEF WritesPool, WellFormed
    <3>2. CASE t.pc = "joinPool"
      <4>1. pool' = [pool EXCEPT ![t.into] = t.ip] /\ pool[t.into] = t.ip
        BY <2>2, <3>2 DEF WritesPool, PoolWritten, PoolAt, PoolOutdated
      <4> QED BY <1>1, <4>1 DEF TypeOK
    <3>3. CASE t.pc # "joinPool"
      BY <1>1, <2>2, <3>1, <3>3 DEF WritesPool, PoolWritten, PoolAt, TypeOK
    <3> QED BY <3>2, <3>3
  <2> QED BY <1>1, <2>1, <2>2, WhatActsWrite
<1>5. (Advertised(s)' <=> Advertised(s)) /\ (Once(adv, s) => Once(adv', s))
  <2>1. CASE adv' = adv
    BY <2>1, ListsIs
  <2>2. CASE WritesAdv(t)
    BY <1>1, <1>3, <2>2, ListsIs, AdvWrittenIs DEF WritesAdv
  <2> QED BY <1>1, <2>1, <2>2, WhatActsWrite
<1>6. ASSUME address[s] = Nil, NEW n \in Nodes, Serves(n, s)' PROVE Serves(n, s)
  <2>1. CASE peer' = peer
    BY <1>6, <2>1, NamesIs
  <2>2. ASSUME NEW m \in Nodes, WritesPeer(t, m) PROVE Serves(n, s)
    <3>1. m # n => peer'[n] = peer[n]
      BY <1>1, <2>2, PeerWrittenIs DEF WritesPeer
    <3>2. m = n => peer'[n] = PeerComputed(t, n) /\ peer[n] = t.peers[n]
      BY <1>1, <2>2, PeerWrittenIs DEF WritesPeer
    <3> QED BY <1>1, <1>3, <1>6, <3>1, <3>2, NamesIs, PeerComputedIs
  <2> QED BY <1>1, <2>1, <2>2, WhatActsWrite
<1>7. \A v \in Workers :
              \/ task'[v] = task[v]
              \/ /\ ~Major(task[v], s) /\ ~Major(task'[v], s)
                 /\ task'[v].s = s => address[s] # Nil
  <2>1. ~Major(task'[w], s) /\ (task'[w].s = s => address[s] # Nil)
    BY <1>2, <1>3, NoTaskIs DEF Major
  <2> QED BY <1>2, <2>1
<1> QED BY <1>2, <1>4, <1>5, <1>6, <1>7, Untouched

LEMMA OwnPoolSteps ==
    ASSUME Base, NEW w \in Workers, NEW s \in Services, Consistent(s), Sound(s)',
           Major(task[w], s), SearchPools(w) \/ FindPool(w) \/ WritePool(w)
    PROVE  Consistent(s)'
<1> DEFINE t == task[w]
<1>1. /\ WellFormed(t) /\ TypeOK /\ t \in Task /\ task \in [Workers -> Task]
      /\ t.s = s /\ t.op \in {"add", "remove"} /\ t.ip \in IPs /\ t.ip # Nil
      /\ s \notin hurt' /\ Once(adv, s)
  BY NilAssumption DEF Sound, Base, Major, WellFormed, TypeOK, Consistent
<1>2. /\ t.op = "add" => AddMidway(t, s)
      /\ t.op = "remove" => RemoveMidway(t, s)
  BY DEF Consistent
<1>3. CASE SearchPools(w)
  <2>1. /\ t.op = "add" /\ t.pc = "listPools" /\ (Present(s) \/ Absent(s)) /\ address[s] = t.ip
        /\ UNCHANGED <<pool, adv, address>>
    BY <1>2, <1>3 DEF SearchPools, AddMidway
  <2>2. CASE pool[s] # Nil /\ Goto(w, "listPeers")
    <3> DEFINE u == [t EXCEPT !.pc = "listPeers"]
    <3>1. task' = [task EXCEPT ![w] = u] /\ task'[w] = u
      BY <1>1, <2>2 DEF Goto
    <3>2. u.s = s /\ u.op = "add" /\ u.pc = "listPeers" /\ u.ip = t.ip
      BY <1>1, <2>1 DEF Task
    <3> HIDE DEF u
    <3>3. AddMidway(task[w], s)'
      BY <2>1, <2>2, <3>1, <3>2 DEF AddMidway, Present, Absent, Advertised
    <3> QED BY <1>1, <2>1, <3>1, <3>2, <3>3, Advances
  <2>3. CASE pool[s] = Nil /\ Goto(w, "createPool")
    <3> DEFINE u == [t EXCEPT !.pc = "createPool"]
    <3>1. task' = [task EXCEPT ![w] = u] /\ task'[w] = u
      BY <1>1, <2>3 DEF Goto
    <3>2. u.s = s /\ u.op = "add" /\ u.pc = "createPool" /\ u.ip = t.ip
      BY <1>1, <2>1 DEF Task
    <3> HIDE DEF u
    <3>3. AddMidway(task[w], s)'
      BY <1>1, <2>1, <2>3, <3>1, <3>2 DEF AddMidway, Present, Absent, Advertised
    <3> QED BY <1>1, <2>1, <3>1, <3>2, <3>3, Advances
  <2> QED BY <1>1, <1>3, <2>2, <2>3 DEF SearchPools
<1>4. CASE FindPool(w)
  <2> DEFINE u == [t EXCEPT !.pc = IF pool[t.s] = Nil THEN "listAdvs" ELSE "deletePool"]
  <2>1. /\ t.op = "remove" /\ t.pc = "listPools"
        /\ UNCHANGED <<pool, adv, address, due, peer>> /\ task' = [task EXCEPT ![w] = u] /\ task'[w] = u
    BY <1>1, <1>4 DEF FindPool, Goto
  <2>2. /\ u.s = s /\ u.op = "remove" /\ u.at = t.at
        /\ u.pc = IF pool[s] = Nil THEN "listAdvs" ELSE "deletePool"
    BY <1>1, <2>1 DEF Task
  <2> HIDE DEF u
  <2>3. RemoveMidway(task[w], s)'
    BY <1>2, <2>1, <2>2 DEF RemoveMidway
  <2> QED BY <1>1, <2>1, <2>2, <2>3, Advances
<1>5. CASE WritePool(w)
  <2> DEFINE u == [t EXCEPT !.pc = IF @ = "joinPool" THEN "listPeers" ELSE "listAdvs", !.into = Nil]
  <2>1. /\ ~PoolRefused(t) /\ pool' = PoolWritten(t) /\ Become(w, u)
        /\ UNCHANGED <<adv, address, due, peer>> /\ t.pc \in {"createPool", "deletePool"}
    BY <1>1, <1>2, <1>5 DEF WritePool, Fail, AddMidway, RemoveMidway, WellFormed
  <2>2. task' = [task EXCEPT ![w] = u] /\ task'[w] = u
    BY <1>1, <2>1 DEF Become
  <2>3. u.s = s /\ u.op = t.op /\ u.pc = "listAdvs" /\ u.ip = t.ip /\ u.at = t.at
    BY <1>1, <2>1 DEF Task
  <2>4. t.pc = "createPool" <=> t.op = "add"
    BY <1>1, <2>1 DEF WellFormed
  <2>5. pool'[s] = IF t.op = "add" THEN t.ip ELSE Nil
    BY <1>1, <2>1, <2>4 DEF PoolWritten, PoolAt, TypeOK
  <2> HIDE DEF u
  <2>6. t.op = "add" => AddMidway(task[w], s)'
    BY <1>2, <2>1, <2>2, <2>3, <2>4, <2>5 DEF AddMidway, Absent, Advertised
  <2>7. t.op = "remove" => RemoveMidway(task[w], s)'
    BY <1>2, <2>1, <2>2, <2>3, <2>4, <2>5 DEF RemoveMidway
  <2> QED BY <1>1, <2>1, <2>2, <2>3, <2>6, <2>7, Advances
<1> QED BY <1>3, <1>4, <1>5

LEMMA OwnAdvSteps ==
    ASSUME Base, NEW w \in Workers, NEW s \in Services, Consistent(s), Sound(s)',
           Major(task[w], s), ListAdvs(w) \/ WriteAdv(w) \/ NotAdvertised(w)
    PROVE  Consistent(s)'
<1> DEFINE t == task[w]
<1>1. /\ WellFormed(t) /\ TypeOK /\ t \in Task /\ task \in [Workers -> Task]
      /\ t.s = s /\ t.op \in {"add", "remove"}
      /\ s \notin hurt' /\ ~outdated' /\ Once(adv, s)
  BY DEF Sound, Base, Major, TypeOK, Consistent
<1>2. /\ t.op = "add" => AddMidway(t, s)
      /\ t.op = "remove" => RemoveMidway(t, s)
  BY DEF Consistent
<1>3. CASE ListAdvs(w)
  <2> DEFINE u == [t EXCEPT !.list = adv, !.pc = "writeAdv"]
  <2>1. /\ t.pc = "listAdvs" /\ task' = [task EXCEPT ![w] = u] /\ task'[w] = u
        /\ UNCHANGED <<pool, adv, peer, address, due>>
    BY <1>1, <1>3 DEF ListAdvs, Become
  <2>2. /\ u.s = s /\ u.op = t.op /\ u.pc = "writeAdv" /\ u.ip = t.ip
        /\ u.at = t.at /\ u.list = adv
    BY <1>1 DEF Task
  <2> HIDE DEF u
  <2>3. t.op = "add" => AddMidway(task[w], s)'
    BY <1>2, <2>1, <2>2 DEF AddMidway, Advertised
  <2>4. ASSUME t.op = "remove", Advertised(s)' PROVE Found(task[w])' # {}
    <3>1. PICK i \in DOMAIN adv : adv[i] = s /\ adv # Nil
      BY <2>1, <2>4 DEF Advertised
    <3>2. adv \in Seq(Services)
      BY <1>1, <3>1 DEF TypeOK
    <3>3. i \in 1 .. Len(adv)
      BY <3>1, <3>2, LenProperties
    <3>4. i \in Found(task[w])'
      BY <1>2, <2>1, <2>2, <2>4, <3>1, <3>3 DEF Found, RemoveMidway
    <3> QED BY <3>4
  <2>5. t.op = "remove" => RemoveMidway(task[w], s)'
    BY <1>2, <2>1, <2>2, <2>4 DEF RemoveMidway
  <2> QED BY <1>1, <2>1, <2>2, <2>3, <2>5, Advances
<1>4. CASE WriteAdv(w) /\ t.op = "add"
  <2> DEFINE u == [t EXCEPT !.pc = "listPeers", !.list = Nil]
  <2>1. /\ t.pc = "writeAdv" /\ adv' = AdvWritten(t) /\ adv = t.list /\ Become(w, u)
        /\ UNCHANGED <<pool, peer, address, due>>
    BY <1>1, <1>4 DEF WriteAdv, Fail, TypeOK
  <2>2. task' = [task EXCEPT ![w] = u] /\ task'[w] = u
    BY <1>1, <2>1 DEF Become
  <2>3. u.s = s /\ u.op = "add" /\ u.pc = "listPeers" /\ u.ip = t.ip
    BY <1>1, <1>4 DEF Task
  <2> HIDE DEF u
  <2>4. pool[s] = t.ip /\ address[s] = t.ip /\ ~Advertised(s)
    BY <1>2, <1>4, <2>1 DEF AddMidway
  <2>5. Advertised(s)' /\ Once(adv, s)'
    BY <1>1, <1>4, <2>1, <2>4, ListsIs, AdvWrittenIs DEF Once
  <2>6. AddMidway(task[w], s)'
    BY <2>1, <2>2, <2>3, <2>4, <2>5 DEF AddMidway, Present
  <2> QED BY <1>1, <1>4, <2>1, <2>2, <2>3, <2>5, <2>6, Advances
<1>5. CASE WriteAdv(w) /\ t.op = "remove"
  <2> DEFINE u == [t EXCEPT !.list = IF adv' = Nil THEN <<>> ELSE adv',
                            !.at = Min(Found(t)) + 1]
  <2>1. /\ t.pc = "writeAdv" /\ adv' = AdvWritten(t) /\ adv = t.list /\ Become(w, u)
        /\ Found(t) # {}
        /\ UNCHANGED <<pool, peer, address, due>>
    BY <1>1, <1>5 DEF WriteAdv, Fail, TypeOK
  <2>2. task' = [task EXCEPT ![w] = u] /\ task'[w] = u
    BY <1>1, <2>1 DEF Become
  <2>3. u.s = s /\ u.op = "remove" /\ u.pc = "writeAdv"
    BY <1>1, <1>5, <2>1 DEF Task
  <2> HIDE DEF u
  <2>4. ~Advertised(s)' /\ Once(adv, s)'
    BY <1>1, <1>5, <2>1, ListsIs, AdvWrittenIs DEF Once
  <2>5. RemoveMidway(task[w], s)'
    BY <1>2, <1>5, <2>1, <2>2, <2>3, <2>4 DEF RemoveMidway
  <2> QED BY <1>1, <1>5, <2>1, <2>2, <2>3, <2>4, <2>5, Advances
<1>6. CASE NotAdvertised(w)
  <2> DEFINE u == [t EXCEPT !.pc = "listPeers", !.list = Nil, !.at = 1]
  <2>1. /\ t.pc = "writeAdv" /\ t.op = "remove" /\ Found(t) = {}
        /\ task' = [task EXCEPT ![w] = u] /\ task'[w] = u
        /\ UNCHANGED <<pool, adv, peer, address, due>>
    BY <1>1, <1>6 DEF NotAdvertised, Become
  <2>2. u.s = s /\ u.op = "remove" /\ u.pc = "listPeers"
    BY <1>1, <2>1 DEF Task
  <2> HIDE DEF u
  <2>3. pool[s] = Nil /\ ~Advertised(s) /\ (address[s] # Nil => s \in due)
    BY <1>2, <2>1 DEF RemoveMidway
  <2>4. RemoveMidway(task[w], s)'
    BY <2>1, <2>2, <2>3 DEF RemoveMidway, Absent, Advertised
  <2> QED BY <1>1, <2>1, <2>2, <2>4, Advances
<1> QED BY <1>1, <1>3, <1>4, <1>5, <1>6

LEMMA OwnPeerSteps ==
    ASSUME Base, NEW w \in Workers, NEW s \in Services, Consistent(s), Sound(s)',
           Major(task[w], s), ListBGPPeers(w) \/ \E n \in Nodes : WritePeer(w, n)
    PROVE  Consistent(s)'
<1> DEFINE t == task[w]
<1>1. /\ WellFormed(t) /\ TypeOK /\ t \in Task /\ task \in [Workers -> Task]
      /\ t.s = s /\ t.op \in {"add", "remove"} /\ peer \in Listed
      /\ s \notin hurt' /\ ~outdated' /\ Once(adv, s)
      /\ t.op = "remove" => t.nodes = NoNodes
  BY DEF Sound, Base, Major, TypeOK, Consistent, WellFormed
<1>2. /\ t.op = "add" => AddMidway(t, s)
      /\ t.op = "remove" => RemoveMidway(t, s)
  BY DEF Consistent
<1>3. ASSUME t.pc \in {"listPeers", "writePeer"}, UNCHANGED <<pool, adv, address, due>>
      PROVE  /\ t.op = "add" => Present(s)'
             /\ t.op = "remove" => Absent(s)' /\ (address[s] # Nil => s \in due')
  BY <1>2, <1>3 DEF AddMidway, RemoveMidway, Present, Absent, Advertised
\* The call ends, or writes what is left.
<1>4. ASSUME t.pc \in {"listPeers", "writePeer"}, UNCHANGED <<pool, adv, address, due>>, Return(w),
             t.op = "remove" /\ address[s] = Nil => \A n \in Nodes : ~Serves(n, s)'
      PROVE  Consistent(s)'
  <2>1. (t.ip = address[s] /\ t.ip # Nil) \/ t.op = "remove"
    BY <1>1, <1>2, NilAssumption DEF AddMidway, WellFormed
  <2>2. AtRest(s)'
    BY <1>1, <1>3, <1>4, <2>1 DEF AtRest, Unserved
  <2> QED BY <1>1, <1>4, <2>2, Advances DEF Return
<1>5. ASSUME t.pc \in {"listPeers", "writePeer"}, UNCHANGED <<pool, adv, address, due>>,
             NEW u, Become(w, u), u.s = s, u.op = t.op, u.ip = t.ip, u.pc = "writePeer",
             t.op = "remove" /\ address[s] = Nil => \A n \in Nodes : Serves(n, s)' => n \in u.left
      PROVE  Consistent(s)'
  <2>1. task' = [task EXCEPT ![w] = u] /\ task'[w] = u
    BY <1>1, <1>5 DEF Become
  <2>2. t.op = "add" => AddMidway(task[w], s)'
    BY <1>2, <1>3, <1>5, <2>1 DEF AddMidway
  <2>3. t.op = "remove" => RemoveMidway(task[w], s)'
    BY <1>2, <1>3, <1>5, <2>1 DEF RemoveMidway
  <2> QED BY <1>1, <1>5, <2>1, <2>2, <2>3, Advances
<1>6. CASE ListBGPPeers(w)
  <2> DEFINE v == [t EXCEPT !.pc = "writePeer", !.peers = peer]
             left == {n \in Nodes : PeerComputed(v, n) # peer[n]}
             u == [v EXCEPT !.left = left]
  <2>1. /\ t.pc = "listPeers" /\ UNCHANGED <<pool, adv, address, due, peer>>
        /\ IF left = {} THEN Return(w) ELSE Become(w, u)
    BY <1>6 DEF ListBGPPeers, Return, Become
  <2>2. /\ v \in Task /\ v.s = t.s /\ v.op = t.op /\ v.nodes = t.nodes /\ v.peers = peer
        /\ v.pc = "writePeer" /\ v.ip = t.ip
    BY <1>1 DEF Task
  <2>3. WellFormed(v)
    BY <1>1, <2>1, <2>2 DEF WellFormed
  <2>4. u.s = s /\ u.op = t.op /\ u.ip = t.ip /\ u.pc = "writePeer" /\ u.left = left
    BY <1>1, <2>2 DEF Task
  <2> HIDE DEF u, v
  <2>5. ASSUME t.op = "remove", NEW n \in Nodes, Serves(n, s)' PROVE n \in left
    <3>1. v.nodes[n] = Nil
      BY <1>1, <2>2, <2>5 DEF NoNodes
    <3>2. ~Names(PeerComputed(v, n), s) /\ Names(peer[n], s)
      BY <1>1, <2>1, <2>2, <2>3, <2>5, <3>1, PeerComputedIs, NamesIs
    <3> QED BY <3>2
  <2> HIDE DEF left
  <2>6. CASE left = {}
    BY <1>4, <2>1, <2>5, <2>6
  <2>7. CASE left # {}
    BY <1>5, <2>1, <2>4, <2>5, <2>7
  <2> QED BY <2>6, <2>7
<1>7. ASSUME NEW n \in Nodes, WritePeer(w, n) PROVE Consistent(s)'
  <2> DEFINE u == [t EXCEPT !.left = @ \ {n}]
  <2>1. /\ t.pc = "writePeer" /\ UNCHANGED <<pool, adv, address, due>>
        /\ ~PeerRefused(t, n) /\ peer' = PeerWritten(t, n) /\ peer[n] = t.peers[n]
        /\ IF t.left = {n} THEN Return(w) ELSE Become(w, u)
    BY <1>1, <1>7 DEF WritePeer, Fail, Return, Become, TypeOK
  <2>2. u.s = s /\ u.op = t.op /\ u.ip = t.ip /\ u.pc = "writePeer" /\ u.left = t.left \ {n}
    BY <1>1, <2>1 DEF Task
  <2> HIDE DEF u
  <2>3. /\ \A m \in Nodes : m # n => peer'[m] = peer[m]
        /\ peer'[n] = PeerComputed(t, n)
    BY <1>1, <2>1, PeerWrittenIs
  <2>4. ASSUME t.op = "remove", address[s] = Nil, NEW m \in Nodes, Serves(m, s)' PROVE m \in t.left \ {n}
    <3>1. t.nodes[n] = Nil
      BY <1>1, <2>4 DEF NoNodes
    <3>2. m # n
      BY <1>1, <2>3, <2>4, <3>1, PeerComputedIs, NamesIs
    <3>3. Serves(m, s)
      BY <2>3, <2>4, <3>2, NamesIs
    <3>4. m \in t.left
      BY <1>2, <2>1, <2>4, <3>3 DEF RemoveMidway
    <3> QED BY <3>2, <3>4
  <2>5. CASE t.left = {n}
    BY <1>4, <2>1, <2>4, <2>5
  <2>6. CASE t.left # {n}
    BY <1>5, <2>1, <2>2, <2>4, <2>6
  <2> QED BY <2>5, <2>6
<1> QED BY <1>6, <1>7

LEMMA ActKeeps ==
    ASSUME Base, NEW w \in Workers, Act(w), NEW s \in Services, Consistent(s), Sound(s)'
    PROVE  Consistent(s)'
<1>1. CASE ~Major(task[w], s)
  BY <1>1, OthersAct
<1>2. CASE Major(task[w], s) /\ Steps(w)
  BY <1>2, OwnPoolSteps, OwnAdvSteps, OwnPeerSteps DEF Steps
<1>3. CASE Major(task[w], s) /\ (ListFails(w) \/ WriteFails(w))
  <2>1. s \in hurt'
    BY <1>3 DEF ListFails, WriteFails, Fail, Major
  <2> QED BY <2>1 DEF Sound
<1> QED BY <1>1, <1>2, <1>3 DEF Act

LEMMA StartKeeps ==
    ASSUME Base, NEW w \in Workers, NEW r \in Services,
           StartAdd(w, r) \/ StartRemove(w, r) \/ StartUpdate(w, r),
           NEW s \in Services, Consistent(s), Sound(s)'
    PROVE  Consistent(s)'
<1>1. /\ task \in [Workers -> Task] /\ task[w] = NoTask /\ TypeOK
      /\ pool' = pool /\ adv' = adv /\ peer' = peer /\ s \notin hurt'
  BY DEF Base, TypeOK, WellFormed, StartAdd, StartRemove, StartUpdate, Begin, Sound
<1>2. cluster \in Wanted /\ NoNodes \in Wanted /\ address[r] # Nil /\ address[r] \in IPs
  BY <1>1 DEF TypeOK, NoNodes, Wanted, StartAdd, StartRemove, StartUpdate
<1>3. ~Major(task[w], s)
  BY <1>1, NoTaskIs DEF Major
\* A call for another service, or one that neither sets up nor tears down.
<1>4. ASSUME NEW u, task' = [task EXCEPT ![w] = u], ~Major(u, s), u.s = s => address[s] # Nil,
             address'[s] = address[s], s \in due => s \in due'
      PROVE  Consistent(s)'
  <2>1. task'[w] = u /\ \A v \in Workers : v # w => task'[v] = task[v]
    BY <1>1, <1>4
  <2> QED BY <1>1, <1>3, <1>4, <2>1, Untouched, ListsIs, NamesIs
\* A first call for s.
<1>5. ASSUME NEW u, task' = [task EXCEPT ![w] = u], u.s = s,
             \A v \in Workers : ~Major(task[v], s),
             u.op \in {"add", "remove"},
             u.op = "add" => AddMidway(task[w], s)' /\ address'[s] # Nil,
             u.op = "remove" => RemoveMidway(task[w], s)' /\ \A v \in Workers : task[v].s # s
      PROVE  Consistent(s)'
  <2>1. task'[w] = u /\ \A v \in Workers : v # w => task'[v] = task[v]
    BY <1>1, <1>5
  <2>2. Once(adv, s)'
    BY <1>1 DEF Consistent, Once
  <2>3. \A v \in Workers : Major(task'[v], s) <=> v = w
    BY <1>5, <2>1 DEF Major
  <2>4. ASSUME address'[s] = Nil, NEW v \in Workers, task'[v].s = s PROVE task'[v].op = "remove"
    BY <1>5, <2>1, <2>4
  <2> QED BY <1>5, <2>1, <2>2, <2>3, <2>4 DEF Consistent, Major
<1>6. CASE StartAdd(w, r)
  <2>1. PICK nodes \in Wanted : Begin(w, Call("add", "listPools", r, address[r], nodes))
    BY <1>6 DEF StartAdd
  <2> DEFINE u == Call("add", "listPools", r, address[r], nodes)
  <2>2. u.s = r /\ u.op = "add" /\ u.pc = "listPools" /\ u.ip = address[r]
    BY <1>2, CallIs
  <2>3. task' = [task EXCEPT ![w] = u] /\ task'[w] = u /\ address' = address /\ due' = due \ {r}
    BY <1>1, <1>6, <2>1 DEF StartAdd, Begin, Become
  <2> HIDE DEF u
  <2>4. CASE r # s
    BY <1>4, <2>2, <2>3, <2>4 DEF Major
  <2>5. CASE r = s
    <3>1. \A v \in Workers : ~Major(task[v], s)
      BY <1>6, <2>5 DEF StartAdd, Alone, Major
    <3>2. Present(s) \/ Absent(s)
      BY <1>2, <2>5, <3>1 DEF Consistent, AtRest
    <3>3. AddMidway(task[w], s)'
      BY <1>1, <2>2, <2>3, <2>5, <3>2 DEF AddMidway, Present, Absent, Advertised
    <3> QED BY <1>2, <1>5, <2>2, <2>3, <2>5, <3>1, <3>3
  <2> QED BY <2>4, <2>5
<1>7. CASE StartRemove(w, r)
  <2> DEFINE u == Call("remove", "listPools", r, address[r], NoNodes)
  <2>1. u.s = r /\ u.op = "remove" /\ u.pc = "listPools"
    BY <1>2, CallIs
  <2>2. u.at = 1
    BY DEF Call
  <2>3. task' = [task EXCEPT ![w] = u] /\ task'[w] = u /\ address' = [address EXCEPT ![r] = Nil] /\ due' = due
    BY <1>1, <1>7 DEF StartRemove, Begin, Become
  <2> HIDE DEF u
  <2>4. CASE r # s
    BY <1>1, <1>4, <2>1, <2>3, <2>4 DEF Major, TypeOK
  <2>5. CASE r = s
    <3>1. \A v \in Workers : ~Major(task[v], s)
      BY <1>7, <2>5 DEF StartRemove, Alone, Major
    <3>2. Present(s) \/ Absent(s)
      BY <1>2, <2>5, <3>1 DEF Consistent, AtRest
    <3>3. address'[s] = Nil
      BY <1>1, <2>3, <2>5 DEF TypeOK
    <3>4. RemoveMidway(task[w], s)'
      BY <1>1, <1>2, <2>1, <2>2, <2>3, <2>5, <3>2, <3>3 DEF RemoveMidway, Present, Absent, Advertised
    <3>5. \A v \in Workers : task[v].s # s
      BY <1>1, <1>7, <2>5 DEF StartRemove
    <3> QED BY <1>5, <2>1, <2>3, <2>5, <3>1, <3>4, <3>5
  <2> QED BY <2>4, <2>5
<1>8. CASE StartUpdate(w, r)
  <2>1. PICK nodes \in Wanted :
          /\ Passed(nodes)
          /\ Begin(w, Call("update", "listPeers", r, Nil, nodes))
    BY <1>8 DEF StartUpdate
  <2> DEFINE u == Call("update", "listPeers", r, Nil, nodes)
  <2>2. u.s = r /\ u.op = "update"
    BY <1>2, CallIs
  <2>3. task' = [task EXCEPT ![w] = u] /\ address' = address /\ due' = due
    BY <1>8, <2>1 DEF StartUpdate, Begin, Become
  <2> HIDE DEF u
  <2> QED BY <1>2, <1>4, <2>2, <2>3 DEF Major
<1> QED BY <1>6, <1>7, <1>8

LEMMA AssignKeeps ==
    ASSUME Base, NEW s \in Services, Consistent(s), NEW r \in Services, NEW i \in IPs, Assign(r, i)
    PROVE  Consistent(s)'
<1>1. TypeOK /\ i # Nil
  BY NilAssumption DEF Base
<1>2. /\ address[r] = Nil /\ address' = [address EXCEPT ![r] = i] /\ due' = due \union {r}
      /\ UNCHANGED <<pool, adv, peer, task>>
  BY DEF Assign
<1>3. CASE r # s
  BY <1>1, <1>2, <1>3, Untouched, ListsIs, NamesIs DEF TypeOK
<1>4. CASE r = s
  <2>1. address[s] = Nil /\ address'[s] = i /\ s \in due'
    BY <1>1, <1>2, <1>4 DEF TypeOK
  <2>2. Once(adv, s)'
    BY <1>2 DEF Consistent, Once
  <2>3. ASSUME \A w \in Workers : ~Major(task'[w], s) PROVE AtRest(s)'
    BY <1>1, <1>2, <2>1, <2>3 DEF Consistent, AtRest, Absent, Major, Advertised
  <2>4. ASSUME NEW w \in Workers, Major(task'[w], s)
        PROVE  task'[w].op = "remove" /\ RemoveMidway(task[w], s)'
    <3>1. task[w].op = "remove" /\ RemoveMidway(task[w], s)
      BY <1>2, <2>1, <2>4 DEF Consistent, Major
    <3> QED BY <1>1, <1>2, <2>1, <3>1 DEF RemoveMidway, Absent, Advertised, Found
  <2> QED BY <1>1, <2>1, <2>2, <2>3, <2>4 DEF Consistent, Major
<1> QED BY <1>3, <1>4

LEMMA CrashKeeps ==
    ASSUME Base, NEW s \in Services, Consistent(s), Sound(s)', Crash
    PROVE  Consistent(s)'
<1>1. s \notin hurt' /\ UNCHANGED <<pool, adv, peer, address>> /\ \A w \in Workers : task'[w] = NoTask
  BY DEF Sound, Crash
<1>2. due' = {r \in Services : address[r] # Nil}
  BY DEF Crash
<1>3. \A w \in Workers : task[w].s # s
  <2> SUFFICES ASSUME NEW w \in Workers, task[w].s = s PROVE FALSE
    OBVIOUS
  <2>1. task[w].pc # "idle"
    BY NoTaskIs DEF Base, WellFormed
  <2> QED BY <1>1, <2>1 DEF Crash
<1>4. AtRest(s)
  BY <1>3 DEF Consistent, Major
<1>5. AtRest(s)'
  BY <1>1, <1>2, <1>4 DEF AtRest, Present, Absent, Unserved, Advertised, Serves
<1>6. \A w \in Workers : task'[w].s # s
  BY <1>1, NoTaskIs
<1> QED BY <1>1, <1>5, <1>6 DEF Consistent, Once, Major

LEMMA NextKeepsConsistent ==
    ASSUME Base, [Next]_vars, NEW s \in Services, Consistent(s), Sound(s)'
    PROVE  Consistent(s)'
<1>1. ASSUME NEW r \in Services, UpdateRefused(r) \/ Requeue(r) PROVE Consistent(s)'
  <2>1. UNCHANGED <<pool, adv, peer, address, task>> /\ due \subseteq due'
    BY <1>1 DEF UpdateRefused, Requeue
  <2> QED BY <2>1, Untouched, ListsIs, NamesIs
<1>2. ASSUME NEW n \in Nodes, NodesChange(n) \/ SpecChanges(n) PROVE Consistent(s)'
  <2>1. UNCHANGED <<pool, adv, peer, address, task, due>>
    BY <1>2 DEF NodesChange, SpecChanges
  <2> QED BY <2>1, Untouched, ListsIs, NamesIs
<1>3. CASE UNCHANGED vars
  <2>1. UNCHANGED <<pool, adv, peer, address, task, due>>
    BY <1>3 DEF vars
  <2> QED BY <2>1, Untouched, ListsIs, NamesIs
<1> QED BY <1>1, <1>2, <1>3, ActKeeps, StartKeeps, AssignKeeps, CrashKeeps DEF Next, Act

LEMMA InitIsConsistent == ASSUME Init, NEW s \in Services PROVE Consistent(s)
<1>1. \A w \in Workers : task[w] = NoTask /\ task[w].s # s
  BY NoTaskIs DEF Init
<1>2. pool[s] = Nil /\ adv = Nil /\ address[s] = Nil /\ \A n \in Nodes : peer[n] = Nil
  BY DEF Init, NoNodes
<1> QED BY <1>1, <1>2 DEF Consistent, Once, AtRest, Absent, Unserved, Advertised, Serves, Major

\* Each service the history variables do not except is at rest set up, queued or gone without
\* trace, and in a call as far as that has come (cr.go:31-343).
THEOREM Invariance == Spec => []IInv
<1>1. Init => IInv
  BY InitIsBase, InitIsConsistent DEF IInv
<1>2. IInv /\ [Next]_vars => IInv'
  <2> SUFFICES ASSUME IInv, [Next]_vars PROVE IInv'
    OBVIOUS
  <2>1. Base /\ Base'
    BY NextKeepsBase DEF IInv
  <2>2. ASSUME NEW s \in Services, Sound(s)' PROVE Consistent(s)'
    <3>1. Sound(s)
      BY <2>1, <2>2, HowResourcesChange DEF Sound
    <3> QED BY <2>1, <2>2, <3>1, NextKeepsConsistent DEF IInv
  <2> QED BY <2>1, <2>2 DEF IInv
<1> QED BY <1>1, <1>2, PTL DEF Spec

\* When a set-up has ended, MetalLB has the address of the service and announces it, but
\* for services that were hurt or when an outdated resource was written.
THEOREM SetUpIsAdvertised == Spec => []CompletedIsAdvertised
<1>1. ASSUME IInv PROVE CompletedIsAdvertised
  <2> SUFFICES ASSUME NEW s \in Services, address[s] # Nil, ~SettingUp(s), s \notin hurt, ~outdated
               PROVE  pool[s] = address[s] /\ Advertised(s)
    BY DEF CompletedIsAdvertised
  <2>1. Consistent(s)
    BY <1>1 DEF IInv, Sound
  <2>2. ASSUME NEW w \in Workers PROVE ~Major(task[w], s)
    BY <2>1 DEF SettingUp, Major, Consistent, RemoveMidway
  <2> QED BY <2>1, <2>2 DEF Consistent, AtRest, Present, SettingUp
<1> QED BY <1>1, Invariance, PTL

\* A service that is gone leaves no pool and is named nowhere, with the same exceptions.
THEOREM RemovedLeavesNothing == Spec => []GoneLeavesNothing
<1>1. ASSUME IInv PROVE GoneLeavesNothing
  <2> SUFFICES ASSUME NEW s \in Services, address[s] = Nil, s \notin hurt, ~outdated,
                      \A w \in Workers : task[w].s # s
               PROVE  Absent(s) /\ Unserved(s)
    BY DEF GoneLeavesNothing, Absent, Unserved, Serves
  <2>1. Consistent(s)
    BY <1>1 DEF IInv, Sound
  <2> QED BY <2>1 DEF Consistent, AtRest, Major
<1> QED BY <1>1, Invariance, PTL
=============================================================================
