----------------------------- MODULE EMLBProofs -----------------------------
(* Theorems about EMLB, for any ports, nodes, failures and changes.  None of *)
(* what the runs check is inductive by itself: a port keeps its pool because *)
(* of who has pools in hand, and what is there at rest depends on what has   *)
(* been done and what is still to be done at every point of a reconciliation.*)
EXTENDS EMLB, TLAPS, FiniteSetTheorems

\* No port has this pool.
Unnamed(L, q) == \A b \in DOMAIN L : \A p \in DOMAIN L[b] : L[b][p].pool # q

ApiOK(L, P) ==
    /\ DOMAIN L \subseteq Nat /\ DOMAIN P \subseteq Nat
    /\ \A b \in DOMAIN L :
         IsPortMap(L[b]) /\ \A p \in DOMAIN L[b] : L[b][p].pool \in (DOMAIN P) \union {Nil}
    /\ \A q \in DOMAIN P : P[q] \subseteq Origins /\ IsFiniteSet(P[q])
    /\ IsFiniteSet(DOMAIN L) /\ IsFiniteSet(DOMAIN P)

\* What a worker has in hand fits what it is doing.
InHand(t) ==
    /\ TaskOK(t)
    /\ t.pc \notin {"origins", "port"} => t.pool = Nil /\ t.port = Nil
    /\ t.pc \in {"origins", "port"} => t.pool \in Nat
    /\ t.pc = "port" => t.port # Nil
    /\ t.pc # "origins" => t.left = {} /\ t.old = {}
    /\ t.port # Nil => t.old = {}
    /\ t.pc \notin {"idle", "create", "finalizer"} => t.lb \in Nat
    /\ IsFiniteSet(t.old)

\* The pool made for a new port is there, and no port has it yet;
New(L, P, t) == t.port # Nil => t.pool \in DOMAIN P /\ Unnamed(L, t.pool)

\* neither does a port anybody remembers.
Apart(t, u) == t.port # Nil => \A p \in DOMAIN u.snap : u.snap[p].pool # t.pool
Others(t, u) == t.port # Nil => u.pool # t.pool

HandInv ==
    /\ DOMAIN tasks = Workers
    /\ \A w \in Workers : InHand(tasks[w]) /\ New(lbs, pools, tasks[w])
    /\ \A v, w \in Workers : Apart(tasks[v], tasks[w]) /\ (v # w => Others(tasks[v], tasks[w]))

ClusterOK ==
    /\ service \in Copies /\ seen \in Copies /\ held \in Copies \union {Nil}
    /\ news \in {"none", "one", "more", "shown"}
    /\ shared \in BOOLEAN /\ hidden \in BOOLEAN /\ nodes \subseteq Nodes
    /\ todo \subseteq Workers
    /\ faults \in 0 .. MaxFaults /\ changes \in 0 .. MaxChanges

IInv == ApiOK(lbs, pools) /\ HandInv /\ ClusterOK

-----------------------------------------------------------------------------
(* New numbers *)

\* Every finite set leaves out one of the numbers up to its size plus one.
LEMMA FreshIs ==
    ASSUME NEW S, IsFiniteSet(S)
    PROVE  Fresh(S) \in Nat /\ Fresh(S) \notin S
<1> DEFINE k == Cardinality(S)
<1>1. k \in Nat
  BY FS_CardinalityType
<1>2. IsFiniteSet(1 .. k + 1) /\ Cardinality(1 .. k + 1) = k + 1
  <2> HIDE DEF k
  <2>1. 1 \in Int /\ k + 1 \in Int /\ ~(1 > k + 1) /\ (k + 1) - 1 + 1 = k + 1
    BY <1>1
  <2> QED BY <2>1, FS_Interval
<1>3. ~(1 .. k + 1 \subseteq S)
  <2> SUFFICES ASSUME 1 .. k + 1 \subseteq S PROVE FALSE
    OBVIOUS
  <2>1. Cardinality(1 .. k + 1) <= k
    BY FS_Subset
  <2> HIDE DEF k
  <2> QED BY <2>1, <1>1, <1>2
<1>4. \E n \in 1 .. k + 1 : n \notin S
  BY <1>3
<1> HIDE DEF k
<1>5. Fresh(S) \in 1 .. k + 1 /\ Fresh(S) \notin S
  BY <1>4 DEF Fresh, k
<1> QED BY <1>1, <1>5

-----------------------------------------------------------------------------
(* Maps *)

LEMMA NoPorts == IsPortMap(<<>>) /\ DOMAIN <<>> = {}
<1>1. DOMAIN <<>> = {}
  OBVIOUS
<1>2. <<>> \in [{} -> PortRecords]
  OBVIOUS
<1> QED BY <1>1, <1>2 DEF IsPortMap

LEMMA WithoutIs ==
    ASSUME NEW f, NEW x
    PROVE  /\ DOMAIN Without(f, x) = (DOMAIN f) \ {x}
           /\ \A y \in DOMAIN f : y # x => Without(f, x)[y] = f[y]
BY DEF Without

LEMMA PlusIs ==
    ASSUME NEW f, NEW x, NEW v
    PROVE  /\ DOMAIN Plus(f, x, v) = (DOMAIN f) \union {x}
           /\ Plus(f, x, v)[x] = v
           /\ \A y \in DOMAIN f : y # x => Plus(f, x, v)[y] = f[y]
BY DEF Plus

LEMMA FewerPorts ==
    ASSUME NEW m, IsPortMap(m), NEW p
    PROVE  IsPortMap(Without(m, p))
BY DEF Without, IsPortMap

LEMMA MorePorts ==
    ASSUME NEW m, IsPortMap(m), NEW p \in Ports, NEW r \in PortRecords
    PROVE  IsPortMap(Plus(m, p, r))
BY DEF Plus, IsPortMap

LEMMA PortOf ==
    ASSUME NEW m, IsPortMap(m), NEW p \in DOMAIN m
    PROVE  p \in Ports /\ m[p] \in PortRecords /\ m[p].id \in Nat /\ m[p].pool \in IDs
BY DEF IsPortMap, PortRecords

LEMMA PoolChanged ==
    ASSUME NEW m, IsPortMap(m), NEW p \in DOMAIN m, NEW q \in IDs
    PROVE  /\ IsPortMap([m EXCEPT ![p].pool = q])
           /\ DOMAIN [m EXCEPT ![p].pool = q] = DOMAIN m
           /\ [m EXCEPT ![p].pool = q][p] = [m[p] EXCEPT !.pool = q]
           /\ \A r \in DOMAIN m : r # p => [m EXCEPT ![p].pool = q][r] = m[r]
<1>1. [m[p] EXCEPT !.pool = q] \in PortRecords
  BY PortOf DEF PortRecords
<1> QED BY <1>1 DEF IsPortMap

LEMMA PairFinite ==
    ASSUME NEW a, NEW b
    PROVE  IsFiniteSet({a, b})
<1>1. IsFiniteSet({a})
  BY FS_Singleton
<1>2. IsFiniteSet({a} \union {b})
  BY <1>1, FS_AddElement
<1>3. {a, b} = {a} \union {b}
  OBVIOUS
<1> QED BY <1>2, <1>3

LEMMA ImageFinite ==
    ASSUME NEW S, IsFiniteSet(S), NEW f, DOMAIN f = S
    PROVE  IsFiniteSet({f[x] : x \in S})
<1> DEFINE g == [x \in S |-> f[x]]
           T == {f[x] : x \in S}
<1>1. g \in [S -> T] /\ \A y \in T : \E x \in S : g[x] = y
  OBVIOUS
<1>2. g \in Surjection(S, T)
  <2> HIDE DEF g, T
  <2> QED BY <1>1 DEF Surjection
<1> HIDE DEF g
<1> QED BY <1>2, FS_Surjection

\* The pools and the names of the ports of a map are finitely many.
LEMMA MapFinite ==
    ASSUME NEW m, IsPortMap(m)
    PROVE  /\ IsFiniteSet(DOMAIN m)
           /\ IsFiniteSet({m[p].id : p \in DOMAIN m})
           /\ IsFiniteSet(UNION {{m[p].id, m[p].pool} : p \in DOMAIN m})
<1>1. IsFiniteSet(DOMAIN m)
  BY ClusterAssumption, FS_Subset DEF IsPortMap
<1>2. IsFiniteSet({m[p].id : p \in DOMAIN m})
  <2> DEFINE f == [p \in DOMAIN m |-> m[p].id]
  <2>1. DOMAIN f = DOMAIN m /\ {f[p] : p \in DOMAIN m} = {m[p].id : p \in DOMAIN m}
    OBVIOUS
  <2> HIDE DEF f
  <2>2. IsFiniteSet({f[p] : p \in DOMAIN m})
    BY <1>1, <2>1, ImageFinite
  <2> QED BY <2>1, <2>2
<1>3. IsFiniteSet(UNION {{m[p].id, m[p].pool} : p \in DOMAIN m})
  <2> DEFINE f == [p \in DOMAIN m |-> {m[p].id, m[p].pool}]
             T == {{m[p].id, m[p].pool} : p \in DOMAIN m}
  <2>1. DOMAIN f = DOMAIN m /\ {f[p] : p \in DOMAIN m} = T
    OBVIOUS
  <2>2. IsFiniteSet(T)
    <3> HIDE DEF f, T
    <3>1. IsFiniteSet({f[p] : p \in DOMAIN m})
      BY <1>1, <2>1, ImageFinite
    <3> QED BY <2>1, <3>1
  <2>3. \A X \in T : IsFiniteSet(X)
    <3> TAKE X \in T
    <3>1. PICK a, b : X = {a, b}
      OBVIOUS
    <3> QED BY <3>1, PairFinite
  <2> HIDE DEF T
  <2>4. IsFiniteSet(UNION T)
    BY <2>2, <2>3, FS_UNION
  <2> QED BY <2>4 DEF T
<1> QED BY <1>1, <1>2, <1>3

LEMMA OfWorkers ==
    ASSUME NEW f, DOMAIN f = Workers
    PROVE  /\ IsFiniteSet({f[w] : w \in Workers})
           /\ (\A w \in Workers : IsFiniteSet(f[w])) => IsFiniteSet(UNION {f[w] : w \in Workers})
<1>1. IsFiniteSet(Workers)
  BY PairFinite DEF Workers
<1>2. IsFiniteSet({f[w] : w \in Workers})
  BY <1>1, ImageFinite
<1> DEFINE T == {f[w] : w \in Workers}
<1>3. (\A w \in Workers : IsFiniteSet(f[w])) => \A X \in T : IsFiniteSet(X)
  OBVIOUS
<1> HIDE DEF T
<1>4. (\A w \in Workers : IsFiniteSet(f[w])) => IsFiniteSet(UNION T)
  BY <1>2, <1>3, FS_UNION DEF T
<1> QED BY <1>2, <1>4 DEF T

LEMMA FreshBalancerIs ==
    ASSUME IInv
    PROVE  FreshBalancer \in Nat /\ FreshBalancer \notin DOMAIN lbs
<1> DEFINE H == IF held = Nil THEN {} ELSE {held.id}
           f == [w \in Workers |-> tasks[w].lb]
           L == {tasks[w].lb : w \in Workers}
           S == ((DOMAIN lbs) \union {service.id, seen.id} \union L \union H)
<1>1. IsFiniteSet(L)
  <2>1. DOMAIN f = Workers /\ {f[w] : w \in Workers} = L
    OBVIOUS
  <2> HIDE DEF f, L
  <2> QED BY <2>1, OfWorkers
<1>2. IsFiniteSet(H)
  BY FS_EmptySet, FS_Singleton
<1>3. IsFiniteSet({service.id, seen.id})
  BY PairFinite
<1>4. IsFiniteSet(DOMAIN lbs)
  BY DEF IInv, ApiOK
<1>5. FreshBalancer = Fresh(S \ {Nil})
  BY DEF FreshBalancer
<1> HIDE DEF H, L
<1>6. IsFiniteSet(S)
  BY <1>1, <1>2, <1>3, <1>4, FS_Union
<1>7. DOMAIN lbs \subseteq S /\ Nil \notin DOMAIN lbs
  BY NilAssumption DEF IInv, ApiOK
<1> HIDE DEF S
<1>8. IsFiniteSet(S \ {Nil})
  BY <1>6, FS_RemoveElement
<1> QED BY <1>5, <1>7, <1>8, FreshIs

LEMMA FreshPoolIs ==
    ASSUME IInv
    PROVE  /\ FreshPool \in Nat /\ FreshPool \notin DOMAIN pools
           /\ \A w \in Workers :
                /\ FreshPool # tasks[w].pool
                /\ \A p \in DOMAIN tasks[w].snap : FreshPool # tasks[w].snap[p].pool
<1> DEFINE f == [w \in Workers |-> PoolsInHand(w)]
           H == {PoolsInHand(w) : w \in Workers}
           g == [b \in DOMAIN lbs |-> {lbs[b][p].id : p \in DOMAIN lbs[b]}]
           N == {{lbs[b][p].id : p \in DOMAIN lbs[b]} : b \in DOMAIN lbs}
           S == (DOMAIN pools) \union PoolsNamed \union (UNION H)
<1>1. IsFiniteSet(UNION H)
  <2>1. \A w \in Workers : IsFiniteSet(PoolsInHand(w))
    <3> TAKE w \in Workers
    <3>1. IsPortMap(tasks[w].snap)
      BY DEF IInv, HandInv, InHand, TaskOK
    <3> DEFINE M == UNION {{tasks[w].snap[p].id, tasks[w].snap[p].pool} : p \in DOMAIN tasks[w].snap}
    <3>2. IsFiniteSet(M)
      BY <3>1, MapFinite
    <3>3. PoolsInHand(w) = M \union {tasks[w].pool}
      BY DEF PoolsInHand
    <3> HIDE DEF M
    <3> QED BY <3>2, <3>3, FS_AddElement
  <2>2. DOMAIN f = Workers /\ {f[w] : w \in Workers} = H
    OBVIOUS
  <2>3. \A w \in Workers : IsFiniteSet(f[w])
    BY <2>1
  <2> HIDE DEF f, H
  <2> QED BY <2>2, <2>3, OfWorkers
<1>2. IsFiniteSet(PoolsNamed)
  <2>1. DOMAIN g = DOMAIN lbs /\ {g[b] : b \in DOMAIN lbs} = N
    OBVIOUS
  <2>2. IsFiniteSet(N)
    <3> HIDE DEF g, N
    <3>1. IsFiniteSet({g[b] : b \in DOMAIN lbs})
      BY <2>1, ImageFinite DEF IInv, ApiOK
    <3> QED BY <2>1, <3>1
  <2>3. \A X \in N : IsFiniteSet(X)
    <3> TAKE X \in N
    <3>1. PICK b \in DOMAIN lbs : X = {lbs[b][p].id : p \in DOMAIN lbs[b]}
      OBVIOUS
    <3>2. IsPortMap(lbs[b])
      BY DEF IInv, ApiOK
    <3> QED BY <3>1, <3>2, MapFinite
  <2>4. PoolsNamed = UNION N
    BY DEF PoolsNamed
  <2> HIDE DEF N
  <2> QED BY <2>2, <2>3, <2>4, FS_UNION
<1>3. FreshPool = Fresh(S \ {Nil})
  BY DEF FreshPool
<1>4. \A w \in Workers :
        /\ tasks[w].pool \in S
        /\ \A p \in DOMAIN tasks[w].snap : tasks[w].snap[p].pool \in S
  BY DEF PoolsInHand
<1>5. IsFiniteSet(S)
  <2> HIDE DEF H
  <2> QED BY <1>1, <1>2, FS_Union DEF IInv, ApiOK
<1>6. DOMAIN pools \subseteq S /\ Nil \notin DOMAIN pools
  BY NilAssumption DEF IInv, ApiOK
<1> HIDE DEF S
<1>7. IsFiniteSet(S \ {Nil})
  BY <1>5, FS_RemoveElement
<1>8. FreshPool \in Nat /\ FreshPool \notin S \ {Nil} /\ FreshPool # Nil
  BY <1>3, <1>7, FreshIs, NilAssumption
<1> QED BY <1>4, <1>6, <1>8

LEMMA FreshOriginIs ==
    ASSUME IInv, NEW q \in DOMAIN pools, NEW n \in Nodes
    PROVE  /\ FreshOrigin(q, n) \in Origins
           /\ FreshOrigin(q, n)[1] = n
           /\ FreshOrigin(q, n) \notin pools[q]
           /\ \A w \in Workers : FreshOrigin(q, n) \notin tasks[w].old
<1> DEFINE f == [w \in Workers |-> tasks[w].old]
           H == {tasks[w].old : w \in Workers}
           A == pools[q] \union (UNION H)
           O == {o \in A : o[1] = n}
           S == {o[2] : o \in O}
<1>1. IsFiniteSet(UNION H)
  <2>1. DOMAIN f = Workers /\ {f[w] : w \in Workers} = H /\ \A w \in Workers : IsFiniteSet(f[w])
    BY DEF IInv, HandInv, InHand
  <2> HIDE DEF f, H
  <2> QED BY <2>1, OfWorkers
<1>2. IsFiniteSet(A)
  <2> HIDE DEF H
  <2> QED BY <1>1, FS_Union DEF IInv, ApiOK
<1>3. IsFiniteSet(O)
  <2> HIDE DEF A
  <2>1. O \in SUBSET A
    OBVIOUS
  <2> QED BY <1>2, <2>1, FS_Subset
<1>4. IsFiniteSet(S)
  <2> DEFINE g == [o \in O |-> o[2]]
  <2>1. DOMAIN g = O /\ {g[o] : o \in O} = S
    OBVIOUS
  <2> HIDE DEF O, S, g
  <2>2. IsFiniteSet({g[o] : o \in O})
    BY <1>3, <2>1, ImageFinite
  <2> QED BY <2>1, <2>2
<1>5. FreshOrigin(q, n) = <<n, Fresh(S)>>
  BY DEF FreshOrigin
<1>6. Fresh(S) \in Nat /\ Fresh(S) \notin S
  <2> HIDE DEF S
  <2> QED BY <1>4, FreshIs
<1>7. <<n, Fresh(S)>> \notin A
  <2> SUFFICES ASSUME <<n, Fresh(S)>> \in A PROVE FALSE
    OBVIOUS
  <2> DEFINE x == <<n, Fresh(S)>>
  <2>1. x[1] = n /\ x[2] = Fresh(S)
    OBVIOUS
  <2> HIDE DEF x
  <2>2. x \in O
    <3> HIDE DEF A
    <3> QED BY <2>1 DEF x
  <2> HIDE DEF O
  <2> QED BY <1>6, <2>1, <2>2
<1>8. pools[q] \subseteq A /\ \A w \in Workers : tasks[w].old \subseteq A
  OBVIOUS
<1> HIDE DEF A, S
<1> QED BY <1>5, <1>6, <1>7, <1>8 DEF Origins

-----------------------------------------------------------------------------
(* What the API can do: its resources stay in order, and a new pool new.     *)

LEMMA BalancerMade ==
    ASSUME NEW L, NEW P, ApiOK(L, P), NEW b \in Nat, b \notin DOMAIN L
    PROVE  /\ ApiOK(Plus(L, b, <<>>), P)
           /\ \A t : New(L, P, t) => New(Plus(L, b, <<>>), P, t)
<1> DEFINE M == Plus(L, b, <<>>)
<1>1. DOMAIN M = (DOMAIN L) \union {b} /\ M[b] = <<>> /\ \A c \in DOMAIN L : c # b => M[c] = L[c]
  BY DEF Plus
<1> HIDE DEF M
<1>2. IsFiniteSet(DOMAIN M)
  BY <1>1, FS_AddElement DEF ApiOK
<1>3. \A c \in DOMAIN M : c = b \/ (c \in DOMAIN L /\ M[c] = L[c])
  BY <1>1
<1>4. IsPortMap(M[b]) /\ DOMAIN M[b] = {}
  BY <1>1, NoPorts
<1>5. ApiOK(M, P)
  BY <1>1, <1>2, <1>3, <1>4 DEF ApiOK
<1>6. \A q : Unnamed(L, q) => Unnamed(M, q)
  BY <1>3, <1>4 DEF Unnamed
<1> QED BY <1>5, <1>6 DEF New, M

LEMMA OriginsChanged ==
    ASSUME NEW L, NEW P, ApiOK(L, P), NEW q \in DOMAIN P, NEW O \in SUBSET Origins, IsFiniteSet(O)
    PROVE  /\ ApiOK(L, [P EXCEPT ![q] = O])
           /\ \A t : New(L, P, t) => New(L, [P EXCEPT ![q] = O], t)
BY DEF ApiOK, New

Stripped(L, q) == [b \in DOMAIN L |-> [p \in DOMAIN L[b] |->
    IF L[b][p].pool = q THEN [L[b][p] EXCEPT !.pool = Nil] ELSE L[b][p]]]

Strips(L, q, M) ==
    /\ DOMAIN M = DOMAIN L
    /\ \A b \in DOMAIN L :
         /\ DOMAIN M[b] = DOMAIN L[b]
         /\ IsPortMap(M[b])
         /\ \A p \in DOMAIN L[b] :
              /\ L[b][p].pool # q => M[b][p] = L[b][p]
              /\ L[b][p].pool = q => M[b][p].pool = Nil /\ M[b][p].id = L[b][p].id

LEMMA StrippedIs ==
    ASSUME NEW L, NEW P, ApiOK(L, P), NEW q
    PROVE  Strips(L, q, Stripped(L, q))
<1>1. DOMAIN Stripped(L, q) = DOMAIN L
  BY DEF Stripped
<1> SUFFICES ASSUME NEW b \in DOMAIN L
             PROVE  /\ DOMAIN Stripped(L, q)[b] = DOMAIN L[b]
                    /\ IsPortMap(Stripped(L, q)[b])
                    /\ \A p \in DOMAIN L[b] :
                         /\ L[b][p].pool # q => Stripped(L, q)[b][p] = L[b][p]
                         /\ L[b][p].pool = q =>
                              Stripped(L, q)[b][p].pool = Nil /\ Stripped(L, q)[b][p].id = L[b][p].id
  BY <1>1 DEF Strips
<1> DEFINE m == [p \in DOMAIN L[b] |-> IF L[b][p].pool = q THEN [L[b][p] EXCEPT !.pool = Nil] ELSE L[b][p]]
<1>2. Stripped(L, q)[b] = m
  BY DEF Stripped
<1>3. IsPortMap(L[b]) /\ \A p \in DOMAIN L[b] : L[b][p] \in PortRecords
  BY DEF ApiOK, IsPortMap
<1>4. \A p \in DOMAIN L[b] :
        /\ [L[b][p] EXCEPT !.pool = Nil] \in PortRecords /\ [L[b][p] EXCEPT !.pool = Nil].pool = Nil
        /\ [L[b][p] EXCEPT !.pool = Nil].id = L[b][p].id
  BY <1>3 DEF PortRecords, IDs
<1>5. /\ DOMAIN m = DOMAIN L[b]
      /\ \A p \in DOMAIN L[b] : /\ L[b][p].pool # q => m[p] = L[b][p]
                                /\ L[b][p].pool = q => m[p] = [L[b][p] EXCEPT !.pool = Nil]
      /\ m = [p \in DOMAIN m |-> m[p]]
  OBVIOUS
<1> HIDE DEF m
<1>6. IsPortMap(m)
  BY <1>3, <1>4, <1>5 DEF IsPortMap
<1> QED BY <1>2, <1>4, <1>5, <1>6

LEMMA PoolGone ==
    ASSUME NEW L, NEW P, ApiOK(L, P), NEW q \in DOMAIN P
    PROVE  /\ ApiOK(Stripped(L, q), Without(P, q))
           /\ \A t : New(L, P, t) /\ (t.port # Nil => t.pool # q) => New(Stripped(L, q), Without(P, q), t)
<1> DEFINE M == Stripped(L, q)
           R == Without(P, q)
<1>1. DOMAIN R = (DOMAIN P) \ {q} /\ \A y \in DOMAIN P : y # q => R[y] = P[y]
  BY WithoutIs
<1>2. Strips(L, q, M)
  BY StrippedIs
<1> HIDE DEF M, R
<1>3. IsFiniteSet(DOMAIN R)
  BY <1>1, FS_RemoveElement DEF ApiOK
<1>4. q # Nil
  BY NilAssumption DEF ApiOK
<1>5. ApiOK(M, R)
  <2>1. \A b \in DOMAIN M : \A p \in DOMAIN M[b] : M[b][p].pool \in (DOMAIN R) \union {Nil}
    BY <1>1, <1>2 DEF ApiOK, Strips
  <2>2. \A y \in DOMAIN R : R[y] \subseteq Origins /\ IsFiniteSet(R[y])
    BY <1>1 DEF ApiOK
  <2> QED BY <1>1, <1>2, <1>3, <2>1, <2>2 DEF ApiOK, Strips
<1>6. ASSUME NEW t, New(L, P, t), t.port # Nil => t.pool # q
      PROVE  New(M, R, t)
  <2> SUFFICES ASSUME t.port # Nil PROVE t.pool \in DOMAIN R /\ Unnamed(M, t.pool)
    BY DEF New
  <2>1. t.pool \in DOMAIN P /\ t.pool # Nil /\ Unnamed(L, t.pool)
    BY <1>6, NilAssumption DEF New, ApiOK
  <2> QED BY <1>1, <1>2, <1>6, <2>1 DEF Unnamed, Strips
<1> QED BY <1>5, <1>6 DEF M, R

LEMMA PortGone ==
    ASSUME NEW L, NEW P, ApiOK(L, P), NEW b \in DOMAIN L, NEW p
    PROVE  /\ ApiOK([L EXCEPT ![b] = Without(L[b], p)], P)
           /\ \A t : New(L, P, t) => New([L EXCEPT ![b] = Without(L[b], p)], P, t)
<1> DEFINE m == Without(L[b], p)
           M == [L EXCEPT ![b] = m]
<1>1. DOMAIN m = (DOMAIN L[b]) \ {p} /\ \A r \in DOMAIN L[b] : r # p => m[r] = L[b][r]
  BY WithoutIs
<1>2. IsPortMap(m)
  BY FewerPorts DEF ApiOK
<1> HIDE DEF m
<1>3. DOMAIN M = DOMAIN L /\ M[b] = m /\ \A c \in DOMAIN L : c # b => M[c] = L[c]
  OBVIOUS
<1> HIDE DEF M
<1>4. \A c \in DOMAIN M : \A r \in DOMAIN M[c] : r \in DOMAIN L[c] /\ M[c][r] = L[c][r]
  BY <1>1, <1>3
<1>5. ApiOK(M, P)
  BY <1>2, <1>3, <1>4 DEF ApiOK
<1>6. \A q : Unnamed(L, q) => Unnamed(M, q)
  BY <1>3, <1>4 DEF Unnamed
<1> QED BY <1>5, <1>6 DEF New, M, m

LEMMA PoolMade ==
    ASSUME NEW L, NEW P, ApiOK(L, P), NEW q \in Nat, q \notin DOMAIN P
    PROVE  /\ ApiOK(L, Plus(P, q, {}))
           /\ \A t : New(L, P, t) => New(L, Plus(P, q, {}), t)
           /\ Unnamed(L, q)
<1> DEFINE R == Plus(P, q, {})
<1>1. DOMAIN R = (DOMAIN P) \union {q} /\ R[q] = {} /\ \A y \in DOMAIN P : y # q => R[y] = P[y]
  BY DEF Plus
<1> HIDE DEF R
<1>2. IsFiniteSet(DOMAIN R) /\ IsFiniteSet({})
  BY <1>1, FS_AddElement, FS_EmptySet DEF ApiOK
<1>3. \A y \in DOMAIN R : y = q \/ (y \in DOMAIN P /\ R[y] = P[y])
  BY <1>1
<1>4. ApiOK(L, R)
  BY <1>1, <1>2, <1>3 DEF ApiOK
<1>5. Unnamed(L, q)
  BY NilAssumption DEF Unnamed, ApiOK
<1> QED BY <1>1, <1>4, <1>5 DEF R, New

LEMMA PortMade ==
    ASSUME NEW L, NEW P, ApiOK(L, P), NEW b \in DOMAIN L, NEW p \in Ports, NEW q \in DOMAIN P
    PROVE  LET M == [L EXCEPT ![b] = Plus(L[b], p, [id |-> q, pool |-> q])]
           IN  /\ ApiOK(M, P)
               /\ \A t : New(L, P, t) /\ (t.port # Nil => t.pool # q) => New(M, P, t)
<1> DEFINE r == [id |-> q, pool |-> q]
           m == Plus(L[b], p, r)
           M == [L EXCEPT ![b] = m]
<1>1. r \in PortRecords /\ r.pool = q
  BY DEF PortRecords, IDs, ApiOK
<1> HIDE DEF r
<1>2. IsPortMap(m)
  BY <1>1, MorePorts DEF ApiOK
<1>3. DOMAIN m = (DOMAIN L[b]) \union {p} /\ m[p] = r /\ \A y \in DOMAIN L[b] : y # p => m[y] = L[b][y]
  BY DEF Plus
<1> HIDE DEF m
<1>4. DOMAIN M = DOMAIN L /\ M[b] = m /\ \A c \in DOMAIN L : c # b => M[c] = L[c]
  OBVIOUS
<1> HIDE DEF M
<1>5. \A c \in DOMAIN M : \A y \in DOMAIN M[c] : M[c][y].pool = q \/ (y \in DOMAIN L[c] /\ M[c][y] = L[c][y])
  BY <1>1, <1>3, <1>4
<1>6. ApiOK(M, P)
  <2>1. \A c \in DOMAIN M : IsPortMap(M[c])
    BY <1>2, <1>4 DEF ApiOK
  <2>2. \A c \in DOMAIN M : \A y \in DOMAIN M[c] : M[c][y].pool \in (DOMAIN P) \union {Nil}
    BY <1>4, <1>5 DEF ApiOK
  <2> QED BY <1>4, <2>1, <2>2 DEF ApiOK
<1>7. \A y : Unnamed(L, y) /\ y # q => Unnamed(M, y)
  BY <1>4, <1>5 DEF Unnamed
<1> QED BY <1>6, <1>7 DEF New, M, m, r

LEMMA BalancerGone ==
    ASSUME NEW L, NEW P, ApiOK(L, P), NEW b
    PROVE  /\ ApiOK(Without(L, b), P)
           /\ \A t : New(L, P, t) => New(Without(L, b), P, t)
<1> DEFINE M == Without(L, b)
<1>1. DOMAIN M = (DOMAIN L) \ {b} /\ \A c \in DOMAIN L : c # b => M[c] = L[c]
  BY WithoutIs
<1> HIDE DEF M
<1>2. IsFiniteSet(DOMAIN M)
  BY <1>1, FS_RemoveElement DEF ApiOK
<1>3. ApiOK(M, P)
  BY <1>1, <1>2 DEF ApiOK
<1>4. \A q : Unnamed(L, q) => Unnamed(M, q)
  BY <1>1 DEF Unnamed
<1> QED BY <1>3, <1>4 DEF New, M

-----------------------------------------------------------------------------
(* What comes of a call: it is in vain; it is heard but the worker learns of *)
(* an error only; or the worker goes on.                                     *)

Fault == faults < MaxFaults /\ faults' = faults + 1

Missed(w, exists) ==
    /\ UNCHANGED <<api, k8s, changes>> /\ Fail(w)
    /\ Fault \/ (~exists /\ UNCHANGED faults)
Cut(w) == UNCHANGED <<k8s, changes>> /\ Fail(w) /\ Fault
Heard(w, u) == UNCHANGED <<k8s, changes, todo>> /\ Step(w, u) /\ (Fault \/ UNCHANGED faults)

\* A reply in order is no error, and all others tell whether the API obeyed.
LEMMA Answers ==
    ASSUME NEW op, NEW reply \in {Good, NotFound} \union Unserved \union Unheard
    PROVE  /\ reply = Good => reply.obeyed /\ Execute(op, "json", reply) # "error"
           /\ reply = NotFound => reply # Good /\ ~reply.obeyed /\ Execute(op, "json", reply) = "error"
           /\ reply \in Unserved =>
                reply \notin {Good, NotFound} /\ ~reply.obeyed /\ Execute(op, "json", reply) = "error"
           /\ reply \in Unheard => reply \notin {Good, NotFound} /\ reply.obeyed
<1>1. ASSUME reply = Good PROVE reply.obeyed /\ Execute(op, "json", reply) # "error"
  BY <1>1 DEF Good, Reply, Execute, Prepared, Token, Lost, Returned, Decode
<1>2. ASSUME reply = NotFound
      PROVE  reply # Good /\ ~reply.obeyed /\ Execute(op, "json", reply) = "error"
  BY <1>2 DEF NotFound, Good, Reply, Execute, Prepared, Token, Lost, Returned, Decode
<1>3. ASSUME reply \in Unserved
      PROVE  reply \notin {Good, NotFound} /\ ~reply.obeyed /\ Execute(op, "json", reply) = "error"
  BY <1>3 DEF Unserved, NotFound, Good, Reply, Execute, Prepared, Token, Lost, Returned, Decode
<1>4. ASSUME reply \in Unheard PROVE reply \notin {Good, NotFound} /\ reply.obeyed
  BY <1>4 DEF Unheard, NotFound, Good, Reply
<1> QED BY <1>1, <1>2, <1>3, <1>4

LEMMA Outcomes ==
    ASSUME NEW op, NEW e \in BOOLEAN, NEW reply \in Replies(e), faults \in Int,
           faults' = faults + (IF reply \in {Good, NotFound} THEN 0 ELSE 1)
    PROVE  \/ /\ ~reply.obeyed /\ Execute(op, "json", reply) = "error"
              /\ Fault \/ (~e /\ UNCHANGED faults)
           \/ reply.obeyed /\ e /\ Execute(op, "json", reply) = "error" /\ Fault
           \/ /\ reply.obeyed /\ e /\ Execute(op, "json", reply) # "error"
              /\ Fault \/ UNCHANGED faults
<1>1. \/ reply = Good /\ e
      \/ reply = NotFound /\ ~e
      \/ reply \in Unserved /\ faults < MaxFaults
      \/ reply \in Unheard /\ e /\ faults < MaxFaults
  BY DEF Replies
<1>2. reply \in {Good, NotFound} \union Unserved \union Unheard
  BY <1>1
<1>3. CASE reply = Good /\ e
  <2>1. UNCHANGED faults
    BY <1>3
  <2> QED BY <1>2, <1>3, <2>1, Answers
<1>4. CASE reply = NotFound /\ ~e
  <2>1. UNCHANGED faults
    BY <1>4
  <2> QED BY <1>2, <1>4, <2>1, Answers
<1>5. CASE reply \in Unserved /\ faults < MaxFaults
  <2>1. /\ reply \notin {Good, NotFound} /\ ~reply.obeyed /\ Execute(op, "json", reply) = "error"
    BY <1>2, <1>5, Answers
  <2>2. Fault
    BY <1>5, <2>1 DEF Fault
  <2> QED BY <2>1, <2>2
<1>6. CASE reply \in Unheard /\ e /\ faults < MaxFaults
  <2>1. reply \notin {Good, NotFound} /\ reply.obeyed
    BY <1>2, <1>6, Answers
  <2>2. Fault
    BY <1>6, <2>1 DEF Fault
  <2> QED BY <1>6, <2>1, <2>2
<1> QED BY <1>1, <1>3, <1>4, <1>5, <1>6

LEMMA CreateBalancerDoes ==
    ASSUME NEW w \in Workers, CreateBalancer(w), faults \in Int
    PROVE  /\ tasks[w].pc = "create"
           /\ \/ Missed(w, TRUE)
              \/ /\ lbs' = Plus(lbs, FreshBalancer, <<>>) /\ pools' = pools
                 /\ Cut(w) \/ Heard(w, [tasks[w] EXCEPT !.pc = "get", !.lb = FreshBalancer])
<1> DEFINE op == CreateLoadBalancer(Project)
           u == [tasks[w] EXCEPT !.pc = "get", !.lb = FreshBalancer]
           E == lbs' = Plus(lbs, FreshBalancer, <<>>) /\ pools' = pools
<1>1. tasks[w].pc = "create"
  BY DEF CreateBalancer, At
<1>2. PICK reply \in Replies(TRUE) :
        /\ IF reply.obeyed THEN E ELSE UNCHANGED api
        /\ IF Execute(op, "json", reply) = "error" THEN Fail(w) ELSE Step(w, u) /\ UNCHANGED todo
        /\ faults' = faults + (IF reply \in {Good, NotFound} THEN 0 ELSE 1)
        /\ UNCHANGED <<k8s, changes>>
  BY DEF CreateBalancer, Call
<1> HIDE DEF op, u, E
<1>3. Missed(w, TRUE) \/ (E /\ (Cut(w) \/ Heard(w, u)))
  BY <1>2, Outcomes DEF Missed, Cut, Heard
<1> QED BY <1>1, <1>3 DEF u, E

LEMMA ReadBalancerDoes ==
    ASSUME NEW w \in Workers, ReadBalancer(w), faults \in Int
    PROVE  /\ tasks[w].pc = "get"
           /\ \/ Missed(w, tasks[w].lb \in DOMAIN lbs)
              \/ /\ tasks[w].lb \in DOMAIN lbs
                 /\ UNCHANGED api
                 /\ Cut(w) \/ Heard(w, [tasks[w] EXCEPT !.pc = "ports", !.snap = lbs[tasks[w].lb], !.want = tasks[w].ports])
<1> DEFINE op == GetLoadBalancer(tasks[w].lb)
           u == [tasks[w] EXCEPT !.pc = "ports", !.snap = lbs[tasks[w].lb], !.want = tasks[w].ports]
           e == tasks[w].lb \in DOMAIN lbs
           E == UNCHANGED api
<1>1. tasks[w].pc = "get"
  BY DEF ReadBalancer, At
<1>2. PICK reply \in Replies(e) :
        /\ IF reply.obeyed THEN E ELSE UNCHANGED api
        /\ IF Execute(op, "json", reply) = "error" THEN Fail(w) ELSE Step(w, u) /\ UNCHANGED todo
        /\ faults' = faults + (IF reply \in {Good, NotFound} THEN 0 ELSE 1)
        /\ UNCHANGED <<k8s, changes>>
  BY DEF ReadBalancer, Call
<1>3. e \in BOOLEAN
  OBVIOUS
<1> HIDE DEF op, u, e, E
<1>4. Missed(w, e) \/ (e /\ E /\ (Cut(w) \/ Heard(w, u)))
  BY <1>2, <1>3, Outcomes DEF Missed, Cut, Heard
<1> QED BY <1>1, <1>4 DEF u, e, E

LEMMA AddOriginDoes ==
    ASSUME NEW w \in Workers, AddOrigin(w), faults \in Int
    PROVE  /\ tasks[w].pc = "origins" /\ tasks[w].left # {}
           /\ \/ Missed(w, tasks[w].pool \in DOMAIN pools)
              \/ /\ tasks[w].pool \in DOMAIN pools
                 /\ pools' = [pools EXCEPT ![tasks[w].pool] = @ \union {FreshOrigin(tasks[w].pool, First(tasks[w].left))}] /\ lbs' = lbs
                 /\ Cut(w) \/ Heard(w, AfterOrigins([tasks[w] EXCEPT !.left = @ \ {First(tasks[w].left)}]))
<1> DEFINE op == CreateLoadBalancerPoolOrigin(tasks[w].pool)
           u == AfterOrigins([tasks[w] EXCEPT !.left = @ \ {First(tasks[w].left)}])
           e == tasks[w].pool \in DOMAIN pools
           E == pools' = [pools EXCEPT ![tasks[w].pool] = @ \union {FreshOrigin(tasks[w].pool, First(tasks[w].left))}] /\ lbs' = lbs
<1>1. tasks[w].pc = "origins" /\ tasks[w].left # {}
  BY DEF AddOrigin, At
<1>2. PICK reply \in Replies(e) :
        /\ IF reply.obeyed THEN E ELSE UNCHANGED api
        /\ IF Execute(op, "json", reply) = "error" THEN Fail(w) ELSE Step(w, u) /\ UNCHANGED todo
        /\ faults' = faults + (IF reply \in {Good, NotFound} THEN 0 ELSE 1)
        /\ UNCHANGED <<k8s, changes>>
  BY DEF AddOrigin, Call
<1>3. e \in BOOLEAN
  OBVIOUS
<1> HIDE DEF op, u, e, E
<1>4. Missed(w, e) \/ (e /\ E /\ (Cut(w) \/ Heard(w, u)))
  BY <1>2, <1>3, Outcomes DEF Missed, Cut, Heard
<1> QED BY <1>1, <1>4 DEF u, e, E

LEMMA DropOriginDoes ==
    ASSUME NEW w \in Workers, DropOrigin(w), faults \in Int
    PROVE  /\ tasks[w].pc = "origins" /\ tasks[w].left = {} /\ tasks[w].old # {}
           /\ \/ Missed(w, tasks[w].pool \in DOMAIN pools /\ First(tasks[w].old) \in pools[tasks[w].pool])
              \/ /\ tasks[w].pool \in DOMAIN pools /\ First(tasks[w].old) \in pools[tasks[w].pool]
                 /\ pools' = [pools EXCEPT ![tasks[w].pool] = @ \ {First(tasks[w].old)}] /\ lbs' = lbs
                 /\ Cut(w) \/ Heard(w, AfterOrigins([tasks[w] EXCEPT !.old = @ \ {First(tasks[w].old)}]))
<1> DEFINE op == DeleteLoadBalancerOrigin(First(tasks[w].old))
           u == AfterOrigins([tasks[w] EXCEPT !.old = @ \ {First(tasks[w].old)}])
           e == tasks[w].pool \in DOMAIN pools /\ First(tasks[w].old) \in pools[tasks[w].pool]
           E == pools' = [pools EXCEPT ![tasks[w].pool] = @ \ {First(tasks[w].old)}] /\ lbs' = lbs
<1>1. tasks[w].pc = "origins" /\ tasks[w].left = {} /\ tasks[w].old # {}
  BY DEF DropOrigin, At
<1>2. PICK reply \in Replies(e) :
        /\ IF reply.obeyed THEN E ELSE UNCHANGED api
        /\ IF Execute(op, "json", reply) = "error" THEN Fail(w) ELSE Step(w, u) /\ UNCHANGED todo
        /\ faults' = faults + (IF reply \in {Good, NotFound} THEN 0 ELSE 1)
        /\ UNCHANGED <<k8s, changes>>
  BY DEF DropOrigin, Call
<1>3. e \in BOOLEAN
  OBVIOUS
<1> HIDE DEF op, u, e, E
<1>4. Missed(w, e) \/ (e /\ E /\ (Cut(w) \/ Heard(w, u)))
  BY <1>2, <1>3, Outcomes DEF Missed, Cut, Heard
<1> QED BY <1>1, <1>4 DEF u, e, E

LEMMA DropPoolDoes ==
    ASSUME NEW w \in Workers, DropPool(w), faults \in Int
    PROVE  /\ tasks[w].pc = "ports"
           /\ \E p \in (DOMAIN tasks[w].snap) \ tasks[w].ports :
                /\ tasks[w].snap[p].pool # Nil
                /\ \/ Missed(w, tasks[w].snap[p].pool \in DOMAIN pools)
                   \/ /\ tasks[w].snap[p].pool \in DOMAIN pools
                      /\ PoolDeleted(tasks[w].snap[p].pool)
                      /\ Cut(w) \/ Heard(w, [tasks[w] EXCEPT !.snap[p].pool = Nil])
<1> DEFINE op(p) == DeleteLoadBalancerPool(tasks[w].snap[p].pool)
           u(p) == [tasks[w] EXCEPT !.snap[p].pool = Nil]
           e(p) == tasks[w].snap[p].pool \in DOMAIN pools
           E(p) == PoolDeleted(tasks[w].snap[p].pool)
<1>1. tasks[w].pc = "ports"
  BY DEF DropPool, At
<1>2. PICK p \in (DOMAIN tasks[w].snap) \ tasks[w].ports :
        /\ tasks[w].snap[p].pool # Nil
        /\ \E reply \in Replies(e(p)) :
             /\ IF reply.obeyed THEN E(p) ELSE UNCHANGED api
             /\ IF Execute(op(p), "json", reply) = "error" THEN Fail(w) ELSE Step(w, u(p)) /\ UNCHANGED todo
             /\ faults' = faults + (IF reply \in {Good, NotFound} THEN 0 ELSE 1)
             /\ UNCHANGED <<k8s, changes>>
  BY DEF DropPool, Call
<1>3. PICK reply \in Replies(e(p)) :
        /\ IF reply.obeyed THEN E(p) ELSE UNCHANGED api
        /\ IF Execute(op(p), "json", reply) = "error" THEN Fail(w) ELSE Step(w, u(p)) /\ UNCHANGED todo
        /\ faults' = faults + (IF reply \in {Good, NotFound} THEN 0 ELSE 1)
        /\ UNCHANGED <<k8s, changes>>
  BY <1>2
<1>4. e(p) \in BOOLEAN
  OBVIOUS
<1> HIDE DEF op, u, e, E
<1>5. Missed(w, e(p)) \/ (e(p) /\ E(p) /\ (Cut(w) \/ Heard(w, u(p))))
  BY <1>3, <1>4, Outcomes DEF Missed, Cut, Heard
<1> QED BY <1>1, <1>2, <1>5 DEF u, e, E

LEMMA DropPortDoes ==
    ASSUME NEW w \in Workers, DropPort(w), faults \in Int
    PROVE  /\ tasks[w].pc = "ports"
           /\ \E p \in (DOMAIN tasks[w].snap) \ tasks[w].ports :
                /\ tasks[w].snap[p].pool = Nil
                /\ \/ Missed(w, tasks[w].lb \in DOMAIN lbs /\ p \in DOMAIN lbs[tasks[w].lb] /\ lbs[tasks[w].lb][p].id = tasks[w].snap[p].id)
                   \/ /\ tasks[w].lb \in DOMAIN lbs /\ p \in DOMAIN lbs[tasks[w].lb] /\ lbs[tasks[w].lb][p].id = tasks[w].snap[p].id
                      /\ lbs' = [lbs EXCEPT ![tasks[w].lb] = Without(@, p)] /\ pools' = pools
                      /\ Cut(w) \/ Heard(w, [tasks[w] EXCEPT !.snap = Without(tasks[w].snap, p)])
<1> DEFINE op(p) == DeleteLoadBalancerPort(tasks[w].snap[p].id)
           u(p) == [tasks[w] EXCEPT !.snap = Without(tasks[w].snap, p)]
           e(p) == tasks[w].lb \in DOMAIN lbs /\ p \in DOMAIN lbs[tasks[w].lb] /\ lbs[tasks[w].lb][p].id = tasks[w].snap[p].id
           E(p) == lbs' = [lbs EXCEPT ![tasks[w].lb] = Without(@, p)] /\ pools' = pools
<1>1. tasks[w].pc = "ports"
  BY DEF DropPort, At
<1>2. PICK p \in (DOMAIN tasks[w].snap) \ tasks[w].ports :
        /\ tasks[w].snap[p].pool = Nil
        /\ \E reply \in Replies(e(p)) :
             /\ IF reply.obeyed THEN E(p) ELSE UNCHANGED api
             /\ IF Execute(op(p), "json", reply) = "error" THEN Fail(w) ELSE Step(w, u(p)) /\ UNCHANGED todo
             /\ faults' = faults + (IF reply \in {Good, NotFound} THEN 0 ELSE 1)
             /\ UNCHANGED <<k8s, changes>>
  BY DEF DropPort, Call
<1>3. PICK reply \in Replies(e(p)) :
        /\ IF reply.obeyed THEN E(p) ELSE UNCHANGED api
        /\ IF Execute(op(p), "json", reply) = "error" THEN Fail(w) ELSE Step(w, u(p)) /\ UNCHANGED todo
        /\ faults' = faults + (IF reply \in {Good, NotFound} THEN 0 ELSE 1)
        /\ UNCHANGED <<k8s, changes>>
  BY <1>2
<1>4. e(p) \in BOOLEAN
  OBVIOUS
<1> HIDE DEF op, u, e, E
<1>5. Missed(w, e(p)) \/ (e(p) /\ E(p) /\ (Cut(w) \/ Heard(w, u(p))))
  BY <1>3, <1>4, Outcomes DEF Missed, Cut, Heard
<1> QED BY <1>1, <1>2, <1>5 DEF u, e, E

LEMMA AddPoolDoes ==
    ASSUME NEW w \in Workers, AddPool(w), faults \in Int
    PROVE  /\ tasks[w].pc = "ports" /\ DOMAIN tasks[w].snap = {}
           /\ \E p \in tasks[w].want :
                \/ Missed(w, TRUE)
                \/ /\ pools' = Plus(pools, FreshPool, {}) /\ lbs' = lbs
                   /\ Cut(w) \/ Heard(w, AfterOrigins([tasks[w] EXCEPT !.pc = "origins", !.pool = FreshPool, !.port = p, !.left = tasks[w].nodes]))
<1> DEFINE op(p) == CreatePool(Project)
           u(p) == AfterOrigins([tasks[w] EXCEPT !.pc = "origins", !.pool = FreshPool, !.port = p, !.left = tasks[w].nodes])
           e(p) == TRUE
           E(p) == pools' = Plus(pools, FreshPool, {}) /\ lbs' = lbs
<1>1. tasks[w].pc = "ports" /\ DOMAIN tasks[w].snap = {}
  BY DEF AddPool, At
<1>2. PICK p \in tasks[w].want :
        /\ \E reply \in Replies(e(p)) :
             /\ IF reply.obeyed THEN E(p) ELSE UNCHANGED api
             /\ IF Execute(op(p), "json", reply) = "error" THEN Fail(w) ELSE Step(w, u(p)) /\ UNCHANGED todo
             /\ faults' = faults + (IF reply \in {Good, NotFound} THEN 0 ELSE 1)
             /\ UNCHANGED <<k8s, changes>>
  BY DEF AddPool, Call, NewPorts
<1>3. PICK reply \in Replies(e(p)) :
        /\ IF reply.obeyed THEN E(p) ELSE UNCHANGED api
        /\ IF Execute(op(p), "json", reply) = "error" THEN Fail(w) ELSE Step(w, u(p)) /\ UNCHANGED todo
        /\ faults' = faults + (IF reply \in {Good, NotFound} THEN 0 ELSE 1)
        /\ UNCHANGED <<k8s, changes>>
  BY <1>2
<1>4. e(p) \in BOOLEAN
  OBVIOUS
<1> HIDE DEF op, u, e, E
<1>5. Missed(w, e(p)) \/ (e(p) /\ E(p) /\ (Cut(w) \/ Heard(w, u(p))))
  BY <1>3, <1>4, Outcomes DEF Missed, Cut, Heard
<1> QED BY <1>1, <1>2, <1>5 DEF u, e, E

LEMMA AddPortDoes ==
    ASSUME NEW w \in Workers, AddPort(w), faults \in Int
    PROVE  /\ tasks[w].pc = "port"
           /\ \/ Missed(w, tasks[w].lb \in DOMAIN lbs /\ tasks[w].port \notin DOMAIN lbs[tasks[w].lb])
              \/ /\ tasks[w].lb \in DOMAIN lbs /\ tasks[w].port \notin DOMAIN lbs[tasks[w].lb]
                 /\ lbs' = [lbs EXCEPT ![tasks[w].lb] = Plus(@, tasks[w].port, [id |-> tasks[w].pool, pool |-> tasks[w].pool])] /\ pools' = pools
                 /\ Cut(w) \/ Heard(w, [tasks[w] EXCEPT !.pc = "ports", !.pool = Nil, !.port = Nil, !.want = @ \ {tasks[w].port}])
<1> DEFINE op == CreateLoadBalancerPort(tasks[w].lb)
           u == [tasks[w] EXCEPT !.pc = "ports", !.pool = Nil, !.port = Nil, !.want = @ \ {tasks[w].port}]
           e == tasks[w].lb \in DOMAIN lbs /\ tasks[w].port \notin DOMAIN lbs[tasks[w].lb]
           E == lbs' = [lbs EXCEPT ![tasks[w].lb] = Plus(@, tasks[w].port, [id |-> tasks[w].pool, pool |-> tasks[w].pool])] /\ pools' = pools
<1>1. tasks[w].pc = "port"
  BY DEF AddPort, At
<1>2. PICK reply \in Replies(e) :
        /\ IF reply.obeyed THEN E ELSE UNCHANGED api
        /\ IF Execute(op, "json", reply) = "error" THEN Fail(w) ELSE Step(w, u) /\ UNCHANGED todo
        /\ faults' = faults + (IF reply \in {Good, NotFound} THEN 0 ELSE 1)
        /\ UNCHANGED <<k8s, changes>>
  BY DEF AddPort, Call
<1>3. e \in BOOLEAN
  OBVIOUS
<1> HIDE DEF op, u, e, E
<1>4. Missed(w, e) \/ (e /\ E /\ (Cut(w) \/ Heard(w, u)))
  BY <1>2, <1>3, Outcomes DEF Missed, Cut, Heard
<1> QED BY <1>1, <1>4 DEF u, e, E

LEMMA ReadResultDoes ==
    ASSUME NEW w \in Workers, ReadResult(w), faults \in Int
    PROVE  /\ tasks[w].pc = "ports" /\ DOMAIN tasks[w].snap = {} /\ tasks[w].want = {}
           /\ \/ Missed(w, tasks[w].lb \in DOMAIN lbs)
              \/ /\ tasks[w].lb \in DOMAIN lbs
                 /\ UNCHANGED api
                 /\ Cut(w) \/ Heard(w, [tasks[w] EXCEPT !.pc = "patch"])
<1> DEFINE op == GetLoadBalancer(tasks[w].lb)
           u == [tasks[w] EXCEPT !.pc = "patch"]
           e == tasks[w].lb \in DOMAIN lbs
           E == UNCHANGED api
<1>1. tasks[w].pc = "ports" /\ DOMAIN tasks[w].snap = {} /\ tasks[w].want = {}
  BY DEF ReadResult, At, NewPorts
<1>2. PICK reply \in Replies(e) :
        /\ IF reply.obeyed THEN E ELSE UNCHANGED api
        /\ IF Execute(op, "json", reply) = "error" THEN Fail(w) ELSE Step(w, u) /\ UNCHANGED todo
        /\ faults' = faults + (IF reply \in {Good, NotFound} THEN 0 ELSE 1)
        /\ UNCHANGED <<k8s, changes>>
  BY DEF ReadResult, Call
<1>3. e \in BOOLEAN
  OBVIOUS
<1> HIDE DEF op, u, e, E
<1>4. Missed(w, e) \/ (e /\ E /\ (Cut(w) \/ Heard(w, u)))
  BY <1>2, <1>3, Outcomes DEF Missed, Cut, Heard
<1> QED BY <1>1, <1>4 DEF u, e, E

LEMMA ReadStatusDoes ==
    ASSUME NEW w \in Workers, ReadStatus(w), faults \in Int
    PROVE  /\ tasks[w].pc = "status"
           /\ \/ Missed(w, tasks[w].given \in (DOMAIN lbs) \ {Nil})
              \/ UNCHANGED api /\ tasks[w].given # Nil /\ (Cut(w) \/ Heard(w, Idle))
<1> DEFINE op == GetLoadBalancer(tasks[w].given)
           u == Idle
           e == tasks[w].given \in DOMAIN lbs
           E == UNCHANGED api
<1>1. tasks[w].pc = "status"
  BY DEF ReadStatus, At
<1>2. CASE tasks[w].given = Nil
  BY <1>1, <1>2 DEF ReadStatus, Missed
<1>3. CASE tasks[w].given # Nil
  <2>1. PICK reply \in Replies(e) :
          /\ IF reply.obeyed THEN E ELSE UNCHANGED api
          /\ IF Execute(op, "json", reply) = "error" THEN Fail(w) ELSE Step(w, u) /\ UNCHANGED todo
          /\ faults' = faults + (IF reply \in {Good, NotFound} THEN 0 ELSE 1)
          /\ UNCHANGED <<k8s, changes>>
    BY <1>3 DEF ReadStatus, Call
  <2>2. e \in BOOLEAN
    OBVIOUS
  <2> HIDE DEF op, u, e, E
  <2>3. Missed(w, e) \/ (e /\ E /\ (Cut(w) \/ Heard(w, u)))
    BY <2>1, <2>2, Outcomes DEF Missed, Cut, Heard
  <2>4. e <=> tasks[w].given \in (DOMAIN lbs) \ {Nil}
    BY <1>3 DEF e
  <2> QED BY <1>1, <1>3, <2>3, <2>4 DEF u, E, Missed
<1> QED BY <1>2, <1>3

LEMMA ExistsDoes ==
    ASSUME NEW w \in Workers, Exists(w), faults \in Int
    PROVE  /\ tasks[w].pc = "exists"
           /\ \/ Missed(w, tasks[w].lb \in DOMAIN lbs)
              \/ /\ tasks[w].lb \in DOMAIN lbs
                 /\ UNCHANGED api
                 /\ Cut(w) \/ Heard(w, [tasks[w] EXCEPT !.pc = "read"])
<1> DEFINE op == GetLoadBalancer(tasks[w].lb)
           u == [tasks[w] EXCEPT !.pc = "read"]
           e == tasks[w].lb \in DOMAIN lbs
           E == UNCHANGED api
<1>1. tasks[w].pc = "exists"
  BY DEF Exists, At
<1>2. PICK reply \in Replies(e) :
        /\ IF reply.obeyed THEN E ELSE UNCHANGED api
        /\ IF Execute(op, "json", reply) = "error" THEN Fail(w) ELSE Step(w, u) /\ UNCHANGED todo
        /\ faults' = faults + (IF reply \in {Good, NotFound} THEN 0 ELSE 1)
        /\ UNCHANGED <<k8s, changes>>
  BY DEF Exists, Call
<1>3. e \in BOOLEAN
  OBVIOUS
<1> HIDE DEF op, u, e, E
<1>4. Missed(w, e) \/ (e /\ E /\ (Cut(w) \/ Heard(w, u)))
  BY <1>2, <1>3, Outcomes DEF Missed, Cut, Heard
<1> QED BY <1>1, <1>4 DEF u, e, E

LEMMA ReadDoomedDoes ==
    ASSUME NEW w \in Workers, ReadDoomed(w), faults \in Int
    PROVE  /\ tasks[w].pc = "read"
           /\ \/ Missed(w, tasks[w].lb \in DOMAIN lbs)
              \/ /\ tasks[w].lb \in DOMAIN lbs
                 /\ UNCHANGED api
                 /\ Cut(w) \/ Heard(w, [tasks[w] EXCEPT !.pc = "doomed", !.snap = lbs[tasks[w].lb]])
<1> DEFINE op == GetLoadBalancer(tasks[w].lb)
           u == [tasks[w] EXCEPT !.pc = "doomed", !.snap = lbs[tasks[w].lb]]
           e == tasks[w].lb \in DOMAIN lbs
           E == UNCHANGED api
<1>1. tasks[w].pc = "read"
  BY DEF ReadDoomed, At
<1>2. PICK reply \in Replies(e) :
        /\ IF reply.obeyed THEN E ELSE UNCHANGED api
        /\ IF Execute(op, "json", reply) = "error" THEN Fail(w) ELSE Step(w, u) /\ UNCHANGED todo
        /\ faults' = faults + (IF reply \in {Good, NotFound} THEN 0 ELSE 1)
        /\ UNCHANGED <<k8s, changes>>
  BY DEF ReadDoomed, Call
<1>3. e \in BOOLEAN
  OBVIOUS
<1> HIDE DEF op, u, e, E
<1>4. Missed(w, e) \/ (e /\ E /\ (Cut(w) \/ Heard(w, u)))
  BY <1>2, <1>3, Outcomes DEF Missed, Cut, Heard
<1> QED BY <1>1, <1>4 DEF u, e, E

LEMMA DropBalancerDoes ==
    ASSUME NEW w \in Workers, DropBalancer(w), faults \in Int
    PROVE  /\ tasks[w].pc = "doomed" /\ DOMAIN tasks[w].snap = {}
           /\ \/ Missed(w, tasks[w].lb \in DOMAIN lbs)
              \/ /\ tasks[w].lb \in DOMAIN lbs
                 /\ lbs' = Without(lbs, tasks[w].lb) /\ pools' = pools
                 /\ Cut(w) \/ Heard(w, [tasks[w] EXCEPT !.pc = "finalizer"])
<1> DEFINE op == DeleteLoadBalancer(tasks[w].lb)
           u == [tasks[w] EXCEPT !.pc = "finalizer"]
           e == tasks[w].lb \in DOMAIN lbs
           E == lbs' = Without(lbs, tasks[w].lb) /\ pools' = pools
<1>1. tasks[w].pc = "doomed" /\ DOMAIN tasks[w].snap = {}
  BY DEF DropBalancer, At
<1>2. PICK reply \in Replies(e) :
        /\ IF reply.obeyed THEN E ELSE UNCHANGED api
        /\ IF Execute(op, "json", reply) = "error" THEN Fail(w) ELSE Step(w, u) /\ UNCHANGED todo
        /\ faults' = faults + (IF reply \in {Good, NotFound} THEN 0 ELSE 1)
        /\ UNCHANGED <<k8s, changes>>
  BY DEF DropBalancer, Call
<1>3. e \in BOOLEAN
  OBVIOUS
<1> HIDE DEF op, u, e, E
<1>4. Missed(w, e) \/ (e /\ E /\ (Cut(w) \/ Heard(w, u)))
  BY <1>2, <1>3, Outcomes DEF Missed, Cut, Heard
<1> QED BY <1>1, <1>4 DEF u, e, E

LEMMA KeepPortDoes ==
    ASSUME NEW w \in Workers, KeepPort(w), faults \in Int
    PROVE  /\ tasks[w].pc = "ports"
           /\ \E p \in (DOMAIN tasks[w].snap) \intersect tasks[w].ports :
                \/ /\ tasks[w].snap[p].pool = Nil /\ UNCHANGED api /\ Heard(w, Kept(tasks[w], p))
                \/ Missed(w, tasks[w].snap[p].pool \in DOMAIN pools)
                \/ /\ tasks[w].snap[p].pool # Nil
                   /\ tasks[w].snap[p].pool \in DOMAIN pools
                   /\ UNCHANGED api
                   /\ Cut(w) \/ Heard(w, AfterOrigins(Renewed(Kept(tasks[w], p), tasks[w].snap[p].pool)))
<1> DEFINE op(p) == ListLoadBalancerPoolOrigins(tasks[w].snap[p].pool)
           u(p) == AfterOrigins(Renewed(Kept(tasks[w], p), tasks[w].snap[p].pool))
           e(p) == tasks[w].snap[p].pool \in DOMAIN pools
           E(p) == UNCHANGED api
           rest(p) == Kept(tasks[w], p)
<1>1. tasks[w].pc = "ports"
  BY DEF KeepPort, At
<1>2. PICK p \in (DOMAIN tasks[w].snap) \intersect tasks[w].ports :
        IF tasks[w].snap[p].pool = Nil
        THEN Step(w, rest(p)) /\ UNCHANGED <<api, k8s, todo, faults, changes>>
        ELSE \E reply \in Replies(e(p)) :
             /\ IF reply.obeyed THEN E(p) ELSE UNCHANGED api
             /\ IF Execute(op(p), "json", reply) = "error" THEN Fail(w) ELSE Step(w, u(p)) /\ UNCHANGED todo
             /\ faults' = faults + (IF reply \in {Good, NotFound} THEN 0 ELSE 1)
             /\ UNCHANGED <<k8s, changes>>
  BY DEF KeepPort, Call
<1>3. CASE tasks[w].snap[p].pool = Nil
  <2>1. UNCHANGED api /\ Heard(w, rest(p))
    BY <1>2, <1>3 DEF Heard
  <2> HIDE DEF op, u, e, E
  <2> QED BY <1>1, <1>3, <2>1
<1>4. CASE tasks[w].snap[p].pool # Nil
  <2>1. PICK reply \in Replies(e(p)) :
          /\ IF reply.obeyed THEN E(p) ELSE UNCHANGED api
          /\ IF Execute(op(p), "json", reply) = "error" THEN Fail(w) ELSE Step(w, u(p)) /\ UNCHANGED todo
          /\ faults' = faults + (IF reply \in {Good, NotFound} THEN 0 ELSE 1)
          /\ UNCHANGED <<k8s, changes>>
    BY <1>2, <1>4
  <2>2. e(p) \in BOOLEAN
    OBVIOUS
  <2> HIDE DEF op, u, e, E
  <2>3. Missed(w, e(p)) \/ (e(p) /\ E(p) /\ (Cut(w) \/ Heard(w, u(p))))
    BY <2>1, <2>2, Outcomes DEF Missed, Cut, Heard
  <2> QED BY <1>1, <1>4, <2>3 DEF u, e, E
<1> QED BY <1>3, <1>4

LEMMA DropDoomedPoolDoes ==
    ASSUME NEW w \in Workers, DropDoomedPool(w), faults \in Int
    PROVE  /\ tasks[w].pc = "doomed"
           /\ \E p \in DOMAIN tasks[w].snap :
                \/ /\ tasks[w].snap[p].pool = Nil /\ UNCHANGED api /\ Heard(w, [tasks[w] EXCEPT !.snap = Without(tasks[w].snap, p)])
                \/ Missed(w, tasks[w].snap[p].pool \in DOMAIN pools)
                \/ /\ tasks[w].snap[p].pool # Nil
                   /\ tasks[w].snap[p].pool \in DOMAIN pools
                   /\ PoolDeleted(tasks[w].snap[p].pool)
                   /\ Cut(w) \/ Heard(w, [tasks[w] EXCEPT !.snap = Without(tasks[w].snap, p)])
<1> DEFINE op(p) == DeleteLoadBalancerPool(tasks[w].snap[p].pool)
           u(p) == [tasks[w] EXCEPT !.snap = Without(tasks[w].snap, p)]
           e(p) == tasks[w].snap[p].pool \in DOMAIN pools
           E(p) == PoolDeleted(tasks[w].snap[p].pool)
           rest(p) == [tasks[w] EXCEPT !.snap = Without(tasks[w].snap, p)]
<1>1. tasks[w].pc = "doomed"
  BY DEF DropDoomedPool, At
<1>2. PICK p \in DOMAIN tasks[w].snap :
        IF tasks[w].snap[p].pool = Nil
        THEN Step(w, rest(p)) /\ UNCHANGED <<api, k8s, todo, faults, changes>>
        ELSE \E reply \in Replies(e(p)) :
             /\ IF reply.obeyed THEN E(p) ELSE UNCHANGED api
             /\ IF Execute(op(p), "json", reply) = "error" THEN Fail(w) ELSE Step(w, u(p)) /\ UNCHANGED todo
             /\ faults' = faults + (IF reply \in {Good, NotFound} THEN 0 ELSE 1)
             /\ UNCHANGED <<k8s, changes>>
  BY DEF DropDoomedPool, Call
<1>3. CASE tasks[w].snap[p].pool = Nil
  <2>1. UNCHANGED api /\ Heard(w, rest(p))
    BY <1>2, <1>3 DEF Heard
  <2> HIDE DEF op, u, e, E
  <2> QED BY <1>1, <1>3, <2>1
<1>4. CASE tasks[w].snap[p].pool # Nil
  <2>1. PICK reply \in Replies(e(p)) :
          /\ IF reply.obeyed THEN E(p) ELSE UNCHANGED api
          /\ IF Execute(op(p), "json", reply) = "error" THEN Fail(w) ELSE Step(w, u(p)) /\ UNCHANGED todo
          /\ faults' = faults + (IF reply \in {Good, NotFound} THEN 0 ELSE 1)
          /\ UNCHANGED <<k8s, changes>>
    BY <1>2, <1>4
  <2>2. e(p) \in BOOLEAN
    OBVIOUS
  <2> HIDE DEF op, u, e, E
  <2>3. Missed(w, e(p)) \/ (e(p) /\ E(p) /\ (Cut(w) \/ Heard(w, u(p))))
    BY <2>1, <2>2, Outcomes DEF Missed, Cut, Heard
  <2> QED BY <1>1, <1>4, <2>3 DEF u, e, E
<1> QED BY <1>3, <1>4

-----------------------------------------------------------------------------
(* What a worker goes on with fits, too.                                     *)

\* u has no more in hand than t.
Within(u, t) ==
    /\ (u.port = Nil /\ u.pool = Nil) \/ (u.port = t.port /\ u.pool = t.pool)
    /\ \A p \in DOMAIN u.snap :
         u.snap[p].pool = Nil \/ (p \in DOMAIN t.snap /\ u.snap[p].pool = t.snap[p].pool)

LEMMA IdleIs == InHand(Idle) /\ DOMAIN Idle.snap = {} /\ Idle.port = Nil /\ Idle.pool = Nil
<1>1. DOMAIN Idle.snap = {} /\ Idle.port = Nil /\ Idle.pool = Nil /\ Idle.pc = "idle" /\ Idle.left = {} /\ Idle.old = {}
  BY DEF Idle
<1>2. TaskOK(Idle)
  <2>1. IsPortMap(Idle.snap)
    BY NoPorts DEF Idle
  <2> QED BY <2>1 DEF TaskOK, Idle, Steps, IDs
<1>3. IsFiniteSet({})
  BY FS_EmptySet
<1> QED BY <1>1, <1>2, <1>3 DEF InHand

LEMMA CreateBalancerTask ==
    ASSUME NEW t, InHand(t), t.pc = "create", NEW b \in Nat
    PROVE  LET u == [t EXCEPT !.pc = "get", !.lb = b] IN InHand(u) /\ Within(u, t)
BY DEF InHand, TaskOK, Within, Steps, IDs

LEMMA ReadBalancerTask ==
    ASSUME NEW t, InHand(t), t.pc = "get", NEW m, IsPortMap(m)
    PROVE  LET u == [t EXCEPT !.pc = "ports", !.snap = m, !.want = t.ports]
           IN  InHand(u) /\ u.snap = m /\ u.port = Nil /\ u.pool = Nil
<1> DEFINE u == [t EXCEPT !.pc = "ports", !.snap = m, !.want = t.ports]
<1>1. u.snap = m /\ u.port = Nil /\ u.pool = Nil
  BY DEF InHand, TaskOK
<1>2. TaskOK(u)
  BY DEF InHand, TaskOK, Steps, IDs
<1> QED BY <1>1, <1>2 DEF InHand, TaskOK

LEMMA AfterOriginsIs ==
    ASSUME NEW t, TaskOK(t), t.pc = "origins", t.pool \in Nat, t.lb \in Nat, IsFiniteSet(t.old),
           t.port # Nil => t.old = {}
    PROVE  InHand(AfterOrigins(t)) /\ Within(AfterOrigins(t), t)
<1>1. CASE t.left = {} /\ t.old = {} /\ t.port = Nil
  <2>1. AfterOrigins(t) = [t EXCEPT !.pc = "ports", !.pool = Nil]
    BY <1>1 DEF AfterOrigins
  <2> QED BY <1>1, <2>1 DEF InHand, TaskOK, Within, Steps, IDs
<1>2. CASE t.left = {} /\ t.old = {} /\ t.port # Nil
  <2>1. AfterOrigins(t) = [t EXCEPT !.pc = "port"]
    BY <1>2 DEF AfterOrigins
  <2> QED BY <1>2, <2>1 DEF InHand, TaskOK, Within, Steps, IDs
<1>3. CASE ~(t.left = {} /\ t.old = {})
  <2>1. AfterOrigins(t) = t
    BY <1>3 DEF AfterOrigins
  <2> QED BY <2>1 DEF InHand, TaskOK, Within
<1> QED BY <1>1, <1>2, <1>3

LEMMA RenewedIs ==
    ASSUME NEW t, InHand(t), t.pc = "ports", NEW p \in DOMAIN t.snap, NEW q \in Nat,
           NEW O \in SUBSET Origins, IsFiniteSet(O), pools[q] = O
    PROVE  LET u == Renewed(Kept(t, p), q)
           IN  /\ TaskOK(u) /\ u.pc = "origins" /\ u.pool = q /\ u.port = Nil /\ u.old = O
               /\ u.snap = Without(t.snap, p)
<1> DEFINE k == Kept(t, p)
           u == Renewed(k, q)
<1>1. /\ TaskOK(k) /\ k.snap = Without(t.snap, p) /\ k.nodes = t.nodes
  BY FewerPorts DEF Kept, InHand, TaskOK
<1>2. u = [k EXCEPT !.pc = "origins", !.pool = q, !.port = Nil, !.left = k.nodes, !.old = O]
  BY DEF Renewed
<1> HIDE DEF k, u
<1> QED BY <1>1, <1>2 DEF TaskOK, Steps, IDs, k, u

LEMMA AddOriginTask ==
    ASSUME NEW t, InHand(t), t.pc = "origins", NEW n
    PROVE  LET u == AfterOrigins([t EXCEPT !.left = @ \ {n}]) IN InHand(u) /\ Within(u, t)
<1> DEFINE k == [t EXCEPT !.left = @ \ {n}]
<1>1. /\ TaskOK(k) /\ k.pc = "origins" /\ k.pool \in Nat /\ k.lb \in Nat
      /\ IsFiniteSet(k.old) /\ (k.port # Nil => k.old = {})
      /\ k.port = t.port /\ k.pool = t.pool /\ k.snap = t.snap
  BY DEF InHand, TaskOK
<1> HIDE DEF k
<1>2. InHand(AfterOrigins(k)) /\ Within(AfterOrigins(k), k)
  BY <1>1, AfterOriginsIs
<1> QED BY <1>1, <1>2 DEF k, Within

LEMMA DropOriginTask ==
    ASSUME NEW t, InHand(t), t.pc = "origins", NEW o
    PROVE  LET u == AfterOrigins([t EXCEPT !.old = @ \ {o}]) IN InHand(u) /\ Within(u, t)
<1> DEFINE k == [t EXCEPT !.old = @ \ {o}]
<1>1. k.old = t.old \ {o}
  BY DEF InHand, TaskOK
<1>2. IsFiniteSet(k.old)
  BY <1>1, FS_RemoveElement DEF InHand
<1>3. /\ TaskOK(k) /\ k.pc = "origins" /\ k.pool \in Nat /\ k.lb \in Nat
      /\ (k.port # Nil => k.old = {})
      /\ k.port = t.port /\ k.pool = t.pool /\ k.snap = t.snap
  BY DEF InHand, TaskOK
<1> HIDE DEF k
<1>4. InHand(AfterOrigins(k)) /\ Within(AfterOrigins(k), k)
  BY <1>2, <1>3, AfterOriginsIs
<1> QED BY <1>3, <1>4 DEF k, Within

LEMMA DropPoolTask ==
    ASSUME NEW t, InHand(t), t.pc = "ports", NEW p \in DOMAIN t.snap
    PROVE  LET u == [t EXCEPT !.snap[p].pool = Nil] IN InHand(u) /\ Within(u, t)
<1> DEFINE m == [t.snap EXCEPT ![p].pool = Nil]
           u == [t EXCEPT !.snap = m]
<1>1. [t EXCEPT !.snap[p].pool = Nil] = u
  BY DEF InHand, TaskOK
<1>2. /\ IsPortMap(t.snap) /\ Nil \in IDs
      /\ t.snap[p] \in PortRecords
  BY PortOf DEF InHand, TaskOK, IDs
<1>3. /\ IsPortMap(m) /\ DOMAIN m = DOMAIN t.snap
      /\ m[p] = [t.snap[p] EXCEPT !.pool = Nil]
      /\ \A r \in DOMAIN t.snap : r # p => m[r] = t.snap[r]
  BY <1>2, PoolChanged
<1>4. m[p].pool = Nil
  BY <1>2, <1>3 DEF PortRecords
<1> HIDE DEF m
<1>5. u.snap = m /\ u.port = t.port /\ u.pool = t.pool
  BY DEF InHand, TaskOK
<1>6. InHand(u)
  BY <1>3 DEF InHand, TaskOK
<1> HIDE DEF u
<1>7. Within(u, t)
  BY <1>3, <1>4, <1>5 DEF Within
<1> QED BY <1>1, <1>6, <1>7

LEMMA FewerTask ==
    ASSUME NEW t, InHand(t), NEW p
    PROVE  LET u == [t EXCEPT !.snap = Without(t.snap, p)] IN InHand(u) /\ Within(u, t)
<1> DEFINE m == Without(t.snap, p)
<1>1. IsPortMap(m) /\ DOMAIN m = (DOMAIN t.snap) \ {p} /\ \A r \in DOMAIN t.snap : r # p => m[r] = t.snap[r]
  BY FewerPorts, WithoutIs DEF InHand, TaskOK
<1> HIDE DEF m
<1>2. InHand([t EXCEPT !.snap = m])
  BY <1>1 DEF InHand, TaskOK
<1>3. Within([t EXCEPT !.snap = m], t)
  BY <1>1 DEF Within, InHand, TaskOK
<1> QED BY <1>2, <1>3 DEF m

LEMMA KeptTask ==
    ASSUME NEW t, InHand(t), t.pc = "ports", NEW p
    PROVE  InHand(Kept(t, p)) /\ Within(Kept(t, p), t)
<1> DEFINE m == Without(t.snap, p)
<1>1. IsPortMap(m) /\ DOMAIN m = (DOMAIN t.snap) \ {p} /\ \A r \in DOMAIN t.snap : r # p => m[r] = t.snap[r]
  BY FewerPorts, WithoutIs DEF InHand, TaskOK
<1>2. Kept(t, p) = [t EXCEPT !.snap = m, !.want = t.want \ {p}]
  BY DEF Kept, InHand, TaskOK
<1> HIDE DEF m
<1>3. InHand([t EXCEPT !.snap = m, !.want = t.want \ {p}])
  BY <1>1 DEF InHand, TaskOK
<1>4. Within([t EXCEPT !.snap = m, !.want = t.want \ {p}], t)
  BY <1>1 DEF Within, InHand, TaskOK
<1> QED BY <1>2, <1>3, <1>4

LEMMA AddPoolTask ==
    ASSUME NEW t, InHand(t), t.pc = "ports", DOMAIN t.snap = {}, NEW p \in t.want, NEW q \in Nat
    PROVE  LET k == [t EXCEPT !.pc = "origins", !.pool = q, !.port = p, !.left = t.nodes]
               u == AfterOrigins(k)
           IN  InHand(u) /\ Within(u, k) /\ k.port # Nil /\ k.pool = q /\ DOMAIN u.snap = {}
<1> DEFINE k == [t EXCEPT !.pc = "origins", !.pool = q, !.port = p, !.left = t.nodes]
<1>1. p # Nil
  BY NilAssumption DEF InHand, TaskOK
<1>2. /\ TaskOK(k) /\ k.pc = "origins" /\ k.pool \in Nat /\ k.lb \in Nat
      /\ IsFiniteSet(k.old) /\ k.old = {}
      /\ k.port = p /\ k.pool = q /\ k.snap = t.snap
  BY DEF InHand, TaskOK, Steps, IDs
<1> HIDE DEF k
<1>3. InHand(AfterOrigins(k)) /\ Within(AfterOrigins(k), k)
  BY <1>2, AfterOriginsIs
<1>4. AfterOrigins(k).snap = k.snap
  BY <1>2 DEF AfterOrigins, TaskOK
<1> QED BY <1>1, <1>2, <1>3, <1>4 DEF k

LEMMA AddPortTask ==
    ASSUME NEW t, InHand(t), t.pc = "port"
    PROVE  LET u == [t EXCEPT !.pc = "ports", !.pool = Nil, !.port = Nil, !.want = @ \ {t.port}]
           IN  InHand(u) /\ Within(u, t) /\ u.port = Nil
<1> DEFINE u == [t EXCEPT !.pc = "ports", !.pool = Nil, !.port = Nil, !.want = t.want \ {t.port}]
<1>1. [t EXCEPT !.pc = "ports", !.pool = Nil, !.port = Nil, !.want = @ \ {t.port}] = u
  BY DEF InHand, TaskOK
<1>2. TaskOK(u)
  BY DEF InHand, TaskOK, Steps, IDs
<1>3. u.port = Nil /\ u.pool = Nil /\ u.snap = t.snap /\ u.pc = "ports" /\ u.left = t.left /\ u.old = t.old /\ u.lb = t.lb
  BY DEF InHand, TaskOK
<1> HIDE DEF u
<1>4. InHand(u) /\ Within(u, t)
  BY <1>2, <1>3 DEF InHand, Within
<1> QED BY <1>1, <1>3, <1>4

\* A worker goes on to the next call with what it has.
LEMMA OnwardTask ==
    ASSUME NEW t, InHand(t), t.pc \notin {"idle", "create", "origins", "port", "finalizer"},
           NEW pc \in {"patch", "status", "read", "finalizer"}
    PROVE  InHand([t EXCEPT !.pc = pc]) /\ Within([t EXCEPT !.pc = pc], t)
BY DEF InHand, TaskOK, Within, Steps

LEMMA AnsweredTask ==
    ASSUME NEW t, InHand(t), t.pc = "patch", NEW id \in IDs
    PROVE  LET u == [t EXCEPT !.pc = "status", !.given = id] IN InHand(u) /\ Within(u, t)
BY DEF InHand, TaskOK, Within, Steps

LEMMA ReadDoomedTask ==
    ASSUME NEW t, InHand(t), t.pc = "read", NEW m, IsPortMap(m)
    PROVE  LET u == [t EXCEPT !.pc = "doomed", !.snap = m] IN InHand(u) /\ u.snap = m /\ u.port = Nil /\ u.pool = Nil
<1> DEFINE u == [t EXCEPT !.pc = "doomed", !.snap = m]
<1>1. u.snap = m /\ u.port = Nil /\ u.pool = Nil
  BY DEF InHand, TaskOK
<1>2. TaskOK(u)
  BY DEF InHand, TaskOK, Steps, IDs
<1> QED BY <1>1, <1>2 DEF InHand, TaskOK

LEMMA CachedTask ==
    ASSUME NEW t, InHand(t), NEW c \in BOOLEAN
    PROVE  InHand([t EXCEPT !.cached = c]) /\ Within([t EXCEPT !.cached = c], t)
BY DEF InHand, TaskOK, Within

LEMMA StartedIs ==
    ASSUME NEW copy \in Copies, nodes \subseteq Nodes
    PROVE  /\ InHand(Reconcile(copy)) /\ InHand(Remove(copy))
           /\ \A u \in {Reconcile(copy), Remove(copy)} : u.port = Nil /\ u.pool = Nil /\ DOMAIN u.snap = {}
<1>1. copy.id \in IDs /\ copy.ports \subseteq Ports
  BY DEF Copies, IDs
<1>2. InHand(Idle) /\ DOMAIN Idle.snap = {} /\ Idle.port = Nil /\ Idle.pool = Nil /\ Idle.left = {} /\ Idle.old = {}
      /\ Idle.want = {}
  BY IdleIs DEF Idle
<1>3. ASSUME NEW pc \in {"create", "get"}, pc = "get" => copy.id \in Nat
      PROVE  LET u == [Idle EXCEPT !.pc = pc, !.given = copy.id, !.lb = copy.id, !.ports = copy.ports, !.nodes = nodes]
             IN  InHand(u) /\ u.port = Nil /\ u.pool = Nil /\ DOMAIN u.snap = {}
  BY <1>1, <1>2, <1>3 DEF InHand, TaskOK, Steps
<1>4. ASSUME NEW pc \in {"exists", "finalizer"}, pc = "exists" => copy.id \in Nat
      PROVE  LET u == [Idle EXCEPT !.pc = pc, !.given = copy.id, !.lb = copy.id]
             IN  InHand(u) /\ u.port = Nil /\ u.pool = Nil /\ DOMAIN u.snap = {}
  BY <1>1, <1>2, <1>4 DEF InHand, TaskOK, Steps
<1>5. (copy.id = Nil \/ copy.id \in Nat) /\ "create" # "get" /\ "finalizer" # "exists"
  BY <1>1 DEF IDs
<1>6. LET u == Reconcile(copy) IN InHand(u) /\ u.port = Nil /\ u.pool = Nil /\ DOMAIN u.snap = {}
  BY <1>3, <1>5 DEF Reconcile
<1>7. LET u == Remove(copy) IN InHand(u) /\ u.port = Nil /\ u.pool = Nil /\ DOMAIN u.snap = {}
  BY <1>4, <1>5 DEF Remove
<1> QED BY <1>6, <1>7

-----------------------------------------------------------------------------
(* Every step keeps the invariant. *)

LEMMA HandStep ==
    ASSUME IInv, NEW w \in Workers, NEW u, InHand(u), tasks' = [tasks EXCEPT ![w] = u],
           New(lbs', pools', u), Apart(u, u),
           \A v \in Workers : v # w =>
             /\ New(lbs', pools', tasks[v])
             /\ Apart(u, tasks[v]) /\ Others(u, tasks[v]) /\ Apart(tasks[v], u) /\ Others(tasks[v], u)
    PROVE  HandInv'
<1>1. DOMAIN tasks' = Workers /\ tasks'[w] = u /\ \A v \in Workers : v # w => tasks'[v] = tasks[v]
  BY DEF IInv, HandInv
<1>2. \A v \in Workers : InHand(tasks'[v]) /\ New(lbs', pools', tasks'[v])
  BY <1>1 DEF IInv, HandInv
<1>3. \A v, x \in Workers : Apart(tasks'[v], tasks'[x]) /\ (v # x => Others(tasks'[v], tasks'[x]))
  BY <1>1 DEF IInv, HandInv
<1> QED BY <1>1, <1>2, <1>3 DEF HandInv

\* A worker that has no more in hand than before disturbs nobody.
LEMMA WithinStep ==
    ASSUME IInv, NEW w \in Workers, NEW u, InHand(u), Within(u, tasks[w]), tasks' = [tasks EXCEPT ![w] = u],
           \A v \in Workers : v # w \/ u.port # Nil => New(lbs', pools', tasks[v])
    PROVE  HandInv'
<1> DEFINE t == tasks[w]
<1>1. InHand(t) /\ \A v \in Workers : InHand(tasks[v]) /\ Apart(t, tasks[v]) /\ Apart(tasks[v], t)
  BY DEF IInv, HandInv
<1>2. \A v \in Workers : v # w => Others(t, tasks[v]) /\ Others(tasks[v], t)
  BY DEF IInv, HandInv
<1>3. \A v \in Workers : tasks[v].port # Nil => tasks[v].pool \in Nat /\ tasks[v].pool # Nil
  BY NilAssumption DEF IInv, HandInv, New, ApiOK
<1>4. New(lbs', pools', u)
  BY DEF Within, New
<1>5. \A v \in Workers : Apart(u, tasks[v])
  BY <1>1 DEF Within, Apart
<1>6. \A v \in Workers : Apart(tasks[v], u)
  BY <1>1, <1>3 DEF Within, Apart
<1>7. Apart(u, u)
  BY <1>6 DEF Within, Apart
<1>8. \A v \in Workers : v # w => Others(u, tasks[v]) /\ Others(tasks[v], u)
  BY <1>2, <1>3 DEF Within, Others
<1> QED BY <1>4, <1>5, <1>6, <1>7, <1>8, HandStep

LEMMA IdleWithin == \A t : Within(Idle, t)
BY IdleIs DEF Within

LEMMA IdleStep ==
    ASSUME IInv, NEW w \in Workers, tasks' = [tasks EXCEPT ![w] = Idle],
           \A v \in Workers : v # w => New(lbs', pools', tasks[v])
    PROVE  HandInv'
BY IdleIs, IdleWithin, WithinStep

LEMMA FaultsOK ==
    ASSUME ClusterOK, Fault \/ UNCHANGED faults
    PROVE  faults' \in 0 .. MaxFaults
BY BoundsAssumption DEF ClusterOK, Fault

LEMMA MissedKeeps ==
    ASSUME IInv, NEW w \in Workers, UNCHANGED <<api, k8s, changes>>, Fail(w), Fault \/ UNCHANGED faults
    PROVE  IInv'
<1>1. ApiOK(lbs, pools)' /\ \A v \in Workers : New(lbs', pools', tasks[v])
  BY DEF api, IInv, HandInv
<1>2. HandInv'
  BY <1>1, IdleStep DEF Fail
<1>3. ClusterOK'
  <2>1. faults' \in 0 .. MaxFaults
    BY FaultsOK DEF IInv
  <2>2. UNCHANGED <<k8s, changes>> /\ todo' \subseteq Workers
    <3>1. todo \subseteq Workers
      BY DEF IInv, ClusterOK
    <3> QED BY <3>1 DEF Fail, Workers
  <2> QED BY <2>1, <2>2 DEF k8s, IInv, ClusterOK
<1> QED BY <1>1, <1>2, <1>3 DEF IInv

\* A call that was obeyed.
LEMMA ObeyedKeeps ==
    ASSUME IInv, NEW w \in Workers, NEW u, ApiOK(lbs', pools'), Cut(w) \/ Heard(w, u),
           \A v \in Workers : v # w => New(lbs', pools', tasks[v]),
           Heard(w, u) => HandInv'
    PROVE  IInv'
<1>1. ClusterOK'
  <2>1. faults' \in 0 .. MaxFaults
    BY FaultsOK DEF Cut, Heard, IInv
  <2>2. UNCHANGED <<k8s, changes>> /\ todo' \subseteq Workers
    <3>1. todo \subseteq Workers
      BY DEF IInv, ClusterOK
    <3> QED BY <3>1 DEF Cut, Heard, Fail, Workers
  <2> QED BY <2>1, <2>2 DEF k8s, IInv, ClusterOK
<1>2. Cut(w) => HandInv'
  BY IdleStep DEF Cut, Fail
<1> QED BY <1>1, <1>2 DEF IInv

LEMMA WithinKeeps ==
    ASSUME IInv, NEW w \in Workers, NEW u, ApiOK(lbs', pools'), Cut(w) \/ Heard(w, u), InHand(u), Within(u, tasks[w]),
           \A v \in Workers : v # w \/ u.port # Nil => New(lbs', pools', tasks[v])
    PROVE  IInv'
<1>1. Heard(w, u) => HandInv'
  BY WithinStep DEF Heard, Step
<1> QED BY <1>1, ObeyedKeeps

LEMMA Ints == ASSUME IInv PROVE faults \in Int
BY BoundsAssumption DEF IInv, ClusterOK

LEMMA CreateBalancerKeeps ==
    ASSUME IInv, NEW w \in Workers, CreateBalancer(w)
    PROVE  IInv'
<1> DEFINE t == tasks[w]
           b == FreshBalancer
           u == [t EXCEPT !.pc = "get", !.lb = b]
<1>1. t.pc = "create" /\ InHand(t)
  BY Ints, CreateBalancerDoes DEF IInv, HandInv
<1>2. CASE Missed(w, TRUE)
  BY <1>2, MissedKeeps DEF Missed
<1>3. CASE lbs' = Plus(lbs, b, <<>>) /\ pools' = pools /\ (Cut(w) \/ Heard(w, u))
  <2>1. b \in Nat /\ b \notin DOMAIN lbs
    BY FreshBalancerIs
  <2> HIDE DEF b
  <2>2. ApiOK(lbs', pools') /\ \A v \in Workers : New(lbs', pools', tasks[v])
    <3>1. /\ ApiOK(Plus(lbs, b, <<>>), pools)
          /\ \A x : New(lbs, pools, x) => New(Plus(lbs, b, <<>>), pools, x)
      BY <2>1, BalancerMade DEF IInv
    <3> QED BY <1>3, <3>1 DEF IInv, HandInv
  <2>3. InHand(u) /\ Within(u, t)
    BY <1>1, <2>1, CreateBalancerTask
  <2> HIDE DEF u
  <2> QED BY <1>3, <2>2, <2>3, WithinKeeps
<1> QED BY <1>2, <1>3, Ints, CreateBalancerDoes

LEMMA FirstIs == ASSUME NEW S, S # {} PROVE First(S) \in S
BY DEF First

LEMMA ReadBalancerKeeps ==
    ASSUME IInv, NEW w \in Workers, ReadBalancer(w)
    PROVE  IInv'
<1> DEFINE t == tasks[w]
           m == lbs[t.lb]
           u == [t EXCEPT !.pc = "ports", !.snap = m, !.want = t.ports]
<1>1. t.pc = "get" /\ InHand(t)
  BY Ints, ReadBalancerDoes DEF IInv, HandInv
<1>2. CASE Missed(w, t.lb \in DOMAIN lbs)
  BY <1>2, MissedKeeps DEF Missed
<1>3. CASE t.lb \in DOMAIN lbs /\ UNCHANGED api /\ (Cut(w) \/ Heard(w, u))
  <2>1. IsPortMap(m)
    BY <1>3 DEF IInv, ApiOK
  <2>2. ApiOK(lbs', pools') /\ \A v \in Workers : New(lbs', pools', tasks[v])
    BY <1>3 DEF api, IInv, HandInv
  <2>3. InHand(u) /\ u.snap = m /\ u.port = Nil /\ u.pool = Nil
    <3> HIDE DEF m
    <3> QED BY <1>1, <2>1, ReadBalancerTask
  <2>4. \A v \in Workers : Apart(tasks[v], u) /\ Others(tasks[v], u)
    <3> HIDE DEF u
    <3>1. \A v \in Workers : tasks[v].port # Nil => Unnamed(lbs, tasks[v].pool) /\ tasks[v].pool # Nil
      BY NilAssumption DEF IInv, HandInv, New, ApiOK
    <3> QED BY <1>3, <2>3, <3>1 DEF Apart, Others, Unnamed
  <2> HIDE DEF u, m
  <2>5. New(lbs', pools', u) /\ Apart(u, u) /\ \A v \in Workers : Apart(u, tasks[v]) /\ Others(u, tasks[v])
    BY <2>3 DEF New, Apart, Others
  <2>6. Heard(w, u) => HandInv'
    BY <2>2, <2>3, <2>4, <2>5, HandStep DEF Heard, Step
  <2> QED BY <1>3, <2>2, <2>6, ObeyedKeeps
<1> QED BY <1>2, <1>3, Ints, ReadBalancerDoes

LEMMA ReadDoomedKeeps ==
    ASSUME IInv, NEW w \in Workers, ReadDoomed(w)
    PROVE  IInv'
<1> DEFINE t == tasks[w]
           m == lbs[t.lb]
           u == [t EXCEPT !.pc = "doomed", !.snap = m]
<1>1. t.pc = "read" /\ InHand(t)
  BY Ints, ReadDoomedDoes DEF IInv, HandInv
<1>2. CASE Missed(w, t.lb \in DOMAIN lbs)
  BY <1>2, MissedKeeps DEF Missed
<1>3. CASE t.lb \in DOMAIN lbs /\ UNCHANGED api /\ (Cut(w) \/ Heard(w, u))
  <2>1. IsPortMap(m)
    BY <1>3 DEF IInv, ApiOK
  <2>2. ApiOK(lbs', pools') /\ \A v \in Workers : New(lbs', pools', tasks[v])
    BY <1>3 DEF api, IInv, HandInv
  <2>3. InHand(u) /\ u.snap = m /\ u.port = Nil /\ u.pool = Nil
    <3> HIDE DEF m
    <3> QED BY <1>1, <2>1, ReadDoomedTask
  <2>4. \A v \in Workers : Apart(tasks[v], u) /\ Others(tasks[v], u)
    <3> HIDE DEF u
    <3>1. \A v \in Workers : tasks[v].port # Nil => Unnamed(lbs, tasks[v].pool) /\ tasks[v].pool # Nil
      BY NilAssumption DEF IInv, HandInv, New, ApiOK
    <3> QED BY <1>3, <2>3, <3>1 DEF Apart, Others, Unnamed
  <2> HIDE DEF u, m
  <2>5. New(lbs', pools', u) /\ Apart(u, u) /\ \A v \in Workers : Apart(u, tasks[v]) /\ Others(u, tasks[v])
    BY <2>3 DEF New, Apart, Others
  <2>6. Heard(w, u) => HandInv'
    BY <2>2, <2>3, <2>4, <2>5, HandStep DEF Heard, Step
  <2> QED BY <1>3, <2>2, <2>6, ObeyedKeeps
<1> QED BY <1>2, <1>3, Ints, ReadDoomedDoes

LEMMA KeepPortKeeps ==
    ASSUME IInv, NEW w \in Workers, KeepPort(w)
    PROVE  IInv'
<1> DEFINE t == tasks[w]
<1>1. t.pc = "ports" /\ InHand(t) /\ UNCHANGED <<>>
  BY Ints, KeepPortDoes DEF IInv, HandInv
<1>2. PICK p \in (DOMAIN t.snap) \intersect t.ports :
        \/ /\ t.snap[p].pool = Nil /\ UNCHANGED api /\ Heard(w, Kept(t, p))
        \/ Missed(w, t.snap[p].pool \in DOMAIN pools)
        \/ /\ t.snap[p].pool # Nil
           /\ t.snap[p].pool \in DOMAIN pools
           /\ UNCHANGED api
           /\ Cut(w) \/ Heard(w, AfterOrigins(Renewed(Kept(t, p), t.snap[p].pool)))
  BY Ints, KeepPortDoes
<1>3. UNCHANGED api => ApiOK(lbs', pools') /\ \A v \in Workers : New(lbs', pools', tasks[v])
  BY DEF api, IInv, HandInv
<1>4. CASE t.snap[p].pool = Nil /\ UNCHANGED api /\ Heard(w, Kept(t, p))
  <2>1. InHand(Kept(t, p)) /\ Within(Kept(t, p), t)
    BY <1>1, KeptTask
  <2> QED BY <1>3, <1>4, <2>1, WithinKeeps
<1>5. CASE Missed(w, t.snap[p].pool \in DOMAIN pools)
  BY <1>5, MissedKeeps DEF Missed
<1>6. CASE /\ t.snap[p].pool # Nil
           /\ t.snap[p].pool \in DOMAIN pools
           /\ UNCHANGED api
           /\ Cut(w) \/ Heard(w, AfterOrigins(Renewed(Kept(t, p), t.snap[p].pool)))
  <2> DEFINE q == t.snap[p].pool
             r == Renewed(Kept(t, p), q)
             u == AfterOrigins(r)
  <2>1. q \in Nat /\ pools[q] \subseteq Origins /\ IsFiniteSet(pools[q])
    BY <1>6 DEF IInv, ApiOK
  <2>2. t.lb \in Nat
    BY <1>1 DEF InHand
  <2>3. /\ TaskOK(r) /\ r.pc = "origins" /\ r.pool = q /\ r.port = Nil /\ r.old = pools[q]
        /\ r.snap = Without(t.snap, p)
    BY <1>1, <2>1, RenewedIs
  <2>4. r.lb = t.lb
    BY <1>1 DEF Renewed, Kept, InHand, TaskOK
  <2> HIDE DEF r
  <2>5. DOMAIN r.snap = (DOMAIN t.snap) \ {p} /\ \A y \in DOMAIN r.snap : r.snap[y] = t.snap[y]
    BY <2>3 DEF Without
  <2>6. InHand(u) /\ Within(u, r)
    BY <2>1, <2>2, <2>3, <2>4, AfterOriginsIs
  <2> HIDE DEF u
  <2>7. u.port = Nil /\ u.pool \in {Nil, q}
    BY <2>3, <2>6 DEF Within
  <2>8. \A y \in DOMAIN u.snap : u.snap[y].pool = Nil \/ (y \in DOMAIN t.snap /\ u.snap[y].pool = t.snap[y].pool)
    BY <2>5, <2>6 DEF Within
  <2>9. \A v \in Workers : Apart(tasks[v], u) /\ Others(tasks[v], u)
    <3>1. \A v \in Workers : tasks[v].port # Nil => tasks[v].pool # Nil /\ tasks[v].pool # q
      BY NilAssumption DEF IInv, HandInv, New, ApiOK, Apart
    <3>2. \A v \in Workers : Apart(tasks[v], t)
      BY DEF IInv, HandInv
    <3> QED BY <2>7, <2>8, <3>1, <3>2 DEF Apart, Others
  <2>10. New(lbs', pools', u) /\ Apart(u, u) /\ \A v \in Workers : Apart(u, tasks[v]) /\ Others(u, tasks[v])
    BY <2>7 DEF New, Apart, Others
  <2>11. Heard(w, u) => HandInv'
    BY <1>3, <1>6, <2>6, <2>9, <2>10, HandStep DEF Heard, Step
  <2>12. Cut(w) \/ Heard(w, u)
    BY <1>6 DEF u, r
  <2> QED BY <1>3, <1>6, <2>11, <2>12, ObeyedKeeps
<1> QED BY <1>2, <1>4, <1>5, <1>6

LEMMA AddOriginKeeps ==
    ASSUME IInv, NEW w \in Workers, AddOrigin(w)
    PROVE  IInv'
<1> DEFINE t == tasks[w]
           n == First(t.left)
           o == FreshOrigin(t.pool, n)
           O == pools[t.pool] \union {o}
           u == AfterOrigins([t EXCEPT !.left = @ \ {n}])
<1>1. t.pc = "origins" /\ t.left # {} /\ InHand(t)
  BY Ints, AddOriginDoes DEF IInv, HandInv
<1>2. CASE Missed(w, t.pool \in DOMAIN pools)
  BY <1>2, MissedKeeps DEF Missed
<1>3. CASE /\ t.pool \in DOMAIN pools /\ pools' = [pools EXCEPT ![t.pool] = O] /\ lbs' = lbs
           /\ Cut(w) \/ Heard(w, u)
  <2>1. n \in Nodes
    BY <1>1, FirstIs DEF InHand, TaskOK
  <2>2. o \in Origins
    <3> HIDE DEF n
    <3> QED BY <1>3, <2>1, FreshOriginIs
  <2> HIDE DEF o
  <2>3. pools[t.pool] \subseteq Origins /\ IsFiniteSet(pools[t.pool])
    BY <1>3 DEF IInv, ApiOK
  <2>4. O \in SUBSET Origins /\ IsFiniteSet(O)
    BY <2>2, <2>3, FS_AddElement
  <2> HIDE DEF O
  <2>5. /\ ApiOK(lbs, [pools EXCEPT ![t.pool] = O])
        /\ \A x : New(lbs, pools, x) => New(lbs, [pools EXCEPT ![t.pool] = O], x)
    BY <1>3, <2>4, OriginsChanged DEF IInv
  <2>6. ApiOK(lbs', pools') /\ \A v \in Workers : New(lbs', pools', tasks[v])
    BY <1>3, <2>5 DEF IInv, HandInv
  <2>7. InHand(u) /\ Within(u, t)
    <3> HIDE DEF n
    <3> QED BY <1>1, AddOriginTask
  <2> HIDE DEF u
  <2> QED BY <1>3, <2>6, <2>7, WithinKeeps
<1> QED BY <1>2, <1>3, Ints, AddOriginDoes

LEMMA DropOriginKeeps ==
    ASSUME IInv, NEW w \in Workers, DropOrigin(w)
    PROVE  IInv'
<1> DEFINE t == tasks[w]
           o == First(t.old)
           O == pools[t.pool] \ {o}
           u == AfterOrigins([t EXCEPT !.old = @ \ {o}])
<1>1. t.pc = "origins" /\ InHand(t)
  BY Ints, DropOriginDoes DEF IInv, HandInv
<1>2. CASE Missed(w, t.pool \in DOMAIN pools /\ o \in pools[t.pool])
  BY <1>2, MissedKeeps DEF Missed
<1>3. CASE /\ t.pool \in DOMAIN pools /\ pools' = [pools EXCEPT ![t.pool] = O] /\ lbs' = lbs
           /\ Cut(w) \/ Heard(w, u)
  <2>1. pools[t.pool] \subseteq Origins /\ IsFiniteSet(pools[t.pool])
    BY <1>3 DEF IInv, ApiOK
  <2>2. InHand(u) /\ Within(u, t)
    <3> HIDE DEF o
    <3> QED BY <1>1, DropOriginTask
  <2> HIDE DEF o
  <2>3. O \in SUBSET Origins /\ IsFiniteSet(O)
    BY <2>1, FS_RemoveElement
  <2> HIDE DEF O
  <2>4. /\ ApiOK(lbs, [pools EXCEPT ![t.pool] = O])
        /\ \A x : New(lbs, pools, x) => New(lbs, [pools EXCEPT ![t.pool] = O], x)
    BY <1>3, <2>3, OriginsChanged DEF IInv
  <2>5. ApiOK(lbs', pools') /\ \A v \in Workers : New(lbs', pools', tasks[v])
    BY <1>3, <2>4 DEF IInv, HandInv
  <2> HIDE DEF u
  <2> QED BY <1>3, <2>2, <2>5, WithinKeeps
<1> QED BY <1>2, <1>3, Ints, DropOriginDoes

\* A pool that goes is not a new one.
LEMMA PoolDeletedIs ==
    ASSUME IInv, NEW w \in Workers, NEW p \in DOMAIN tasks[w].snap, tasks[w].snap[p].pool \in DOMAIN pools,
           PoolDeleted(tasks[w].snap[p].pool)
    PROVE  ApiOK(lbs', pools') /\ \A v \in Workers : New(lbs', pools', tasks[v])
<1> DEFINE q == tasks[w].snap[p].pool
<1>1. lbs' = Stripped(lbs, q) /\ pools' = Without(pools, q)
  BY DEF PoolDeleted, Stripped
<1>2. \A v \in Workers : New(lbs, pools, tasks[v]) /\ (tasks[v].port # Nil => tasks[v].pool # q)
  BY DEF IInv, HandInv, Apart
<1> HIDE DEF q
<1>3. /\ ApiOK(Stripped(lbs, q), Without(pools, q))
      /\ \A t : New(lbs, pools, t) /\ (t.port # Nil => t.pool # q) => New(Stripped(lbs, q), Without(pools, q), t)
  BY PoolGone DEF IInv, q
<1> QED BY <1>1, <1>2, <1>3

LEMMA DropPoolKeeps ==
    ASSUME IInv, NEW w \in Workers, DropPool(w)
    PROVE  IInv'
<1> DEFINE t == tasks[w]
<1>1. t.pc = "ports" /\ InHand(t)
  BY Ints, DropPoolDoes DEF IInv, HandInv
<1>2. PICK p \in (DOMAIN t.snap) \ t.ports :
        \/ Missed(w, t.snap[p].pool \in DOMAIN pools)
        \/ /\ t.snap[p].pool \in DOMAIN pools
           /\ PoolDeleted(t.snap[p].pool)
           /\ Cut(w) \/ Heard(w, [t EXCEPT !.snap[p].pool = Nil])
  BY Ints, DropPoolDoes
<1>3. CASE Missed(w, t.snap[p].pool \in DOMAIN pools)
  BY <1>3, MissedKeeps DEF Missed
<1>4. CASE /\ t.snap[p].pool \in DOMAIN pools
           /\ PoolDeleted(t.snap[p].pool)
           /\ Cut(w) \/ Heard(w, [t EXCEPT !.snap[p].pool = Nil])
  <2> DEFINE u == [t EXCEPT !.snap[p].pool = Nil]
  <2>1. InHand(u) /\ Within(u, t)
    BY <1>1, DropPoolTask
  <2> HIDE DEF u
  <2>2. ApiOK(lbs', pools') /\ \A v \in Workers : New(lbs', pools', tasks[v])
    BY <1>4, PoolDeletedIs
  <2>3. Cut(w) \/ Heard(w, u)
    BY <1>4 DEF u
  <2> QED BY <2>1, <2>2, <2>3, WithinKeeps
<1> QED BY <1>2, <1>3, <1>4

LEMMA DropDoomedPoolKeeps ==
    ASSUME IInv, NEW w \in Workers, DropDoomedPool(w)
    PROVE  IInv'
<1> DEFINE t == tasks[w]
           u(p) == [t EXCEPT !.snap = Without(t.snap, p)]
<1>1. t.pc = "doomed" /\ InHand(t)
  BY Ints, DropDoomedPoolDoes DEF IInv, HandInv
<1>2. PICK p \in DOMAIN t.snap :
        \/ /\ t.snap[p].pool = Nil /\ UNCHANGED api /\ Heard(w, u(p))
        \/ Missed(w, t.snap[p].pool \in DOMAIN pools)
        \/ /\ t.snap[p].pool # Nil
           /\ t.snap[p].pool \in DOMAIN pools
           /\ PoolDeleted(t.snap[p].pool)
           /\ Cut(w) \/ Heard(w, u(p))
  BY Ints, DropDoomedPoolDoes
<1>3. InHand(u(p)) /\ Within(u(p), t)
  BY <1>1, FewerTask
<1> HIDE DEF u
<1>4. CASE t.snap[p].pool = Nil /\ UNCHANGED api /\ Heard(w, u(p))
  <2>1. ApiOK(lbs', pools') /\ \A v \in Workers : New(lbs', pools', tasks[v])
    BY <1>4 DEF api, IInv, HandInv
  <2> QED BY <1>3, <1>4, <2>1, WithinKeeps
<1>5. CASE Missed(w, t.snap[p].pool \in DOMAIN pools)
  BY <1>5, MissedKeeps DEF Missed
<1>6. CASE /\ t.snap[p].pool \in DOMAIN pools
           /\ PoolDeleted(t.snap[p].pool)
           /\ Cut(w) \/ Heard(w, u(p))
  <2>1. ApiOK(lbs', pools') /\ \A v \in Workers : New(lbs', pools', tasks[v])
    BY <1>6, PoolDeletedIs
  <2> QED BY <1>3, <1>6, <2>1, WithinKeeps
<1> QED BY <1>2, <1>4, <1>5, <1>6

LEMMA DropPortKeeps ==
    ASSUME IInv, NEW w \in Workers, DropPort(w)
    PROVE  IInv'
<1> DEFINE t == tasks[w]
           u(p) == [t EXCEPT !.snap = Without(t.snap, p)]
           e(p) == t.lb \in DOMAIN lbs /\ p \in DOMAIN lbs[t.lb] /\ lbs[t.lb][p].id = t.snap[p].id
<1>1. t.pc = "ports" /\ InHand(t)
  BY Ints, DropPortDoes DEF IInv, HandInv
<1>2. PICK p \in (DOMAIN t.snap) \ t.ports :
        \/ Missed(w, e(p))
        \/ /\ e(p)
           /\ lbs' = [lbs EXCEPT ![t.lb] = Without(@, p)] /\ pools' = pools
           /\ Cut(w) \/ Heard(w, u(p))
  BY Ints, DropPortDoes
<1>3. CASE Missed(w, e(p))
  BY <1>3, MissedKeeps DEF Missed
<1>4. CASE /\ e(p)
           /\ lbs' = [lbs EXCEPT ![t.lb] = Without(@, p)] /\ pools' = pools
           /\ Cut(w) \/ Heard(w, u(p))
  <2>1. InHand(u(p)) /\ Within(u(p), t)
    BY <1>1, FewerTask
  <2> HIDE DEF u
  <2>2. /\ ApiOK([lbs EXCEPT ![t.lb] = Without(lbs[t.lb], p)], pools)
        /\ \A x : New(lbs, pools, x) => New([lbs EXCEPT ![t.lb] = Without(lbs[t.lb], p)], pools, x)
    BY <1>4, PortGone DEF IInv
  <2>3. ApiOK(lbs', pools') /\ \A v \in Workers : New(lbs', pools', tasks[v])
    BY <1>4, <2>2 DEF IInv, HandInv
  <2> QED BY <1>4, <2>1, <2>3, WithinKeeps
<1> QED BY <1>2, <1>3, <1>4

LEMMA AddPoolKeeps ==
    ASSUME IInv, NEW w \in Workers, AddPool(w)
    PROVE  IInv'
<1> DEFINE t == tasks[w]
           q == FreshPool
           k(p) == [t EXCEPT !.pc = "origins", !.pool = q, !.port = p, !.left = t.nodes]
           u(p) == AfterOrigins(k(p))
<1>1. t.pc = "ports" /\ DOMAIN t.snap = {} /\ InHand(t)
  BY Ints, AddPoolDoes DEF IInv, HandInv
<1>2. PICK p \in t.want :
        \/ Missed(w, TRUE)
        \/ /\ pools' = Plus(pools, q, {}) /\ lbs' = lbs
           /\ Cut(w) \/ Heard(w, u(p))
  BY Ints, AddPoolDoes
<1>3. CASE Missed(w, TRUE)
  BY <1>3, MissedKeeps DEF Missed
<1>4. CASE /\ pools' = Plus(pools, q, {}) /\ lbs' = lbs
           /\ Cut(w) \/ Heard(w, u(p))
  <2>1. /\ q \in Nat /\ q \notin DOMAIN pools
        /\ \A v \in Workers : /\ q # tasks[v].pool
                              /\ \A y \in DOMAIN tasks[v].snap : q # tasks[v].snap[y].pool
    BY FreshPoolIs
  <2> HIDE DEF q
  <2>2. /\ ApiOK(lbs, Plus(pools, q, {}))
        /\ \A x : New(lbs, pools, x) => New(lbs, Plus(pools, q, {}), x)
        /\ Unnamed(lbs, q)
    BY <2>1, PoolMade DEF IInv
  <2>3. q \in DOMAIN Plus(pools, q, {})
    BY DEF Plus
  <2>4. ApiOK(lbs', pools') /\ \A v \in Workers : New(lbs', pools', tasks[v])
    BY <1>4, <2>2 DEF IInv, HandInv
  <2>5. /\ InHand(u(p)) /\ Within(u(p), k(p)) /\ k(p).port # Nil /\ k(p).pool = q
        /\ DOMAIN u(p).snap = {}
    BY <1>1, <2>1, AddPoolTask
  <2> HIDE DEF k, u
  <2>6. u(p).pool \in {Nil, q} /\ (u(p).port # Nil => u(p).pool = q)
    BY <2>5 DEF Within
  <2>7. New(lbs', pools', u(p)) /\ Apart(u(p), u(p))
    BY <1>4, <2>2, <2>3, <2>5, <2>6 DEF New, Apart
  <2>8. \A v \in Workers : tasks[v].port # Nil => tasks[v].pool # Nil
    BY NilAssumption DEF IInv, HandInv, New, ApiOK
  <2>9. \A v \in Workers : /\ Apart(u(p), tasks[v]) /\ Others(u(p), tasks[v])
                           /\ Apart(tasks[v], u(p)) /\ Others(tasks[v], u(p))
    BY <2>1, <2>5, <2>6, <2>8 DEF Apart, Others
  <2>10. Heard(w, u(p)) => HandInv'
    BY <2>4, <2>5, <2>7, <2>9, HandStep DEF Heard, Step
  <2> QED BY <1>4, <2>4, <2>10, ObeyedKeeps
<1> QED BY <1>2, <1>3, <1>4

LEMMA AddPortKeeps ==
    ASSUME IInv, NEW w \in Workers, AddPort(w)
    PROVE  IInv'
<1> DEFINE t == tasks[w]
           u == [t EXCEPT !.pc = "ports", !.pool = Nil, !.port = Nil, !.want = @ \ {t.port}]
           r == [id |-> t.pool, pool |-> t.pool]
           e == t.lb \in DOMAIN lbs /\ t.port \notin DOMAIN lbs[t.lb]
<1>1. t.pc = "port" /\ InHand(t)
  BY Ints, AddPortDoes DEF IInv, HandInv
<1>2. CASE Missed(w, e)
  BY <1>2, MissedKeeps DEF Missed
<1>3. CASE /\ e
           /\ lbs' = [lbs EXCEPT ![t.lb] = Plus(@, t.port, r)] /\ pools' = pools
           /\ Cut(w) \/ Heard(w, u)
  <2>1. t.port # Nil /\ t.port \in Ports /\ t.pool \in DOMAIN pools
    BY <1>1 DEF InHand, TaskOK, IInv, HandInv, New
  <2>2. InHand(u) /\ Within(u, t) /\ u.port = Nil
    BY <1>1, AddPortTask
  <2> HIDE DEF u
  <2>3. LET M == [lbs EXCEPT ![t.lb] = Plus(lbs[t.lb], t.port, r)]
        IN  /\ ApiOK(M, pools)
            /\ \A x : New(lbs, pools, x) /\ (x.port # Nil => x.pool # t.pool) => New(M, pools, x)
    BY <1>3, <2>1, PortMade DEF IInv
  <2> HIDE DEF r
  <2>4. ApiOK(lbs', pools')
    BY <1>3, <2>3
  <2>5. \A v \in Workers : v # w => New(lbs, pools, tasks[v]) /\ (tasks[v].port # Nil => tasks[v].pool # t.pool)
    BY DEF IInv, HandInv, Others
  <2>6. \A v \in Workers : v # w => New(lbs', pools', tasks[v])
    BY <1>3, <2>3, <2>5
  <2>7. Cut(w) \/ Heard(w, u)
    BY <1>3
  <2> QED BY <2>2, <2>4, <2>6, <2>7, WithinKeeps
<1> QED BY <1>2, <1>3, Ints, AddPortDoes

\* Reading changes nothing.
LEMMA ReadingKeeps ==
    ASSUME IInv, NEW w \in Workers, NEW u, UNCHANGED api, Cut(w) \/ Heard(w, u), InHand(u), Within(u, tasks[w])
    PROVE  IInv'
<1>1. ApiOK(lbs', pools') /\ \A v \in Workers : New(lbs', pools', tasks[v])
  BY DEF api, IInv, HandInv
<1> QED BY <1>1, WithinKeeps

LEMMA ReadsKeep ==
    ASSUME IInv, NEW w \in Workers, ReadResult(w) \/ ReadStatus(w) \/ Exists(w)
    PROVE  IInv'
<1> DEFINE t == tasks[w]
<1>1. InHand(t)
  BY DEF IInv, HandInv
<1>2. CASE Missed(w, t.lb \in DOMAIN lbs)
  BY <1>2, MissedKeeps DEF Missed
<1>3. ASSUME NEW pc \in {"patch", "read"}, t.pc \notin {"idle", "create", "origins", "port", "finalizer"},
             UNCHANGED api, Cut(w) \/ Heard(w, [t EXCEPT !.pc = pc])
      PROVE  IInv'
  <2> DEFINE u == [t EXCEPT !.pc = pc]
  <2>1. InHand(u) /\ Within(u, t)
    BY <1>1, <1>3, OnwardTask
  <2> HIDE DEF u
  <2>2. Cut(w) \/ Heard(w, u)
    BY <1>3 DEF u
  <2> QED BY <1>3, <2>1, <2>2, ReadingKeeps
<1>4. CASE ReadResult(w)
  BY <1>2, <1>3, <1>4, Ints, ReadResultDoes
<1>5. CASE Exists(w)
  BY <1>2, <1>3, <1>5, Ints, ExistsDoes
<1>6. CASE ReadStatus(w)
  <2>1. CASE Missed(w, t.given \in (DOMAIN lbs) \ {Nil})
    BY <2>1, MissedKeeps DEF Missed
  <2>2. CASE UNCHANGED api /\ (Cut(w) \/ Heard(w, Idle))
    BY <2>2, IdleIs, IdleWithin, ReadingKeeps
  <2> QED BY <1>6, <2>1, <2>2, Ints, ReadStatusDoes
<1> QED BY <1>4, <1>5, <1>6

LEMMA DropBalancerKeeps ==
    ASSUME IInv, NEW w \in Workers, DropBalancer(w)
    PROVE  IInv'
<1> DEFINE t == tasks[w]
           u == [t EXCEPT !.pc = "finalizer"]
<1>1. t.pc = "doomed" /\ InHand(t)
  BY Ints, DropBalancerDoes DEF IInv, HandInv
<1>2. CASE Missed(w, t.lb \in DOMAIN lbs)
  BY <1>2, MissedKeeps DEF Missed
<1>3. CASE lbs' = Without(lbs, t.lb) /\ pools' = pools /\ (Cut(w) \/ Heard(w, u))
  <2>1. InHand(u) /\ Within(u, t)
    BY <1>1, OnwardTask
  <2> HIDE DEF u
  <2>2. /\ ApiOK(Without(lbs, t.lb), pools)
        /\ \A x : New(lbs, pools, x) => New(Without(lbs, t.lb), pools, x)
    BY BalancerGone DEF IInv
  <2>3. ApiOK(lbs', pools') /\ \A v \in Workers : New(lbs', pools', tasks[v])
    BY <1>3, <2>2 DEF IInv, HandInv
  <2> QED BY <1>3, <2>1, <2>3, WithinKeeps
<1> QED BY <1>2, <1>3, Ints, DropBalancerDoes

-----------------------------------------------------------------------------
(* A worker keeps to what it was given. *)

Removal == {"exists", "read", "doomed", "finalizer"}

SameJob(t, u) ==
    /\ u.given = t.given /\ u.cached = t.cached /\ u.ports = t.ports /\ u.nodes = t.nodes
    /\ u.lb = t.lb \/ t.pc = "create"
    /\ t.pc \notin {"idle", "patch", "status"} /\ u.pc \notin {"idle", "create", "status"}
    /\ u.pc \in Removal <=> t.pc \in Removal

GivesUp(w) == UNCHANGED <<k8s, changes>> /\ Fail(w) /\ (Fault \/ UNCHANGED faults)
GoesOn(w) == \E u : Heard(w, u) /\ SameJob(tasks[w], u)

LEMMA JobAfterOrigins ==
    ASSUME NEW t, TaskOK(t), t.pc = "origins", NEW k, TaskOK(k), k.pc \in {"origins", "ports"}, SameJob(k, t)
    PROVE  SameJob(k, AfterOrigins(t))
<1>1. CASE t.left = {} /\ t.old = {} /\ t.port = Nil
  <2>1. AfterOrigins(t) = [t EXCEPT !.pc = "ports", !.pool = Nil]
    BY <1>1 DEF AfterOrigins
  <2> QED BY <2>1 DEF TaskOK, SameJob, Removal
<1>2. CASE t.left = {} /\ t.old = {} /\ t.port # Nil
  <2>1. AfterOrigins(t) = [t EXCEPT !.pc = "port"]
    BY <1>2 DEF AfterOrigins
  <2> QED BY <2>1 DEF TaskOK, SameJob, Removal
<1>3. CASE ~(t.left = {} /\ t.old = {})
  <2>1. AfterOrigins(t) = t
    BY <1>3 DEF AfterOrigins
  <2> QED BY <2>1
<1> QED BY <1>1, <1>2, <1>3

Calls(w) ==
    \/ CreateBalancer(w) \/ ReadBalancer(w)
    \/ KeepPort(w) \/ AddOrigin(w) \/ DropOrigin(w) \/ DropPool(w) \/ DropPort(w)
    \/ AddPool(w) \/ AddPort(w) \/ ReadResult(w)
    \/ Exists(w) \/ ReadDoomed(w) \/ DropDoomedPool(w) \/ DropBalancer(w)

LEMMA CallsGoOn ==
    ASSUME IInv, NEW w \in Workers, Calls(w)
    PROVE  GivesUp(w) \/ GoesOn(w)
<1> DEFINE t == tasks[w]
<1>1. TaskOK(t)
  BY DEF IInv, HandInv, InHand
<1>2. ASSUME NEW u, SameJob(t, u), Cut(w) \/ Heard(w, u)
      PROVE  GivesUp(w) \/ GoesOn(w)
  BY <1>2 DEF Cut, GivesUp, GoesOn
<1>4. ASSUME NEW pc \in {"get", "patch"}, t.pc \in {"create", "ports"}
      PROVE  SameJob(t, [t EXCEPT !.pc = pc])
  BY <1>1, <1>4 DEF TaskOK, SameJob, Removal
<1>5. ASSUME NEW pc \in {"read", "finalizer"}, t.pc \in {"exists", "doomed"}
      PROVE  SameJob(t, [t EXCEPT !.pc = pc])
  BY <1>1, <1>5 DEF TaskOK, SameJob, Removal
<1>6. CASE CreateBalancer(w)
  <2> DEFINE u == [t EXCEPT !.pc = "get", !.lb = FreshBalancer]
  <2>1. t.pc = "create" /\ (GivesUp(w) \/ Cut(w) \/ Heard(w, u))
    BY <1>6, Ints, CreateBalancerDoes DEF Missed, GivesUp
  <2>2. SameJob(t, u)
    BY <1>1, <2>1 DEF TaskOK, SameJob, Removal
  <2> HIDE DEF u
  <2> QED BY <1>2, <2>1, <2>2
<1>7. CASE ReadBalancer(w)
  <2> DEFINE u == [t EXCEPT !.pc = "ports", !.snap = lbs[t.lb], !.want = t.ports]
  <2>1. t.pc = "get" /\ (GivesUp(w) \/ Cut(w) \/ Heard(w, u))
    BY <1>7, Ints, ReadBalancerDoes DEF Missed, GivesUp
  <2>2. SameJob(t, u)
    BY <1>1, <2>1 DEF TaskOK, SameJob, Removal
  <2> HIDE DEF u
  <2> QED BY <1>2, <2>1, <2>2
<1>8. CASE KeepPort(w)
  <2>1. t.pc = "ports"
    BY <1>8, Ints, KeepPortDoes
  <2>2. PICK p \in (DOMAIN t.snap) \intersect t.ports :
          \/ Heard(w, Kept(t, p))
          \/ GivesUp(w)
          \/ /\ t.snap[p].pool \in DOMAIN pools
             /\ Cut(w) \/ Heard(w, AfterOrigins(Renewed(Kept(t, p), t.snap[p].pool)))
    BY <1>8, Ints, KeepPortDoes DEF Missed, GivesUp
  <2>3. SameJob(t, Kept(t, p))
    BY <1>1, <2>1 DEF TaskOK, SameJob, Removal, Kept
  <2>4. ASSUME t.snap[p].pool \in DOMAIN pools
        PROVE  SameJob(t, AfterOrigins(Renewed(Kept(t, p), t.snap[p].pool)))
    <3> DEFINE q == t.snap[p].pool
               r == Renewed(Kept(t, p), q)
    <3>1. q \in Nat /\ pools[q] \subseteq Origins /\ IsFiniteSet(pools[q]) /\ InHand(t)
      BY <2>4 DEF IInv, ApiOK, HandInv
    <3>2. TaskOK(r) /\ r.pc = "origins"
      BY <2>1, <3>1, RenewedIs
    <3>3. SameJob(t, r)
      BY <1>1, <2>1 DEF TaskOK, SameJob, Removal, Renewed, Kept
    <3> HIDE DEF r
    <3>4. SameJob(t, AfterOrigins(r))
      BY <1>1, <2>1, <3>2, <3>3, JobAfterOrigins
    <3> QED BY <3>4 DEF r
  <2> QED BY <1>2, <2>2, <2>3, <2>4
<1>9. CASE AddOrigin(w)
  <2> DEFINE k == [t EXCEPT !.left = @ \ {First(t.left)}]
             u == AfterOrigins(k)
  <2>1. t.pc = "origins" /\ (GivesUp(w) \/ Cut(w) \/ Heard(w, u))
    BY <1>9, Ints, AddOriginDoes DEF Missed, GivesUp
  <2>2. TaskOK(k) /\ k.pc = "origins" /\ SameJob(t, k)
    BY <1>1, <2>1 DEF TaskOK, SameJob, Removal
  <2> HIDE DEF k
  <2>3. SameJob(t, u)
    BY <1>1, <2>1, <2>2, JobAfterOrigins
  <2> HIDE DEF u
  <2> QED BY <1>2, <2>1, <2>3
<1>10. CASE DropOrigin(w)
  <2> DEFINE k == [t EXCEPT !.old = @ \ {First(t.old)}]
             u == AfterOrigins(k)
  <2>1. t.pc = "origins" /\ (GivesUp(w) \/ Cut(w) \/ Heard(w, u))
    BY <1>10, Ints, DropOriginDoes DEF Missed, GivesUp
  <2>2. TaskOK(k) /\ k.pc = "origins" /\ SameJob(t, k)
    BY <1>1, <2>1 DEF TaskOK, SameJob, Removal
  <2> HIDE DEF k
  <2>3. SameJob(t, u)
    BY <1>1, <2>1, <2>2, JobAfterOrigins
  <2> HIDE DEF u
  <2> QED BY <1>2, <2>1, <2>3
<1>11. CASE DropPool(w)
  <2> DEFINE u(p) == [t EXCEPT !.snap[p].pool = Nil]
  <2>1. t.pc = "ports"
    BY <1>11, Ints, DropPoolDoes
  <2>2. PICK p \in (DOMAIN t.snap) \ t.ports : GivesUp(w) \/ Cut(w) \/ Heard(w, u(p))
    BY <1>11, Ints, DropPoolDoes DEF Missed, GivesUp
  <2>3. SameJob(t, u(p))
    BY <1>1, <2>1 DEF TaskOK, SameJob, Removal
  <2> HIDE DEF u
  <2> QED BY <1>2, <2>2, <2>3
<1>12. CASE DropPort(w)
  <2> DEFINE u(p) == [t EXCEPT !.snap = Without(t.snap, p)]
  <2>1. t.pc = "ports"
    BY <1>12, Ints, DropPortDoes
  <2>2. PICK p \in (DOMAIN t.snap) \ t.ports : GivesUp(w) \/ Cut(w) \/ Heard(w, u(p))
    BY <1>12, Ints, DropPortDoes DEF Missed, GivesUp
  <2>3. SameJob(t, u(p))
    BY <1>1, <2>1 DEF TaskOK, SameJob, Removal
  <2> HIDE DEF u
  <2> QED BY <1>2, <2>2, <2>3
<1>13. CASE AddPool(w)
  <2> DEFINE k(p) == [t EXCEPT !.pc = "origins", !.pool = FreshPool, !.port = p, !.left = t.nodes]
             u(p) == AfterOrigins(k(p))
  <2>1. t.pc = "ports"
    BY <1>13, Ints, AddPoolDoes
  <2>2. PICK p \in t.want : GivesUp(w) \/ Cut(w) \/ Heard(w, u(p))
    BY <1>13, Ints, AddPoolDoes DEF Missed, GivesUp
  <2>3. FreshPool \in Nat
    BY FreshPoolIs
  <2>4. TaskOK(k(p)) /\ k(p).pc = "origins" /\ SameJob(t, k(p))
    BY <1>1, <2>1, <2>3 DEF TaskOK, SameJob, Removal, Steps, IDs
  <2> HIDE DEF k
  <2>5. SameJob(t, u(p))
    BY <1>1, <2>1, <2>4, JobAfterOrigins
  <2> HIDE DEF u
  <2> QED BY <1>2, <2>2, <2>5
<1>14. CASE AddPort(w)
  <2> DEFINE u == [t EXCEPT !.pc = "ports", !.pool = Nil, !.port = Nil, !.want = @ \ {t.port}]
  <2>1. t.pc = "port" /\ (GivesUp(w) \/ Cut(w) \/ Heard(w, u))
    BY <1>14, Ints, AddPortDoes DEF Missed, GivesUp
  <2>2. SameJob(t, u)
    BY <1>1, <2>1 DEF TaskOK, SameJob, Removal
  <2> HIDE DEF u
  <2> QED BY <1>2, <2>1, <2>2
<1>15. CASE ReadResult(w)
  <2> DEFINE u == [t EXCEPT !.pc = "patch"]
  <2>1. t.pc = "ports" /\ (GivesUp(w) \/ Cut(w) \/ Heard(w, u))
    BY <1>15, Ints, ReadResultDoes DEF Missed, GivesUp
  <2>2. SameJob(t, u)
    BY <1>4, <2>1
  <2> HIDE DEF u
  <2> QED BY <1>2, <2>1, <2>2
<1>16. CASE Exists(w)
  <2> DEFINE u == [t EXCEPT !.pc = "read"]
  <2>1. t.pc = "exists" /\ (GivesUp(w) \/ Cut(w) \/ Heard(w, u))
    BY <1>16, Ints, ExistsDoes DEF Missed, GivesUp
  <2>2. SameJob(t, u)
    BY <1>5, <2>1
  <2> HIDE DEF u
  <2> QED BY <1>2, <2>1, <2>2
<1>17. CASE ReadDoomed(w)
  <2> DEFINE u == [t EXCEPT !.pc = "doomed", !.snap = lbs[t.lb]]
  <2>1. t.pc = "read" /\ (GivesUp(w) \/ Cut(w) \/ Heard(w, u))
    BY <1>17, Ints, ReadDoomedDoes DEF Missed, GivesUp
  <2>2. SameJob(t, u)
    BY <1>1, <2>1 DEF TaskOK, SameJob, Removal
  <2> HIDE DEF u
  <2> QED BY <1>2, <2>1, <2>2
<1>18. CASE DropDoomedPool(w)
  <2> DEFINE u(p) == [t EXCEPT !.snap = Without(t.snap, p)]
  <2>1. t.pc = "doomed"
    BY <1>18, Ints, DropDoomedPoolDoes
  <2>2. PICK p \in DOMAIN t.snap : GivesUp(w) \/ Cut(w) \/ Heard(w, u(p))
    BY <1>18, Ints, DropDoomedPoolDoes DEF Missed, GivesUp
  <2>3. SameJob(t, u(p))
    BY <1>1, <2>1 DEF TaskOK, SameJob, Removal
  <2> HIDE DEF u
  <2> QED BY <1>2, <2>2, <2>3
<1>19. CASE DropBalancer(w)
  <2> DEFINE u == [t EXCEPT !.pc = "finalizer"]
  <2>1. t.pc = "doomed" /\ (GivesUp(w) \/ Cut(w) \/ Heard(w, u))
    BY <1>19, Ints, DropBalancerDoes DEF Missed, GivesUp
  <2>2. SameJob(t, u)
    BY <1>5, <2>1
  <2> HIDE DEF u
  <2> QED BY <1>2, <2>1, <2>2
<1> QED
  BY <1>6, <1>7, <1>8, <1>9, <1>10, <1>11, <1>12, <1>13, <1>14, <1>15, <1>16, <1>17, <1>18, <1>19 DEF Calls

-----------------------------------------------------------------------------
(* The other steps *)

\* The object a host update was given is in the cache as long as it says so.
CacheInv == \A w \in Workers : tasks[w].cached => held # Nil

LEMMA TasksStep ==
    ASSUME IInv, UNCHANGED api, DOMAIN tasks' = Workers,
           \A v \in Workers : InHand(tasks'[v]) /\ Within(tasks'[v], tasks[v])
    PROVE  HandInv' /\ ApiOK(lbs, pools)'
<1>1. ApiOK(lbs, pools)' /\ \A v \in Workers : New(lbs', pools', tasks[v])
  BY DEF api, IInv, HandInv
<1>2. \A v \in Workers : New(lbs', pools', tasks'[v])
  BY <1>1 DEF Within, New
<1>3. \A v \in Workers : tasks[v].port # Nil => tasks[v].pool # Nil
  BY NilAssumption DEF IInv, HandInv, New, ApiOK
<1>4. \A v, x \in Workers : Apart(tasks[v], tasks[x]) /\ (v # x => Others(tasks[v], tasks[x]))
  BY DEF IInv, HandInv
<1>5. \A v, x \in Workers : Apart(tasks'[v], tasks'[x])
  BY <1>3, <1>4 DEF Within, Apart
<1>6. \A v, x \in Workers : v # x => Others(tasks'[v], tasks'[x])
  BY <1>3, <1>4 DEF Within, Others
<1> QED BY <1>1, <1>2, <1>5, <1>6 DEF HandInv

LEMMA SameWithin == \A t : Within(t, t)
BY DEF Within

LEMMA NoneInHand ==
    ASSUME NEW u, u.port = Nil, u.pool = Nil, DOMAIN u.snap = {}, NEW t
    PROVE  Within(u, t)
BY DEF Within

LEMMA PutInCacheKeeps ==
    ASSUME IInv, CacheInv, NEW w \in Workers, NEW copy, PutInCache(w, copy),
           tasks[w].cached => copy \in Copies
    PROVE  /\ held' \in Copies \union {Nil} /\ seen' \in Copies /\ (held = Nil <=> held' = Nil)
           /\ news' \in {"none", "one", "more", "shown"} /\ hidden' \in BOOLEAN
<1>1. tasks[w].cached => held # Nil /\ copy # Nil
  BY NilAssumption DEF CacheInv
<1>2. held' = IF tasks[w].cached THEN copy ELSE held
  BY DEF PutInCache
<1>3. seen' = IF tasks[w].cached /\ shared THEN copy ELSE seen
  BY DEF PutInCache
<1>4. held' \in Copies \union {Nil} /\ seen' \in Copies /\ (held = Nil <=> held' = Nil)
  BY <1>1, <1>2, <1>3 DEF IInv, ClusterOK
<1>5. news' \in {"none", "one", "more", "shown"}
  <2> DEFINE n == IF service' = service THEN news ELSE Changed(news)
  <2>1. n \in {"none", "one", "more", "shown"} /\ Shown(n) \in {"none", "one", "more", "shown"}
    BY DEF Changed, Shown, IInv, ClusterOK
  <2>2. news' = n \/ news' = Shown(n)
    BY DEF PutInCache
  <2> QED BY <2>1, <2>2
<1>6. hidden' \in BOOLEAN
  BY DEF PutInCache
<1> QED BY <1>4, <1>5, <1>6

LEMMA PatchedIs ==
    ASSUME IInv, NEW w \in Workers
    PROVE  /\ Patched(tasks[w]) \in Copies
           /\ Patched(tasks[w]).ports = service.ports /\ Patched(tasks[w]).phase = service.phase
           /\ Patched(tasks[w]).id = IF tasks[w].given = tasks[w].lb THEN service.id ELSE tasks[w].lb
           /\ Patched(tasks[w]) = service => Patched(tasks[w]).id = service.id
<1>1. tasks[w].lb \in IDs /\ service \in Copies
  BY DEF IInv, HandInv, InHand, TaskOK, ClusterOK
<1> QED BY <1>1 DEF Patched, Copies, IDs

LEMMA PatchServiceKeeps ==
    ASSUME IInv, CacheInv, NEW w \in Workers, PatchService(w)
    PROVE  IInv' /\ CacheInv'
<1> DEFINE t == tasks[w]
           u == AfterPatch(w)
<1>1. t.pc = "patch" /\ InHand(t) /\ service' = Patched(t) /\ service' \in Copies /\ service'.id \in IDs
  <2>1. t.pc = "patch" /\ InHand(t) /\ service' = Patched(t)
    BY DEF PatchService, At, IInv, HandInv
  <2>2. service' \in Copies
    BY <2>1, PatchedIs
  <2> QED BY <2>1, <2>2 DEF Copies, IDs
<1>2. InHand(u) /\ Within(u, t) /\ (u.cached => t.cached)
  <2>1. CASE w = "service"
    <3>1. u = [t EXCEPT !.pc = "status", !.given = service'.id]
      BY <2>1 DEF AfterPatch
    <3> HIDE DEF u
    <3>2. InHand(u) /\ Within(u, t)
      BY <1>1, <3>1, AnsweredTask
    <3>3. u.cached = t.cached
      BY <1>1, <3>1 DEF InHand, TaskOK
    <3> QED BY <3>2, <3>3
  <2>2. CASE w # "service"
    <3>1. u = Idle /\ ~Idle.cached
      BY <2>2 DEF AfterPatch, Idle
    <3> QED BY <3>1, IdleIs, IdleWithin
  <2> QED BY <2>1, <2>2
<1> HIDE DEF u
<1>3. /\ DOMAIN tasks' = Workers /\ tasks'[w] = u /\ UNCHANGED api
      /\ \A v \in Workers : v # w => tasks'[v] = tasks[v]
  BY DEF PatchService, Step, IInv, HandInv, u
<1>4. HandInv' /\ ApiOK(lbs, pools)'
  <2>1. \A v \in Workers : InHand(tasks'[v]) /\ Within(tasks'[v], tasks[v])
    BY <1>2, <1>3, SameWithin DEF IInv, HandInv
  <2> QED BY <1>3, <2>1, TasksStep
<1>5. /\ held' \in Copies \union {Nil} /\ seen' \in Copies /\ (held = Nil <=> held' = Nil)
      /\ news' \in {"none", "one", "more", "shown"} /\ hidden' \in BOOLEAN
  <2>1. PutInCache(w, service')
    BY DEF PatchService
  <2> QED BY <1>1, <2>1, PutInCacheKeeps
<1>6. ClusterOK'
  BY <1>1, <1>5 DEF PatchService, IInv, ClusterOK
<1>7. CacheInv'
  BY <1>2, <1>3, <1>5 DEF CacheInv
<1> QED BY <1>4, <1>6, <1>7 DEF IInv

LEMMA MarkedIs ==
    ASSUME IInv, CacheInv, NEW w \in Workers, tasks[w].cached
    PROVE  /\ [held EXCEPT !.id = tasks[w].lb] \in Copies
           /\ [held EXCEPT !.id = tasks[w].lb].ports = held.ports
           /\ [held EXCEPT !.id = tasks[w].lb].phase = held.phase
           /\ [held EXCEPT !.id = tasks[w].lb].id = tasks[w].lb
<1>1. tasks[w].lb \in IDs /\ held \in Copies
  BY DEF CacheInv, IInv, ClusterOK, HandInv, InHand, TaskOK
<1> QED BY <1>1 DEF Copies, IDs

LEMMA PatchFailsKeeps ==
    ASSUME IInv, CacheInv, NEW w \in Workers, PatchFails(w)
    PROVE  IInv' /\ CacheInv'
<1>1. /\ DOMAIN tasks' = Workers /\ tasks'[w] = Idle /\ UNCHANGED api
      /\ \A v \in Workers : v # w => tasks'[v] = tasks[v]
  BY DEF PatchFails, IInv, HandInv
<1>2. HandInv' /\ ApiOK(lbs, pools)'
  <2>1. \A v \in Workers : InHand(tasks'[v]) /\ Within(tasks'[v], tasks[v])
    BY <1>1, SameWithin, IdleIs, IdleWithin DEF IInv, HandInv
  <2> QED BY <1>1, <2>1, TasksStep
<1>3. /\ held' \in Copies \union {Nil} /\ seen' \in Copies /\ (held = Nil <=> held' = Nil)
      /\ news' \in {"none", "one", "more", "shown"} /\ hidden' \in BOOLEAN
  <2> DEFINE copy == [held EXCEPT !.id = tasks[w].lb]
  <2>1. PutInCache(w, copy)
    BY DEF PatchFails
  <2>2. tasks[w].cached => copy \in Copies
    BY MarkedIs
  <2> HIDE DEF copy
  <2> QED BY <2>1, <2>2, PutInCacheKeeps
<1>4. faults' \in 0 .. MaxFaults /\ service' \in Copies
  <2>1. Fault \/ UNCHANGED faults
    BY DEF PatchFails, Fault
  <2>2. service' = service \/ service' = Patched(tasks[w])
    BY DEF PatchFails
  <2> QED BY <2>1, <2>2, FaultsOK, PatchedIs DEF IInv, ClusterOK
<1>5. ClusterOK'
  BY <1>3, <1>4 DEF PatchFails, IInv, ClusterOK, Workers
<1>6. ~Idle.cached
  BY DEF Idle
<1>7. CacheInv'
  BY <1>1, <1>3, <1>6 DEF CacheInv
<1> QED BY <1>2, <1>5, <1>7 DEF IInv

LEMMA RemoveFinalizerKeeps ==
    ASSUME IInv, CacheInv, NEW w \in Workers, RemoveFinalizer(w)
    PROVE  IInv' /\ CacheInv'
<1>1. UNCHANGED <<api, seen, hidden, nodes, changes>>
  BY DEF RemoveFinalizer
<1>2. ~Idle.cached
  BY DEF Idle
<1>3. CASE /\ service' = [service EXCEPT !.phase = "gone"]
           /\ news' = Changed(news)
           /\ held' = Nil /\ shared' = FALSE
           /\ tasks' = [service |-> Idle, nodes |-> [tasks["nodes"] EXCEPT !.cached = FALSE]]
           /\ UNCHANGED <<todo, faults>>
  <2> DEFINE n == [tasks["nodes"] EXCEPT !.cached = FALSE]
  <2>1. InHand(n) /\ Within(n, tasks["nodes"]) /\ ~n.cached
    <3>1. InHand(tasks["nodes"])
      BY DEF IInv, HandInv, Workers
    <3> QED BY <3>1, CachedTask DEF InHand, TaskOK
  <2> HIDE DEF n
  <2>2. DOMAIN tasks' = Workers /\ tasks'["service"] = Idle /\ tasks'["nodes"] = n
    BY <1>3 DEF Workers, n
  <2>3. \A v \in Workers : InHand(tasks'[v]) /\ Within(tasks'[v], tasks[v]) /\ ~tasks'[v].cached
    BY <1>2, <2>1, <2>2, IdleIs, IdleWithin DEF Workers
  <2>4. HandInv' /\ ApiOK(lbs, pools)'
    BY <1>1, <2>2, <2>3, TasksStep
  <2>5. [service EXCEPT !.phase = "gone"] \in Copies
    BY DEF IInv, ClusterOK, Copies
  <2>6. ClusterOK'
    BY <1>1, <1>3, <2>5 DEF IInv, ClusterOK, Changed
  <2>7. CacheInv'
    BY <2>3 DEF CacheInv
  <2> QED BY <2>4, <2>6, <2>7 DEF IInv
<1>4. CASE /\ faults < MaxFaults
           /\ faults' = faults + 1 /\ todo' = todo \union {w}
           /\ Step(w, Idle)
           /\ UNCHANGED <<service, news, held, shared>>
  <2>1. /\ DOMAIN tasks' = Workers /\ tasks'[w] = Idle
        /\ \A v \in Workers : v # w => tasks'[v] = tasks[v]
    BY <1>4 DEF Step, IInv, HandInv
  <2>2. HandInv' /\ ApiOK(lbs, pools)'
    <3>1. \A v \in Workers : InHand(tasks'[v]) /\ Within(tasks'[v], tasks[v])
      BY <2>1, SameWithin, IdleIs, IdleWithin DEF IInv, HandInv
    <3> QED BY <1>1, <2>1, <3>1, TasksStep
  <2>3. faults' \in 0 .. MaxFaults
    BY <1>4, FaultsOK DEF Fault, IInv
  <2>4. ClusterOK'
    BY <1>1, <1>4, <2>3 DEF IInv, ClusterOK
  <2>5. CacheInv'
    BY <1>2, <1>4, <2>1 DEF CacheInv
  <2> QED BY <2>2, <2>4, <2>5 DEF IInv
<1> QED BY <1>3, <1>4 DEF RemoveFinalizer

LEMMA SyncServiceKeeps ==
    ASSUME IInv, CacheInv, SyncService
    PROVE  IInv' /\ CacheInv'
<1>1. UNCHANGED <<api, service, seen, news, nodes, faults, changes>> /\ todo' \subseteq Workers
  BY DEF SyncService, IInv, ClusterOK
<1>2. CASE UNCHANGED <<held, shared, hidden, tasks>>
  <2>1. HandInv' /\ ApiOK(lbs, pools)'
    <3>1. \A v \in Workers : InHand(tasks'[v]) /\ Within(tasks'[v], tasks[v])
      BY <1>2, SameWithin DEF IInv, HandInv
    <3> QED BY <1>1, <1>2, <3>1, TasksStep DEF IInv, HandInv
  <2>2. ClusterOK' /\ CacheInv'
    BY <1>1, <1>2 DEF IInv, ClusterOK, CacheInv
  <2> QED BY <2>1, <2>2 DEF IInv
<1>3. CASE /\ held' = seen /\ shared' = TRUE /\ hidden' = FALSE
           /\ tasks' = [service |-> IF seen.phase = "live" THEN Reconcile(seen) ELSE Remove(seen),
                        nodes   |-> [tasks["nodes"] EXCEPT !.cached = @ /\ shared]]
  <2> DEFINE s == IF seen.phase = "live" THEN Reconcile(seen) ELSE Remove(seen)
             c == tasks["nodes"].cached /\ shared
             n == [tasks["nodes"] EXCEPT !.cached = c]
  <2>1. seen \in Copies /\ nodes \subseteq Nodes
    BY DEF IInv, ClusterOK
  <2>2. InHand(s) /\ s.port = Nil /\ s.pool = Nil /\ DOMAIN s.snap = {}
    BY <2>1, StartedIs
  <2>3. InHand(n) /\ Within(n, tasks["nodes"])
    <3>1. InHand(tasks["nodes"])
      BY DEF IInv, HandInv, Workers
    <3>2. c \in BOOLEAN
      OBVIOUS
    <3> HIDE DEF c
    <3> QED BY <3>1, <3>2, CachedTask
  <2>4. DOMAIN tasks' = Workers /\ tasks'["service"] = s /\ tasks'["nodes"] = n
    BY <1>3 DEF Workers
  <2> HIDE DEF s, n
  <2>5. \A v \in Workers : InHand(tasks'[v]) /\ Within(tasks'[v], tasks[v])
    BY <2>2, <2>3, <2>4, NoneInHand DEF Workers
  <2>6. HandInv' /\ ApiOK(lbs, pools)'
    BY <1>1, <2>4, <2>5, TasksStep
  <2>7. ClusterOK'
    BY <1>1, <1>3 DEF IInv, ClusterOK
  <2>8. CacheInv'
    BY <1>3, <2>1, NilAssumption DEF CacheInv
  <2> QED BY <2>6, <2>7, <2>8 DEF IInv
<1> QED BY <1>2, <1>3 DEF SyncService

LEMMA SyncNodesKeeps ==
    ASSUME IInv, CacheInv, SyncNodes
    PROVE  IInv' /\ CacheInv'
<1>1. /\ UNCHANGED <<api, service, seen, news, held, shared, nodes, faults, changes>> /\ todo' \subseteq Workers
      /\ hidden' \in BOOLEAN
  BY DEF SyncNodes, IInv, ClusterOK
<1>2. ClusterOK'
  BY <1>1 DEF IInv, ClusterOK
<1>3. CASE held = Nil /\ UNCHANGED tasks
  <2>1. \A v \in Workers : InHand(tasks'[v]) /\ Within(tasks'[v], tasks[v])
    BY <1>3, SameWithin DEF IInv, HandInv
  <2>2. HandInv' /\ ApiOK(lbs, pools)'
    BY <1>1, <1>3, <2>1, TasksStep DEF IInv, HandInv
  <2>3. CacheInv'
    BY <1>1, <1>3 DEF CacheInv
  <2> QED BY <1>2, <2>2, <2>3 DEF IInv
<1>4. CASE held # Nil /\ Step("nodes", [Reconcile(held) EXCEPT !.cached = TRUE])
  <2> DEFINE r == Reconcile(held)
             u == [r EXCEPT !.cached = TRUE]
  <2>1. held \in Copies /\ nodes \subseteq Nodes
    BY <1>4 DEF IInv, ClusterOK
  <2>2. InHand(r) /\ r.port = Nil /\ r.pool = Nil /\ DOMAIN r.snap = {}
    BY <2>1, StartedIs
  <2> HIDE DEF r
  <2>3. InHand(u) /\ u.port = Nil /\ u.pool = Nil /\ DOMAIN u.snap = {}
    BY <2>2, CachedTask DEF InHand, TaskOK
  <2>4. DOMAIN tasks' = Workers /\ tasks'["nodes"] = u /\ \A v \in Workers : v # "nodes" => tasks'[v] = tasks[v]
    BY <1>4 DEF Step, IInv, HandInv, Workers, r
  <2> HIDE DEF u
  <2>5. \A v \in Workers : InHand(tasks'[v]) /\ Within(tasks'[v], tasks[v])
    BY <2>3, <2>4, NoneInHand, SameWithin DEF IInv, HandInv
  <2>6. HandInv' /\ ApiOK(lbs, pools)'
    BY <1>1, <2>4, <2>5, TasksStep
  <2>7. CacheInv'
    BY <1>1, <1>4 DEF CacheInv
  <2> QED BY <1>2, <2>6, <2>7 DEF IInv
<1> QED BY <1>3, <1>4 DEF SyncNodes

LEMMA CrashKeeps ==
    ASSUME IInv, CacheInv, Crash
    PROVE  IInv' /\ CacheInv'
<1>1. DOMAIN tasks' = Workers /\ \A v \in Workers : tasks'[v] = Idle
  BY DEF Crash
<1>2. HandInv' /\ ApiOK(lbs, pools)'
  <2>1. \A v \in Workers : InHand(tasks'[v]) /\ Within(tasks'[v], tasks[v])
    BY <1>1, IdleIs, IdleWithin
  <2> QED BY <1>1, <2>1, TasksStep DEF Crash
<1>3. faults' \in 0 .. MaxFaults
  BY FaultsOK DEF Crash, Fault, IInv
<1>4. ClusterOK'
  BY <1>3 DEF Crash, IInv, ClusterOK
<1>5. CacheInv'
  BY <1>1 DEF CacheInv, Idle
<1> QED BY <1>2, <1>4, <1>5 DEF IInv

\* Nothing happens to the workers.
LEMMA WorldKeeps ==
    ASSUME IInv, CacheInv, UNCHANGED <<api, tasks, held, faults>>,
           service' \in Copies, seen' \in Copies, news' \in {"none", "one", "more", "shown"},
           shared' \in BOOLEAN, hidden' \in BOOLEAN, nodes' \subseteq Nodes,
           todo' \subseteq Workers, changes' \in 0 .. MaxChanges
    PROVE  IInv' /\ CacheInv'
<1>1. HandInv' /\ ApiOK(lbs, pools)'
  <2>1. \A v \in Workers : InHand(tasks'[v]) /\ Within(tasks'[v], tasks[v])
    BY SameWithin DEF IInv, HandInv
  <2> QED BY <2>1, TasksStep DEF IInv, HandInv
<1>2. ClusterOK' /\ CacheInv'
  BY DEF IInv, ClusterOK, CacheInv
<1> QED BY <1>1, <1>2 DEF IInv

LEMMA ClusterKeeps ==
    ASSUME IInv, CacheInv, Observe \/ ChangeNodes \/ ChangePorts \/ DeleteService
    PROVE  IInv' /\ CacheInv'
<1>1. CASE Observe
  BY <1>1, WorldKeeps DEF Observe, IInv, ClusterOK, Workers
<1>2. ASSUME NEW kind, Change(kind)
      PROVE  UNCHANGED <<api, seen, held, shared, hidden, tasks, faults>> /\ changes' \in 0 .. MaxChanges
  BY <1>2, BoundsAssumption DEF Change, IInv, ClusterOK
<1>3. CASE ChangeNodes
  <2>1. UNCHANGED <<service, news>> /\ nodes' \subseteq Nodes /\ todo' \subseteq Workers
    BY <1>3 DEF ChangeNodes, IInv, ClusterOK, Workers
  <2> QED BY <1>2, <1>3, <2>1, WorldKeeps DEF ChangeNodes, IInv, ClusterOK
<1>4. CASE ChangePorts
  <2>1. PICK P \in SUBSET Ports : service' = [service EXCEPT !.ports = P]
    BY <1>4 DEF ChangePorts
  <2>2. service' \in Copies /\ news' \in {"one", "more"} /\ UNCHANGED <<nodes, todo>>
    BY <1>4, <2>1 DEF ChangePorts, IInv, ClusterOK, Copies, Changed
  <2> QED BY <1>2, <1>4, <2>2, WorldKeeps DEF ChangePorts, IInv, ClusterOK
<1>5. CASE DeleteService
  <2>1. service' \in Copies /\ news' \in {"one", "more"} /\ UNCHANGED <<nodes, todo>>
    BY <1>5 DEF DeleteService, IInv, ClusterOK, Copies, Changed
  <2> QED BY <1>2, <1>5, <2>1, WorldKeeps DEF DeleteService, IInv, ClusterOK
<1> QED BY <1>1, <1>3, <1>4, <1>5

LEMMA CallsKeep ==
    ASSUME IInv, CacheInv, NEW w \in Workers, Calls(w) \/ ReadStatus(w)
    PROVE  IInv' /\ CacheInv'
<1>1. IInv'
  BY CreateBalancerKeeps, ReadBalancerKeeps, KeepPortKeeps, AddOriginKeeps, DropOriginKeeps, DropPoolKeeps,
     DropPortKeeps, AddPoolKeeps, AddPortKeeps, ReadsKeep, ReadDoomedKeeps, DropDoomedPoolKeeps,
     DropBalancerKeeps DEF Calls
<1>2. ~Idle.cached
  BY DEF Idle
<1>3. UNCHANGED k8s /\ \E u : tasks' = [tasks EXCEPT ![w] = u] /\ (u.cached => tasks[w].cached)
  <2>1. CASE Calls(w)
    <3>1. GivesUp(w) \/ GoesOn(w)
      BY <2>1, CallsGoOn
    <3> QED BY <1>2, <3>1 DEF GivesUp, GoesOn, Fail, Heard, Step, SameJob
  <2>2. CASE ReadStatus(w)
    <3>1. UNCHANGED k8s /\ tasks' = [tasks EXCEPT ![w] = Idle]
      BY <2>2, Ints, ReadStatusDoes DEF Missed, Cut, Heard, Fail, Step
    <3> QED BY <1>2, <3>1
  <2> QED BY <2>1, <2>2
<1>4. CacheInv'
  BY <1>3 DEF CacheInv, k8s, IInv, HandInv
<1> QED BY <1>1, <1>4

\* Between any two calls what a worker holds is of the step it is at: the pool it has made
\* for a new port is nobody's port's and not in the other worker's hands, whatever that one
\* does and whichever calls fail (manager.go:179-199).
THEOREM Invariance == Spec => [](IInv /\ CacheInv)
<1>1. Init => IInv /\ CacheInv
  <2> SUFFICES ASSUME Init PROVE IInv /\ CacheInv
    OBVIOUS
  <2>1. DOMAIN lbs = {} /\ DOMAIN pools = {} /\ IsFiniteSet({})
    BY FS_EmptySet DEF Init
  <2>2. ApiOK(lbs, pools)
    BY <2>1 DEF ApiOK
  <2>3. DOMAIN tasks = Workers /\ \A w \in Workers : tasks[w] = Idle
    BY DEF Init
  <2>4. HandInv
    BY <2>3, IdleIs DEF HandInv, New, Apart, Others
  <2>5. ClusterOK
    <3>1. service \in Copies
      BY DEF Init, Copies
    <3>2. faults \in 0 .. MaxFaults /\ changes \in 0 .. MaxChanges
      BY BoundsAssumption DEF Init
    <3>3. seen = service /\ held = Nil /\ nodes = Nodes /\ todo \subseteq Workers
      BY DEF Init, Workers
    <3>4. shared \in BOOLEAN /\ hidden \in BOOLEAN /\ news = "none"
      BY DEF Init
    <3> QED BY <3>1, <3>2, <3>3, <3>4 DEF ClusterOK
  <2>6. CacheInv
    BY <2>3 DEF CacheInv, Idle
  <2> QED BY <2>2, <2>4, <2>5, <2>6 DEF IInv
<1>2. IInv /\ CacheInv /\ [Next]_vars => IInv' /\ CacheInv'
  <2> SUFFICES ASSUME IInv, CacheInv, [Next]_vars PROVE IInv' /\ CacheInv'
    OBVIOUS
  <2>1. CASE UNCHANGED vars
    <3>1. UNCHANGED <<api, tasks, held, faults, service, seen, news, shared, hidden, nodes, todo, changes>>
      BY <2>1 DEF vars, k8s
    <3> QED BY <3>1, WorldKeeps DEF IInv, ClusterOK
  <2>2. ASSUME NEW w \in Workers, Work(w) PROVE IInv' /\ CacheInv'
    BY <2>2, CallsKeep, PatchServiceKeeps, PatchFailsKeeps, RemoveFinalizerKeeps DEF Work, Calls
  <2>3. CASE SyncService \/ SyncNodes \/ Observe \/ Crash \/ ChangeNodes \/ ChangePorts \/ DeleteService
    BY <2>3, SyncServiceKeeps, SyncNodesKeeps, CrashKeeps, ClusterKeeps
  <2> QED BY <2>1, <2>2, <2>3 DEF Next
<1> QED BY <1>1, <1>2, PTL DEF Spec

\* What the API, the service and the workers have is of the expected shape, and every
\* port's pool exists: a pool in the hands of a worker that has yet to make its port is
\* in no other hands, whatever the two workers do at once (manager.go:179-199).
THEOREM TypeCorrectness == Spec => []TypeOK
<1>1. IInv => TypeOK
  BY DEF IInv, ApiOK, HandInv, InHand, ClusterOK, TypeOK
<1> QED BY <1>1, Invariance, PTL

-----------------------------------------------------------------------------
(* The two workers take turns.                                               *)

\* No two ports have the same pool.
Unique(L) == \A b, c \in DOMAIN L : \A p \in DOMAIN L[b], r \in DOMAIN L[c] :
    L[b][p].pool = L[c][r].pool /\ L[b][p].pool # Nil => b = c /\ p = r

\* The nodes that have an origin.
On(O) == {o[1] : o \in O}

\* The load balancer b has the ports S, and all their pools the nodes N.
BalancedFor(L, P, b, S, N) ==
    /\ b \in DOMAIN L /\ DOMAIN L[b] = S
    /\ \A p \in S : L[b][p].pool # Nil => On(P[L[b][p].pool]) = N

\* In the middle of a reconciliation: the ports it has yet to look at are as it read them,
\* the others are wanted and their pools done, but the pool it is working on; that one has
\* the nodes it has been through, besides the origins that are to go.
Reconciling(L, P, t) ==
    /\ t.lb \in DOMAIN L
    /\ \A p \in DOMAIN t.snap : p \in DOMAIN L[t.lb] /\ L[t.lb][p] = t.snap[p]
    /\ DOMAIN L[t.lb] \subseteq (DOMAIN t.snap) \union t.ports
    /\ t.want = t.ports \ ((DOMAIN L[t.lb]) \ DOMAIN t.snap)
    /\ \A p \in (DOMAIN L[t.lb]) \ DOMAIN t.snap :
         L[t.lb][p].pool \notin {Nil, t.pool} => On(P[L[t.lb][p].pool]) = t.nodes
    /\ t.port # Nil => DOMAIN t.snap = {}
    /\ t.pc \in {"origins", "port"} =>
         /\ t.pool \in DOMAIN P /\ t.old \subseteq P[t.pool]
         /\ On(P[t.pool] \ t.old) = t.nodes \ t.left
         /\ t.port = Nil => \E p \in DOMAIN L[t.lb] : L[t.lb][p].pool = t.pool

Doing(L, P, t) ==
    /\ t.pc \in {"ports", "origins", "port"} => Reconciling(L, P, t)
    /\ t.pc \in {"patch", "status"} => BalancedFor(L, P, t.lb, t.ports, t.nodes)
    /\ t.pc \in Removal => t.ports = {}
    /\ t.pc = "doomed" /\ t.lb \in DOMAIN L =>
         \A p \in DOMAIN L[t.lb] : L[t.lb][p].pool # Nil => p \in DOMAIN t.snap /\ t.snap[p] = L[t.lb][p]

TurnInv ==
    /\ \A v, w \in Workers : Busy(v) /\ Busy(w) => v = w
    /\ tasks["nodes"].pc \notin Removal \union {"status"}
    /\ Unique(lbs)
    /\ \A w \in Workers : Doing(lbs, pools, tasks[w])

LEMMA IdleDoes == \A L, P : Doing(L, P, Idle)
BY DEF Doing, Idle, Removal

\* Traffic to port p of b reaches node n.
ServesIn(L, P, b, p, n) ==
    b \in DOMAIN L /\ p \in DOMAIN L[b] /\ L[b][p].pool # Nil /\ n \in On(P[L[b][p].pool])

\* What a worker wants served stays served.
ServingKept(L, P, M, R, t) ==
    \A b, p, n : ServesIn(L, P, b, p, n) /\ p \in t.ports /\ n \in t.nodes => ServesIn(M, R, b, p, n)

\* The pools that are nobody's, but for q.
Spare(L, P, q) == {x \in DOMAIN P : x # q /\ Unnamed(L, x)}

Accounted ==
    \/ Orphans' \subseteq Orphans /\ (Fault \/ UNCHANGED faults)
    \/ Fault /\ \E x : Orphans' \subseteq Orphans \union {x}

Turn(w) == TurnInv' /\ ServingKept(lbs, pools, lbs', pools', tasks[w]) /\ Accounted

Nobodys(L, P, T) ==
    (DOMAIN P) \ ({T[w].pool : w \in Workers} \union (UNION {{L[b][p].pool : p \in DOMAIN L[b]} : b \in DOMAIN L}))

LEMMA OrphansOf ==
    \A L, P, T : \A w \in Workers :
      ApiOK(L, P) /\ (\A v \in Workers : v # w => T[v].pool = Nil) => Nobodys(L, P, T) = Spare(L, P, T[w].pool)
<1> SUFFICES ASSUME NEW L, NEW P, ApiOK(L, P), NEW T, NEW w \in Workers, \A v \in Workers : v # w => T[v].pool = Nil
             PROVE  Nobodys(L, P, T) = Spare(L, P, T[w].pool)
  OBVIOUS
<1> DEFINE hands == {T[v].pool : v \in Workers}
           named == UNION {{L[b][p].pool : p \in DOMAIN L[b]} : b \in DOMAIN L}
<1>1. Nil \notin DOMAIN P
  BY NilAssumption DEF ApiOK
<1>2. \A x \in DOMAIN P : x \in hands <=> x = T[w].pool
  BY <1>1
<1>3. \A x : x \in named <=> ~Unnamed(L, x)
  BY DEF Unnamed
<1> HIDE DEF hands, named
<1>4. (DOMAIN P) \ (hands \union named) = Spare(L, P, T[w].pool)
  BY <1>2, <1>3 DEF Spare
<1> QED BY <1>4 DEF Nobodys, hands, named

\* The worker that is busy takes a step: the other one is idle.
LEMMA TurnStep ==
    ASSUME IInv, IInv', TurnInv, NEW w \in Workers, Busy(w), NEW u, tasks' = [tasks EXCEPT ![w] = u],
           Unique(lbs'), Doing(lbs', pools', u), w = "nodes" => u.pc \notin Removal \union {"status"},
           ServingKept(lbs, pools, lbs', pools', tasks[w]),
           \/ Spare(lbs', pools', u.pool) \subseteq Spare(lbs, pools, tasks[w].pool) /\ (Fault \/ UNCHANGED faults)
           \/ Fault /\ \E x : Spare(lbs', pools', u.pool) \subseteq Spare(lbs, pools, tasks[w].pool) \union {x}
    PROVE  Turn(w)
<1>1. DOMAIN tasks = Workers /\ \A v \in Workers : v # w => tasks[v].pc = "idle" /\ tasks'[v] = tasks[v]
  BY DEF IInv, HandInv, TurnInv, Busy
<1>2. tasks'[w] = u
  BY <1>1
<1>3. TurnInv'
  <2>1. \A v \in Workers : v # w => Doing(lbs', pools', tasks'[v])
    BY <1>1 DEF Doing, Removal
  <2>2. \A v, x \in Workers : Busy(v)' /\ Busy(x)' => v = x
    BY <1>1 DEF Busy
  <2>3. tasks'["nodes"].pc \notin Removal \union {"status"}
    BY <1>1, <1>2 DEF Removal, Workers
  <2> QED BY <1>2, <2>1, <2>2, <2>3 DEF TurnInv
<1>4. \A v \in Workers : v # w => tasks[v].pool = Nil /\ tasks'[v].pool = Nil
  BY <1>1 DEF IInv, HandInv, InHand
<1>5. Orphans = Spare(lbs, pools, tasks[w].pool)
  <2>1. Orphans = Nobodys(lbs, pools, tasks)
    BY DEF Orphans, Nobodys
  <2> QED BY <1>4, <2>1, OrphansOf DEF IInv
<1>6. Orphans' = Spare(lbs', pools', u.pool)
  <2>1. ApiOK(lbs', pools')
    BY DEF IInv
  <2> DEFINE T == tasks'
  <2>2. Orphans' = Nobodys(lbs', pools', T)
    BY DEF Orphans, Nobodys
  <2>3. (\A v \in Workers : v # w => T[v].pool = Nil) /\ T[w] = u
    BY <1>2, <1>4
  <2> HIDE DEF T
  <2>4. Nobodys(lbs', pools', T) = Spare(lbs', pools', T[w].pool)
    BY <2>1, <2>3, OrphansOf
  <2> QED BY <2>2, <2>3, <2>4
<1>7. Accounted
  BY <1>5, <1>6 DEF Accounted
<1> QED BY <1>3, <1>7 DEF Turn

\* A step that leaves the worker idle by a fault: at most its pool is lost.
LEMMA CutTurn ==
    ASSUME IInv, IInv', TurnInv, NEW w \in Workers, Busy(w), Cut(w), Unique(lbs'),
           ServingKept(lbs, pools, lbs', pools', tasks[w]),
           \E x : Spare(lbs', pools', Nil) \subseteq Spare(lbs, pools, tasks[w].pool) \union {x}
    PROVE  Turn(w)
<1>1. Idle.pc = "idle" /\ Idle.pool = Nil
  BY DEF Idle
<1>2. tasks' = [tasks EXCEPT ![w] = Idle] /\ Fault
  BY DEF Cut, Fail
<1> QED BY <1>1, <1>2, TurnStep, IdleDoes DEF Removal

LEMMA SameServing == \A L, P, t : ServingKept(L, P, L, P, t)
BY DEF ServingKept

LEMMA MissedTurn ==
    ASSUME IInv, IInv', TurnInv, NEW w \in Workers, Busy(w), NEW e \in BOOLEAN, Missed(w, e),
           ~e => Spare(lbs, pools, Nil) \subseteq Spare(lbs, pools, tasks[w].pool)
    PROVE  Turn(w)
<1>1. Unique(lbs') /\ lbs' = lbs /\ pools' = pools
  BY DEF Missed, api, TurnInv
<1>2. Idle.pc = "idle" /\ Idle.pool = Nil
  BY DEF Idle
<1>3. tasks' = [tasks EXCEPT ![w] = Idle] /\ (Fault \/ (~e /\ UNCHANGED faults))
  BY DEF Missed, Fail
<1>4. Spare(lbs, pools, Nil) \subseteq Spare(lbs, pools, tasks[w].pool) \union {tasks[w].pool}
  BY DEF Spare
<1>5. ServingKept(lbs, pools, lbs', pools', tasks[w])
  BY <1>1, SameServing
<1>6. \/ Spare(lbs', pools', Idle.pool) \subseteq Spare(lbs, pools, tasks[w].pool) /\ (Fault \/ UNCHANGED faults)
      \/ Fault /\ \E x : Spare(lbs', pools', Idle.pool) \subseteq Spare(lbs, pools, tasks[w].pool) \union {x}
  BY <1>1, <1>2, <1>3, <1>4
<1> QED BY <1>1, <1>2, <1>3, <1>5, <1>6, TurnStep, IdleDoes DEF Removal

LEMMA ObeyedTurn ==
    ASSUME IInv, IInv', TurnInv, NEW w \in Workers, Busy(w), NEW u, Cut(w) \/ Heard(w, u), Unique(lbs'),
           ServingKept(lbs, pools, lbs', pools', tasks[w]),
           \E x : Spare(lbs', pools', Nil) \subseteq Spare(lbs, pools, tasks[w].pool) \union {x},
           Heard(w, u) => /\ Doing(lbs', pools', u) /\ (w = "nodes" => u.pc \notin Removal \union {"status"})
                          /\ Spare(lbs', pools', u.pool) \subseteq Spare(lbs, pools, tasks[w].pool)
    PROVE  Turn(w)
<1>1. CASE Cut(w)
  BY <1>1, CutTurn
<1>2. CASE Heard(w, u)
  BY <1>2, TurnStep DEF Heard, Step
<1> QED BY <1>1, <1>2

\* A pool in hand takes one off those that are nobody's.
LEMMA SpareIs ==
    ASSUME NEW L, NEW P, NEW q
    PROVE  /\ Spare(L, P, Nil) \subseteq Spare(L, P, q) \union {q}
           /\ ApiOK(L, P) => Spare(L, P, q) \subseteq Spare(L, P, Nil)
BY NilAssumption DEF Spare, ApiOK

-----------------------------------------------------------------------------
(* What the calls do to ports and their pools.                               *)

LEMMA UniqueMade ==
    ASSUME NEW L, Unique(L), NEW b, b \notin DOMAIN L
    PROVE  Unique(Plus(L, b, <<>>))
<1>1. DOMAIN Plus(L, b, <<>>) = (DOMAIN L) \union {b} /\ Plus(L, b, <<>>)[b] = <<>>
      /\ \A c \in DOMAIN L : Plus(L, b, <<>>)[c] = L[c]
  BY DEF Plus
<1>2. DOMAIN Plus(L, b, <<>>)[b] = {}
  BY <1>1
<1> QED BY <1>1, <1>2 DEF Unique

LEMMA UniqueStripped ==
    ASSUME NEW L, NEW M, NEW q, Unique(L), Strips(L, q, M)
    PROVE  Unique(M)
BY DEF Unique, Strips

LEMMA UniqueLess ==
    ASSUME NEW L, NEW M, Unique(L), DOMAIN M \subseteq DOMAIN L,
           \A b \in DOMAIN M : \A p \in DOMAIN M[b] : p \in DOMAIN L[b] /\ M[b][p] = L[b][p]
    PROVE  Unique(M)
BY DEF Unique

LEMMA UniquePortMade ==
    ASSUME NEW L, Unique(L), NEW b \in DOMAIN L, NEW p, NEW r, Unnamed(L, r.pool)
    PROVE  Unique([L EXCEPT ![b] = Plus(L[b], p, r)])
<1> DEFINE m == Plus(L[b], p, r)
           M == [L EXCEPT ![b] = m]
<1>1. DOMAIN m = (DOMAIN L[b]) \union {p} /\ m[p] = r /\ \A y \in DOMAIN L[b] : y # p => m[y] = L[b][y]
  BY DEF Plus
<1> HIDE DEF m
<1>2. DOMAIN M = DOMAIN L /\ M[b] = m /\ \A c \in DOMAIN L : c # b => M[c] = L[c]
  OBVIOUS
<1> HIDE DEF M
<1>3. \A c \in DOMAIN M : \A y \in DOMAIN M[c] :
        (c = b /\ y = p /\ M[c][y] = r) \/ (c \in DOMAIN L /\ y \in DOMAIN L[c] /\ M[c][y] = L[c][y])
  BY <1>1, <1>2
<1>4. Unique(M)
  BY <1>3 DEF Unique, Unnamed
<1> QED BY <1>4 DEF M, m

-----------------------------------------------------------------------------
(* Each call leaves the reconciliation where the next one takes it up.       *)

LEMMA AfterOriginsDoes ==
    ASSUME NEW L, NEW P, NEW t, TaskOK(t), t.pc = "origins", Reconciling(L, P, t)
    PROVE  Doing(L, P, AfterOrigins(t)) /\ Spare(L, P, AfterOrigins(t).pool) \subseteq Spare(L, P, t.pool)
<1> DEFINE u == AfterOrigins(t)
<1>1. CASE t.left = {} /\ t.old = {} /\ t.port = Nil
  <2>1. u = [t EXCEPT !.pc = "ports", !.pool = Nil]
    BY <1>1 DEF AfterOrigins
  <2> HIDE DEF u
  <2>2. /\ u.pc = "ports" /\ u.pool = Nil /\ u.lb = t.lb /\ u.snap = t.snap /\ u.want = t.want
        /\ u.ports = t.ports /\ u.nodes = t.nodes /\ u.port = Nil
    BY <1>1, <2>1 DEF TaskOK
  <2>3. P[t.pool] \ t.old = P[t.pool] /\ t.nodes \ t.left = t.nodes
    BY <1>1
  <2>4. On(P[t.pool]) = t.nodes
    BY <1>1, <2>3 DEF Reconciling
  <2>5. \A p \in (DOMAIN L[t.lb]) \ DOMAIN t.snap : L[t.lb][p].pool # Nil => On(P[L[t.lb][p].pool]) = t.nodes
    BY <2>4 DEF Reconciling
  <2>6. Doing(L, P, u)
    BY <2>2, <2>5 DEF Doing, Reconciling, Removal
  <2>7. \E p \in DOMAIN L[t.lb] : L[t.lb][p].pool = t.pool
    BY <1>1 DEF Reconciling
  <2>8. Spare(L, P, Nil) \subseteq Spare(L, P, t.pool)
    BY <2>7 DEF Reconciling, Spare, Unnamed
  <2> QED BY <2>2, <2>6, <2>8 DEF u
<1>2. CASE t.left = {} /\ t.old = {} /\ t.port # Nil
  <2>1. u = [t EXCEPT !.pc = "port"]
    BY <1>2 DEF AfterOrigins
  <2> HIDE DEF u
  <2>2. /\ u.pc = "port" /\ u.pool = t.pool /\ u.lb = t.lb /\ u.snap = t.snap /\ u.want = t.want
        /\ u.ports = t.ports /\ u.nodes = t.nodes /\ u.port = t.port /\ u.left = t.left /\ u.old = t.old
    BY <2>1 DEF TaskOK
  <2> QED BY <1>2, <2>2 DEF Doing, Reconciling, Removal, u
<1>3. CASE ~(t.left = {} /\ t.old = {})
  <2>1. u = t
    BY <1>3 DEF AfterOrigins
  <2> QED BY <2>1 DEF Doing, Removal
<1> QED BY <1>1, <1>2, <1>3

LEMMA ReadBalancerDoing ==
    ASSUME NEW L, NEW P, NEW t, InHand(t), t.pc = "get", t.lb \in DOMAIN L
    PROVE  Doing(L, P, [t EXCEPT !.pc = "ports", !.snap = L[t.lb], !.want = t.ports])
<1> DEFINE u == [t EXCEPT !.pc = "ports", !.snap = L[t.lb], !.want = t.ports]
<1>1. /\ u.pc = "ports" /\ u.lb = t.lb /\ u.snap = L[t.lb] /\ u.want = t.ports /\ u.ports = t.ports
      /\ u.port = Nil
  BY DEF InHand, TaskOK
<1> HIDE DEF u
<1>2. Doing(L, P, u)
  BY <1>1 DEF Doing, Reconciling, Removal
<1> QED BY <1>2 DEF u

LEMMA KeptDoing ==
    ASSUME NEW L, NEW P, NEW t, InHand(t), t.pc = "ports", Reconciling(L, P, t),
           NEW p \in (DOMAIN t.snap) \intersect t.ports, t.snap[p].pool = Nil
    PROVE  Doing(L, P, Kept(t, p))
<1> DEFINE u == Kept(t, p)
<1>1. /\ u.pc = "ports" /\ u.lb = t.lb /\ u.snap = Without(t.snap, p) /\ u.want = t.want \ {p}
      /\ u.ports = t.ports /\ u.nodes = t.nodes /\ u.pool = t.pool /\ u.port = Nil
  BY DEF InHand, TaskOK, Kept
<1> HIDE DEF u
<1>2. DOMAIN u.snap = (DOMAIN t.snap) \ {p} /\ \A r \in DOMAIN u.snap : u.snap[r] = t.snap[r]
  BY <1>1 DEF Without
<1>3. t.pool = Nil /\ p \in DOMAIN L[t.lb] /\ L[t.lb][p].pool = Nil
  BY DEF InHand, Reconciling
<1>4. Reconciling(L, P, u)
  BY <1>1, <1>2, <1>3 DEF Reconciling
<1>5. Doing(L, P, u)
  BY <1>1, <1>4 DEF Doing, Removal
<1> QED BY <1>5 DEF u

LEMMA RenewedDoing ==
    ASSUME NEW t, InHand(t), t.pc = "ports", Reconciling(lbs, pools, t), ApiOK(lbs, pools),
           NEW p \in (DOMAIN t.snap) \intersect t.ports, t.snap[p].pool \in DOMAIN pools
    PROVE  LET u == AfterOrigins(Renewed(Kept(t, p), t.snap[p].pool))
           IN  Doing(lbs, pools, u) /\ Spare(lbs, pools, u.pool) \subseteq Spare(lbs, pools, Nil)
<1> DEFINE q == t.snap[p].pool
           u == Renewed(Kept(t, p), q)
<1>1. /\ u.pc = "origins" /\ u.lb = t.lb /\ u.snap = Without(t.snap, p) /\ u.want = t.want \ {p}
      /\ u.ports = t.ports /\ u.nodes = t.nodes /\ u.pool = q /\ u.port = Nil
      /\ u.left = t.nodes /\ u.old = pools[q]
  BY DEF InHand, TaskOK, Kept, Renewed
<1>2. TaskOK(u)
  <2>1. q \in Nat /\ pools[q] \subseteq Origins /\ IsFiniteSet(pools[q])
    BY DEF ApiOK
  <2> HIDE DEF q
  <2> QED BY <2>1, RenewedIs
<1> HIDE DEF u
<1>3. DOMAIN u.snap = (DOMAIN t.snap) \ {p} /\ \A r \in DOMAIN u.snap : u.snap[r] = t.snap[r]
  BY <1>1 DEF Without
<1>4. t.pool = Nil /\ p \in DOMAIN lbs[t.lb] /\ lbs[t.lb][p].pool = q
  BY DEF InHand, Reconciling
<1>5. On(pools[q] \ pools[q]) = {} /\ t.nodes \ t.nodes = {}
  BY DEF On
<1>6. u.want = t.ports \ ((DOMAIN lbs[t.lb]) \ DOMAIN u.snap)
  BY <1>1, <1>3, <1>4 DEF Reconciling
<1>7. Reconciling(lbs, pools, u)
  <2>1. \A r \in (DOMAIN lbs[t.lb]) \ DOMAIN u.snap :
          lbs[t.lb][r].pool \notin {Nil, q} => On(pools[lbs[t.lb][r].pool]) = t.nodes
    BY <1>3, <1>4 DEF Reconciling
  <2>2. \A r \in DOMAIN u.snap : r \in DOMAIN lbs[t.lb] /\ lbs[t.lb][r] = u.snap[r]
    BY <1>3 DEF Reconciling
  <2>3. DOMAIN lbs[t.lb] \subseteq (DOMAIN u.snap) \union t.ports
    BY <1>3 DEF Reconciling
  <2>4. t.lb \in DOMAIN lbs
    BY DEF Reconciling
  <2> HIDE DEF q
  <2> QED BY <1>1, <1>4, <1>5, <1>6, <2>1, <2>2, <2>3, <2>4 DEF Reconciling, q
<1>8. Doing(lbs, pools, AfterOrigins(u)) /\ Spare(lbs, pools, AfterOrigins(u).pool) \subseteq Spare(lbs, pools, u.pool)
  BY <1>1, <1>2, <1>7, AfterOriginsDoes
<1>9. Spare(lbs, pools, u.pool) \subseteq Spare(lbs, pools, Nil)
  BY SpareIs
<1> QED BY <1>8, <1>9 DEF u, q

LEMMA AddOriginDoing ==
    ASSUME NEW L, NEW P, NEW t, InHand(t), t.pc = "origins", Reconciling(L, P, t),
           NEW n \in t.left, NEW o, o[1] = n, o \notin t.old
    PROVE  LET u == AfterOrigins([t EXCEPT !.left = @ \ {n}])
               R == [P EXCEPT ![t.pool] = P[t.pool] \union {o}]
           IN  /\ Doing(L, R, u)
               /\ Spare(L, R, u.pool) \subseteq Spare(L, P, t.pool) /\ Spare(L, R, Nil) = Spare(L, P, Nil)
               /\ ServingKept(L, P, L, R, t)
<1> DEFINE u == [t EXCEPT !.left = @ \ {n}]
           R == [P EXCEPT ![t.pool] = P[t.pool] \union {o}]
<1>1. /\ u.pc = "origins" /\ u.lb = t.lb /\ u.snap = t.snap /\ u.want = t.want
      /\ u.ports = t.ports /\ u.nodes = t.nodes /\ u.pool = t.pool /\ u.port = t.port
      /\ u.left = t.left \ {n} /\ u.old = t.old
  BY DEF InHand, TaskOK
<1>2. TaskOK(u)
  BY DEF InHand, TaskOK
<1> HIDE DEF u
<1>3. t.pool \in DOMAIN P /\ t.old \subseteq P[t.pool] /\ On(P[t.pool] \ t.old) = t.nodes \ t.left
      /\ (t.port = Nil => \E p \in DOMAIN L[t.lb] : L[t.lb][p].pool = t.pool)
  BY DEF Reconciling
<1>4. DOMAIN R = DOMAIN P /\ R[t.pool] = P[t.pool] \union {o} /\ \A q : q # t.pool => R[q] = P[q]
  BY <1>3
<1> HIDE DEF R
<1>5. n \in t.nodes /\ t.left \subseteq t.nodes
  BY DEF InHand, TaskOK
<1>6. On(R[t.pool] \ t.old) = On(P[t.pool] \ t.old) \union {n}
  BY <1>4 DEF On
<1>7. On(R[t.pool] \ t.old) = t.nodes \ (t.left \ {n})
  BY <1>3, <1>5, <1>6
<1>8. \A p \in (DOMAIN L[t.lb]) \ DOMAIN t.snap :
        L[t.lb][p].pool \notin {Nil, t.pool} => On(R[L[t.lb][p].pool]) = t.nodes
  <2> TAKE p \in (DOMAIN L[t.lb]) \ DOMAIN t.snap
  <2> HAVE L[t.lb][p].pool \notin {Nil, t.pool}
  <2>1. On(P[L[t.lb][p].pool]) = t.nodes
    BY DEF Reconciling
  <2>2. R[L[t.lb][p].pool] = P[L[t.lb][p].pool]
    BY DEF R
  <2> QED BY <2>1, <2>2
<1>9. Reconciling(L, R, u)
  BY <1>1, <1>3, <1>4, <1>7, <1>8 DEF Reconciling
<1>10. Doing(L, R, AfterOrigins(u)) /\ Spare(L, R, AfterOrigins(u).pool) \subseteq Spare(L, R, u.pool)
  BY <1>1, <1>2, <1>9, AfterOriginsDoes
<1>11. Spare(L, R, t.pool) = Spare(L, P, t.pool) /\ Spare(L, R, Nil) = Spare(L, P, Nil)
  BY <1>4 DEF Spare
<1>12. \A q, m : m \in On(P[q]) => m \in On(R[q])
  <2>1. \A q : P[q] \subseteq R[q]
    BY <1>4 DEF R
  <2> QED BY <2>1 DEF On
<1>13. ServingKept(L, P, L, R, t)
  BY <1>12 DEF ServingKept, ServesIn
<1> QED BY <1>1, <1>10, <1>11, <1>13 DEF u, R

LEMMA DropOriginDoing ==
    ASSUME NEW L, NEW P, NEW t, InHand(t), t.pc = "origins", t.left = {}, Reconciling(L, P, t),
           NEW o \in t.old
    PROVE  LET u == AfterOrigins([t EXCEPT !.old = @ \ {o}])
               R == [P EXCEPT ![t.pool] = P[t.pool] \ {o}]
           IN  /\ Doing(L, R, u)
               /\ Spare(L, R, u.pool) \subseteq Spare(L, P, t.pool) /\ Spare(L, R, Nil) = Spare(L, P, Nil)
               /\ ServingKept(L, P, L, R, t)
<1> DEFINE u == [t EXCEPT !.old = @ \ {o}]
           R == [P EXCEPT ![t.pool] = P[t.pool] \ {o}]
<1>1. /\ u.pc = "origins" /\ u.lb = t.lb /\ u.snap = t.snap /\ u.want = t.want
      /\ u.ports = t.ports /\ u.nodes = t.nodes /\ u.pool = t.pool /\ u.port = t.port
      /\ u.left = t.left /\ u.old = t.old \ {o}
  BY DEF InHand, TaskOK
<1>2. TaskOK(u)
  BY DEF InHand, TaskOK
<1> HIDE DEF u
<1>3. t.pool \in DOMAIN P /\ t.old \subseteq P[t.pool] /\ On(P[t.pool] \ t.old) = t.nodes \ t.left
      /\ (t.port = Nil => \E p \in DOMAIN L[t.lb] : L[t.lb][p].pool = t.pool)
  BY DEF Reconciling
<1>4. DOMAIN R = DOMAIN P /\ R[t.pool] = P[t.pool] \ {o} /\ \A q : q # t.pool => R[q] = P[q]
  BY <1>3
<1> HIDE DEF R
<1>5. R[t.pool] \ u.old = P[t.pool] \ t.old /\ u.old \subseteq R[t.pool]
  BY <1>1, <1>3, <1>4
<1>6. \A p \in (DOMAIN L[t.lb]) \ DOMAIN t.snap :
        L[t.lb][p].pool \notin {Nil, t.pool} => On(R[L[t.lb][p].pool]) = t.nodes
  <2> TAKE p \in (DOMAIN L[t.lb]) \ DOMAIN t.snap
  <2> HAVE L[t.lb][p].pool \notin {Nil, t.pool}
  <2>1. On(P[L[t.lb][p].pool]) = t.nodes
    BY DEF Reconciling
  <2>2. R[L[t.lb][p].pool] = P[L[t.lb][p].pool]
    BY DEF R
  <2> QED BY <2>1, <2>2
<1>7. On(R[t.pool] \ u.old) = t.nodes \ u.left
  BY <1>1, <1>3, <1>5
<1>8. Reconciling(L, R, u)
  BY <1>1, <1>3, <1>4, <1>5, <1>6, <1>7 DEF Reconciling
<1>9. Doing(L, R, AfterOrigins(u)) /\ Spare(L, R, AfterOrigins(u).pool) \subseteq Spare(L, R, u.pool)
  BY <1>1, <1>2, <1>8, AfterOriginsDoes
<1>10. Spare(L, R, t.pool) = Spare(L, P, t.pool) /\ Spare(L, R, Nil) = Spare(L, P, Nil)
  BY <1>4 DEF Spare
<1>11. t.nodes \subseteq On(R[t.pool])
  <2>1. On(P[t.pool] \ t.old) = t.nodes /\ P[t.pool] \ t.old \subseteq R[t.pool]
    BY <1>3, <1>4
  <2> QED BY <2>1 DEF On
<1>12. ServingKept(L, P, L, R, t)
  BY <1>4, <1>11 DEF ServingKept, ServesIn
<1> QED BY <1>1, <1>9, <1>10, <1>12 DEF u, R

\* The pool of an unwanted port is only its own.
LEMMA DropPoolDoing ==
    ASSUME NEW L, NEW P, NEW M, NEW t, ApiOK(L, P), Unique(L), InHand(t), t.pc = "ports", Reconciling(L, P, t),
           NEW p \in (DOMAIN t.snap) \ t.ports, t.snap[p].pool # Nil, Strips(L, t.snap[p].pool, M)
    PROVE  /\ Doing(M, Without(P, t.snap[p].pool), [t EXCEPT !.snap[p].pool = Nil])
           /\ ServingKept(L, P, M, Without(P, t.snap[p].pool), t)
<1> DEFINE q == t.snap[p].pool
           u == [t EXCEPT !.snap[p].pool = Nil]
           R == Without(P, q)
           m == [t.snap EXCEPT ![p].pool = Nil]
<1>1. /\ u.pc = "ports" /\ u.lb = t.lb /\ u.snap = m /\ u.want = t.want
      /\ u.ports = t.ports /\ u.nodes = t.nodes /\ u.pool = Nil /\ u.port = Nil
  BY DEF InHand, TaskOK
<1>2. /\ DOMAIN m = DOMAIN t.snap /\ m[p] = [t.snap[p] EXCEPT !.pool = Nil]
      /\ \A r \in DOMAIN t.snap : r # p => m[r] = t.snap[r]
  BY PoolChanged DEF InHand, TaskOK, IDs
<1> HIDE DEF u, m
<1>3. t.lb \in DOMAIN L /\ p \in DOMAIN L[t.lb] /\ L[t.lb][p] = t.snap[p] /\ L[t.lb][p].pool = q /\ q # Nil
  BY DEF Reconciling
<1>4. DOMAIN M = DOMAIN L /\ DOMAIN M[t.lb] = DOMAIN L[t.lb]
  BY <1>3 DEF Strips
<1>5. \A r \in DOMAIN L[t.lb] : r # p => L[t.lb][r].pool # q /\ M[t.lb][r] = L[t.lb][r]
  BY <1>3 DEF Unique, Strips
<1>6. M[t.lb][p] = m[p]
  <2>1. M[t.lb][p] \in PortRecords /\ M[t.lb][p].pool = Nil /\ M[t.lb][p].id = t.snap[p].id
    BY <1>3, <1>4 DEF Strips, IsPortMap
  <2>2. t.snap[p] \in PortRecords
    BY DEF InHand, TaskOK, IsPortMap
  <2>3. m[p] \in PortRecords /\ m[p].pool = Nil /\ m[p].id = t.snap[p].id
    BY <1>2, <2>2 DEF PortRecords, IDs
  <2> QED BY <2>1, <2>3 DEF PortRecords
<1>7. \A r \in DOMAIN u.snap : r \in DOMAIN M[t.lb] /\ M[t.lb][r] = u.snap[r]
  BY <1>1, <1>2, <1>3, <1>4, <1>5, <1>6 DEF Reconciling
<1>8. \A r \in (DOMAIN M[t.lb]) \ DOMAIN u.snap : M[t.lb][r].pool # Nil => On(R[M[t.lb][r].pool]) = t.nodes
  <2> TAKE r \in (DOMAIN M[t.lb]) \ DOMAIN u.snap
  <2> HAVE M[t.lb][r].pool # Nil
  <2>1. r \in (DOMAIN L[t.lb]) \ DOMAIN t.snap /\ M[t.lb][r] = L[t.lb][r] /\ L[t.lb][r].pool # q
    BY <1>1, <1>2, <1>4, <1>5
  <2>2. L[t.lb][r].pool \in DOMAIN P /\ t.pool = Nil
    BY <1>3, <2>1 DEF ApiOK, InHand
  <2>3. On(P[L[t.lb][r].pool]) = t.nodes
    BY <2>1, <2>2 DEF Reconciling
  <2>4. R[L[t.lb][r].pool] = P[L[t.lb][r].pool]
    BY <2>1, <2>2 DEF Without
  <2> QED BY <2>1, <2>3, <2>4
<1>9. DOMAIN M[t.lb] \subseteq (DOMAIN u.snap) \union t.ports /\ t.want = t.ports \ ((DOMAIN M[t.lb]) \ DOMAIN u.snap)
  BY <1>1, <1>2, <1>4 DEF Reconciling
<1>10. ServingKept(L, P, M, R, t)
  <2> SUFFICES ASSUME NEW b \in DOMAIN L, NEW r \in DOMAIN L[b], NEW n, ServesIn(L, P, b, r, n), r \in t.ports
               PROVE  ServesIn(M, R, b, r, n)
    BY DEF ServingKept, ServesIn
  <2>1. L[b][r].pool # q /\ L[b][r].pool # Nil /\ L[b][r].pool \in DOMAIN P
    BY <1>3 DEF Unique, ServesIn, ApiOK
  <2>2. b \in DOMAIN M /\ r \in DOMAIN M[b] /\ M[b][r] = L[b][r]
    BY <2>1 DEF Strips
  <2>3. R[L[b][r].pool] = P[L[b][r].pool]
    BY <2>1 DEF Without
  <2> QED BY <2>2, <2>3 DEF ServesIn
<1> HIDE DEF R
<1>11. Reconciling(M, R, u)
  BY <1>1, <1>3, <1>4, <1>7, <1>8, <1>9 DEF Reconciling
<1> QED BY <1>1, <1>10, <1>11 DEF Doing, Removal, u, R

LEMMA DropPortDoing ==
    ASSUME NEW L, NEW P, NEW t, ApiOK(L, P), Unique(L), InHand(t), t.pc = "ports", Reconciling(L, P, t),
           NEW p \in (DOMAIN t.snap) \ t.ports, t.snap[p].pool = Nil
    PROVE  LET M == [L EXCEPT ![t.lb] = Without(L[t.lb], p)]
           IN  /\ Doing(M, P, [t EXCEPT !.snap = Without(t.snap, p)]) /\ Unique(M)
               /\ Spare(M, P, Nil) \subseteq Spare(L, P, Nil) /\ ServingKept(L, P, M, P, t)
<1> DEFINE u == [t EXCEPT !.snap = Without(t.snap, p)]
           M == [L EXCEPT ![t.lb] = Without(L[t.lb], p)]
<1>1. /\ u.pc = "ports" /\ u.lb = t.lb /\ u.snap = Without(t.snap, p) /\ u.want = t.want
      /\ u.ports = t.ports /\ u.nodes = t.nodes /\ u.pool = t.pool /\ u.port = Nil
  BY DEF InHand, TaskOK
<1> HIDE DEF u
<1>2. DOMAIN u.snap = (DOMAIN t.snap) \ {p} /\ \A r \in DOMAIN u.snap : u.snap[r] = t.snap[r]
  BY <1>1 DEF Without
<1>3. t.lb \in DOMAIN L /\ DOMAIN M = DOMAIN L /\ M[t.lb] = Without(L[t.lb], p)
  BY DEF Reconciling
<1>4. DOMAIN M[t.lb] = (DOMAIN L[t.lb]) \ {p} /\ \A r \in DOMAIN M[t.lb] : M[t.lb][r] = L[t.lb][r]
  BY <1>3 DEF Without
<1> HIDE DEF M
<1>5. \A r \in (DOMAIN M[t.lb]) \ DOMAIN u.snap : M[t.lb][r].pool \notin {Nil, t.pool} => On(P[M[t.lb][r].pool]) = t.nodes
  BY <1>2, <1>4 DEF Reconciling
<1>6. u.want = t.ports \ ((DOMAIN M[t.lb]) \ DOMAIN u.snap)
  BY <1>1, <1>2, <1>4 DEF Reconciling
<1>7. \A r \in DOMAIN u.snap : r \in DOMAIN M[t.lb] /\ M[t.lb][r] = u.snap[r]
  BY <1>2, <1>4 DEF Reconciling
<1>8. DOMAIN M[t.lb] \subseteq (DOMAIN u.snap) \union t.ports
  BY <1>2, <1>4 DEF Reconciling
<1>9. Reconciling(M, P, u)
  BY <1>1, <1>3, <1>5, <1>6, <1>7, <1>8 DEF Reconciling
<1>10. L[t.lb][p].pool = Nil
  BY DEF Reconciling
<1>11. /\ \A b \in DOMAIN L : b # t.lb => M[b] = L[b]
       /\ \A b \in DOMAIN L : \A r : r \in DOMAIN M[b] => r \in DOMAIN L[b] /\ M[b][r] = L[b][r]
       /\ \A b \in DOMAIN L : \A r \in DOMAIN L[b] : L[b][r].pool # Nil => r \in DOMAIN M[b] /\ M[b][r] = L[b][r]
  <2>1. \A b \in DOMAIN L : b # t.lb => M[b] = L[b]
    BY DEF M
  <2> QED BY <1>4, <1>10, <2>1
<1>12. Unique(M)
  BY <1>3, <1>11, UniqueLess
<1>13. Spare(M, P, Nil) \subseteq Spare(L, P, Nil)
  <2>1. \A x : x # Nil /\ Unnamed(M, x) => Unnamed(L, x)
    BY <1>3, <1>11 DEF Unnamed
  <2> QED BY <2>1 DEF Spare
<1>14. ServingKept(L, P, M, P, t)
  BY <1>3, <1>11 DEF ServingKept, ServesIn
<1> QED BY <1>1, <1>9, <1>12, <1>13, <1>14 DEF Doing, Removal, u, M

LEMMA AddPoolDoing ==
    ASSUME NEW L, NEW P, NEW t, ApiOK(L, P), InHand(t), t.pc = "ports", DOMAIN t.snap = {}, Reconciling(L, P, t),
           NEW p \in t.want, NEW q \in Nat, q \notin DOMAIN P
    PROVE  LET u == AfterOrigins([t EXCEPT !.pc = "origins", !.pool = q, !.port = p, !.left = t.nodes])
               R == Plus(P, q, {})
           IN  /\ Doing(L, R, u)
               /\ Spare(L, R, u.pool) \subseteq Spare(L, P, Nil)
               /\ Spare(L, R, Nil) \subseteq Spare(L, P, Nil) \union {q}
               /\ ServingKept(L, P, L, R, t)
<1> DEFINE u == [t EXCEPT !.pc = "origins", !.pool = q, !.port = p, !.left = t.nodes]
           R == Plus(P, q, {})
<1>1. /\ u.pc = "origins" /\ u.lb = t.lb /\ u.snap = t.snap /\ u.want = t.want
      /\ u.ports = t.ports /\ u.nodes = t.nodes /\ u.pool = q /\ u.port = p
      /\ u.left = t.nodes /\ u.old = {}
  BY DEF InHand, TaskOK
<1>2. TaskOK(u) /\ p # Nil
  BY NilAssumption DEF InHand, TaskOK, Steps, IDs
<1> HIDE DEF u
<1>3. DOMAIN R = (DOMAIN P) \union {q} /\ R[q] = {} /\ \A x \in DOMAIN P : x # q => R[x] = P[x]
  BY DEF Plus
<1> HIDE DEF R
<1>4. On(R[q] \ {}) = {} /\ t.nodes \ t.nodes = {}
  BY <1>3 DEF On
<1>5. t.pool = Nil /\ t.lb \in DOMAIN L
  BY DEF InHand, Reconciling
<1>6. \A r \in (DOMAIN L[t.lb]) \ DOMAIN t.snap : L[t.lb][r].pool \notin {Nil, q} => On(R[L[t.lb][r].pool]) = t.nodes
  BY <1>3, <1>5 DEF Reconciling, ApiOK
<1>7. Reconciling(L, R, u)
  BY <1>1, <1>2, <1>3, <1>4, <1>6 DEF Reconciling
<1>8. Doing(L, R, AfterOrigins(u)) /\ Spare(L, R, AfterOrigins(u).pool) \subseteq Spare(L, R, q)
  BY <1>1, <1>2, <1>7, AfterOriginsDoes
<1>9. Spare(L, R, q) \subseteq Spare(L, P, Nil) /\ Spare(L, R, Nil) \subseteq Spare(L, P, Nil) \union {q}
  BY <1>3, NilAssumption DEF Spare, ApiOK
<1>10. ServingKept(L, P, L, R, t)
  <2>1. \A b \in DOMAIN L : \A r \in DOMAIN L[b] : L[b][r].pool # Nil => R[L[b][r].pool] = P[L[b][r].pool]
    BY <1>3 DEF ApiOK
  <2> QED BY <2>1 DEF ServingKept, ServesIn
<1> QED BY <1>8, <1>9, <1>10 DEF u, R

LEMMA AddPortDoing ==
    ASSUME NEW L, NEW P, NEW t, Unique(L), InHand(t), t.pc = "port", Reconciling(L, P, t), New(L, P, t),
           t.port \notin DOMAIN L[t.lb]
    PROVE  LET M == [L EXCEPT ![t.lb] = Plus(L[t.lb], t.port, [id |-> t.pool, pool |-> t.pool])]
           IN  /\ Doing(M, P, [t EXCEPT !.pc = "ports", !.pool = Nil, !.port = Nil, !.want = @ \ {t.port}])
               /\ Unique(M) /\ Spare(M, P, Nil) \subseteq Spare(L, P, t.pool) /\ ServingKept(L, P, M, P, t)
<1> DEFINE u == [t EXCEPT !.pc = "ports", !.pool = Nil, !.port = Nil, !.want = @ \ {t.port}]
           r == [id |-> t.pool, pool |-> t.pool]
           m == Plus(L[t.lb], t.port, r)
           M == [L EXCEPT ![t.lb] = m]
<1>1. /\ u.pc = "ports" /\ u.lb = t.lb /\ u.snap = t.snap /\ u.want = t.want \ {t.port}
      /\ u.ports = t.ports /\ u.nodes = t.nodes /\ u.pool = Nil /\ u.port = Nil
  BY DEF InHand, TaskOK
<1>2. r.pool = t.pool
  OBVIOUS
<1> HIDE DEF u, r
<1>3. DOMAIN m = (DOMAIN L[t.lb]) \union {t.port} /\ m[t.port] = r
      /\ \A p \in DOMAIN L[t.lb] : p # t.port => m[p] = L[t.lb][p]
  BY DEF Plus
<1> HIDE DEF m
<1>4. t.lb \in DOMAIN L /\ DOMAIN M = DOMAIN L /\ M[t.lb] = m
  BY DEF Reconciling
<1> HIDE DEF M
<1>5. t.port # Nil /\ t.port \in t.ports /\ t.left = {} /\ t.old = {} /\ DOMAIN t.snap = {}
  BY DEF InHand, TaskOK, Reconciling
<1>6. On(P[t.pool]) = t.nodes
  <2>1. P[t.pool] \ {} = P[t.pool] /\ t.nodes \ {} = t.nodes
    OBVIOUS
  <2> QED BY <1>5, <2>1 DEF Reconciling
<1>7. \A p \in DOMAIN M[t.lb] : M[t.lb][p].pool # Nil => On(P[M[t.lb][p].pool]) = t.nodes
  <2>1. \A p \in DOMAIN L[t.lb] : L[t.lb][p].pool # t.pool
    BY <1>4, <1>5 DEF New, Unnamed
  <2>2. \A p \in DOMAIN L[t.lb] : L[t.lb][p].pool # Nil => On(P[L[t.lb][p].pool]) = t.nodes
    BY <1>5, <2>1 DEF Reconciling
  <2> QED BY <1>2, <1>3, <1>4, <1>6, <2>2
<1>8. u.want = t.ports \ DOMAIN M[t.lb] /\ DOMAIN M[t.lb] \subseteq t.ports
  BY <1>1, <1>3, <1>4, <1>5 DEF Reconciling
<1>9. Reconciling(M, P, u)
  BY <1>1, <1>4, <1>5, <1>7, <1>8 DEF Reconciling
<1>10. Unique(M)
  <2>1. Unnamed(L, r.pool)
    BY <1>2, <1>5 DEF New
  <2>2. Unique([L EXCEPT ![t.lb] = Plus(L[t.lb], t.port, r)])
    BY <1>4, <2>1, UniquePortMade
  <2> QED BY <2>2 DEF M, m
<1>11. \A b \in DOMAIN L : \A p \in DOMAIN L[b] : p \in DOMAIN M[b] /\ M[b][p] = L[b][p]
  <2>1. \A b \in DOMAIN L : b # t.lb => M[b] = L[b]
    BY DEF M
  <2> QED BY <1>3, <1>4, <2>1
<1>12. Spare(M, P, Nil) \subseteq Spare(L, P, t.pool)
  <2>1. M[t.lb][t.port].pool = t.pool /\ t.port \in DOMAIN M[t.lb]
    BY <1>2, <1>3, <1>4
  <2>2. \A x : Unnamed(M, x) => x # t.pool /\ Unnamed(L, x)
    BY <1>4, <1>11, <2>1 DEF Unnamed
  <2> QED BY <2>2 DEF Spare
<1>13. ServingKept(L, P, M, P, t)
  BY <1>4, <1>11 DEF ServingKept, ServesIn
<1> QED BY <1>1, <1>9, <1>10, <1>12, <1>13 DEF Doing, Removal, u, M, m, r

LEMMA ReadResultDoing ==
    ASSUME NEW L, NEW P, NEW t, InHand(t), t.pc = "ports", DOMAIN t.snap = {}, t.want = {}, Reconciling(L, P, t)
    PROVE  Doing(L, P, [t EXCEPT !.pc = "patch"])
<1> DEFINE u == [t EXCEPT !.pc = "patch"]
<1>1. u.pc = "patch" /\ u.lb = t.lb /\ u.ports = t.ports /\ u.nodes = t.nodes /\ t.pool = Nil
  BY DEF InHand, TaskOK
<1> HIDE DEF u
<1>2. t.lb \in DOMAIN L /\ DOMAIN L[t.lb] = t.ports
  BY DEF Reconciling
<1>3. \A p \in t.ports : L[t.lb][p].pool # Nil => On(P[L[t.lb][p].pool]) = t.nodes
  BY <1>1, <1>2 DEF Reconciling
<1>4. BalancedFor(L, P, u.lb, u.ports, u.nodes)
  BY <1>1, <1>2, <1>3 DEF BalancedFor
<1> QED BY <1>1, <1>4 DEF Doing, Removal, u

\* The pools of a load balancer that goes are all of ports it was read with.
LEMMA DoomedDoing ==
    ASSUME NEW L, NEW P, NEW M, NEW R, NEW t, InHand(t), t.pc = "doomed", Doing(L, P, t), DOMAIN M \subseteq DOMAIN L,
           NEW p \in DOMAIN t.snap,
           \A r : t.lb \in DOMAIN M /\ r \in DOMAIN M[t.lb] /\ M[t.lb][r].pool # Nil =>
                    r \in DOMAIN L[t.lb] /\ M[t.lb][r] = L[t.lb][r] /\ L[t.lb][r].pool # t.snap[p].pool
    PROVE  Doing(M, R, [t EXCEPT !.snap = Without(t.snap, p)])
<1> DEFINE u == [t EXCEPT !.snap = Without(t.snap, p)]
<1>1. u.pc = "doomed" /\ u.lb = t.lb /\ u.ports = t.ports /\ u.snap = Without(t.snap, p)
  BY DEF InHand, TaskOK
<1> HIDE DEF u
<1>2. DOMAIN u.snap = (DOMAIN t.snap) \ {p} /\ \A r \in DOMAIN u.snap : u.snap[r] = t.snap[r]
  BY <1>1 DEF Without
<1>3. t.ports = {}
  BY DEF Doing, Removal
<1>4. ASSUME t.lb \in DOMAIN M, NEW r \in DOMAIN M[t.lb], M[t.lb][r].pool # Nil
      PROVE  r \in DOMAIN u.snap /\ u.snap[r] = M[t.lb][r]
  <2>1. r \in DOMAIN L[t.lb] /\ M[t.lb][r] = L[t.lb][r] /\ L[t.lb][r].pool # t.snap[p].pool
    BY <1>4
  <2>2. r \in DOMAIN t.snap /\ t.snap[r] = L[t.lb][r]
    BY <1>4, <2>1 DEF Doing
  <2> QED BY <1>2, <2>1, <2>2
<1> QED BY <1>1, <1>3, <1>4 DEF Doing, Removal, u

\* No pool is left behind when one is deleted.
LEMMA StrippedSpare ==
    ASSUME NEW L, NEW P, NEW M, NEW q, Strips(L, q, M)
    PROVE  Spare(M, Without(P, q), Nil) \subseteq Spare(L, P, Nil)
<1>1. DOMAIN Without(P, q) = (DOMAIN P) \ {q}
  BY DEF Without
<1>2. \A x : x # q /\ Unnamed(M, x) => Unnamed(L, x)
  BY DEF Strips, Unnamed
<1> QED BY <1>1, <1>2 DEF Spare

\* A worker that wants no port keeps nothing going.
LEMMA NothingToServe == \A L, P, M, R, t : t.ports = {} => ServingKept(L, P, M, R, t)
BY DEF ServingKept

-----------------------------------------------------------------------------
(* A turn keeps what the next one relies on.                                 *)

LEMMA BusyIs ==
    ASSUME IInv, TurnInv, NEW w \in Workers, tasks[w].pc # "idle"
    PROVE  /\ Busy(w) /\ InHand(tasks[w]) /\ ApiOK(lbs, pools) /\ New(lbs, pools, tasks[w])
           /\ Unique(lbs) /\ Doing(lbs, pools, tasks[w])
           /\ tasks[w].pc \notin {"origins", "port"} => tasks[w].pool = Nil
BY DEF Busy, IInv, HandInv, TurnInv, InHand

\* A call that fails where nothing is in hand.
LEMMA MissedByHand ==
    ASSUME IInv, IInv', TurnInv, NEW w \in Workers, Busy(w), tasks[w].pool = Nil, NEW e \in BOOLEAN, Missed(w, e)
    PROVE  Turn(w)
BY MissedTurn

\* A call that reads.
LEMMA ReadingTurn ==
    ASSUME IInv, IInv', TurnInv, NEW w \in Workers, Busy(w), tasks[w].pool = Nil, NEW u, UNCHANGED api,
           Cut(w) \/ Heard(w, u), Doing(lbs, pools, u), w = "nodes" => u.pc \notin Removal \union {"status"}
    PROVE  Turn(w)
<1>1. lbs' = lbs /\ pools' = pools /\ Unique(lbs')
  BY DEF api, TurnInv
<1>2. ServingKept(lbs, pools, lbs', pools', tasks[w])
  BY <1>1, SameServing
<1>3. /\ Spare(lbs', pools', u.pool) \subseteq Spare(lbs, pools, tasks[w].pool)
      /\ Spare(lbs', pools', Nil) \subseteq Spare(lbs, pools, tasks[w].pool) \union {Nil}
  BY <1>1, SpareIs DEF IInv
<1>4. Doing(lbs', pools', u)
  BY <1>1
<1> QED BY <1>1, <1>2, <1>3, <1>4, ObeyedTurn

LEMMA CreateBalancerTurn ==
    ASSUME IInv, TurnInv, NEW w \in Workers, CreateBalancer(w)
    PROVE  Turn(w)
<1> DEFINE t == tasks[w]
           b == FreshBalancer
           u == [t EXCEPT !.pc = "get", !.lb = b]
<1>1. t.pc = "create" /\ Busy(w) /\ InHand(t) /\ t.pool = Nil /\ IInv'
  BY Ints, CreateBalancerDoes, CreateBalancerKeeps, BusyIs
<1>2. CASE Missed(w, TRUE)
  BY <1>1, <1>2, MissedByHand
<1>3. CASE /\ lbs' = Plus(lbs, b, <<>>) /\ pools' = pools
           /\ Cut(w) \/ Heard(w, u)
  <2>1. b \notin DOMAIN lbs
    BY FreshBalancerIs
  <2> HIDE DEF b
  <2>2. Unique(lbs')
    BY <1>3, <2>1, UniqueMade DEF TurnInv
  <2>3. /\ DOMAIN lbs' = (DOMAIN lbs) \union {b} /\ DOMAIN lbs'[b] = {}
        /\ \A c \in DOMAIN lbs : lbs'[c] = lbs[c]
    BY <1>3, <2>1 DEF Plus
  <2>4. ServingKept(lbs, pools, lbs', pools', t)
    BY <1>3, <2>3 DEF ServingKept, ServesIn
  <2>5. Spare(lbs', pools', Nil) \subseteq Spare(lbs, pools, Nil)
    BY <1>3, <2>3 DEF Spare, Unnamed
  <2>6. u.pc = "get" /\ u.pool = Nil
    BY <1>1 DEF InHand, TaskOK
  <2> HIDE DEF u
  <2>7. Doing(lbs', pools', u) /\ u.pc \notin Removal \union {"status"}
    BY <2>6 DEF Doing, Removal
  <2>8. Spare(lbs', pools', Nil) \subseteq Spare(lbs, pools, t.pool) \union {Nil}
    BY <1>1, <2>5
  <2>9. Spare(lbs', pools', u.pool) \subseteq Spare(lbs, pools, t.pool)
    BY <1>1, <2>5, <2>6
  <2> QED BY <1>1, <1>3, <2>2, <2>4, <2>7, <2>8, <2>9, ObeyedTurn
<1> QED BY <1>2, <1>3, Ints, CreateBalancerDoes

LEMMA ReadBalancerTurn ==
    ASSUME IInv, TurnInv, NEW w \in Workers, ReadBalancer(w)
    PROVE  Turn(w)
<1> DEFINE t == tasks[w]
           u == [t EXCEPT !.pc = "ports", !.snap = lbs[t.lb], !.want = t.ports]
<1>1. t.pc = "get" /\ Busy(w) /\ InHand(t) /\ t.pool = Nil /\ IInv'
  BY Ints, ReadBalancerDoes, ReadBalancerKeeps, BusyIs
<1>2. CASE Missed(w, t.lb \in DOMAIN lbs)
  <2> DEFINE e == t.lb \in DOMAIN lbs
  <2>1. e \in BOOLEAN /\ Missed(w, e)
    BY <1>2
  <2> HIDE DEF e
  <2> QED BY <1>1, <2>1, MissedByHand
<1>3. CASE t.lb \in DOMAIN lbs /\ UNCHANGED api /\ (Cut(w) \/ Heard(w, u))
  <2>1. Doing(lbs, pools, u)
    BY <1>1, <1>3, ReadBalancerDoing
  <2>2. u.pc = "ports"
    BY <1>1 DEF InHand, TaskOK
  <2> HIDE DEF u
  <2> QED BY <1>1, <1>3, <2>1, <2>2, ReadingTurn DEF Removal
<1> QED BY <1>2, <1>3, Ints, ReadBalancerDoes

\* After its origins a worker goes on with the reconciliation.
LEMMA OriginsPc ==
    ASSUME NEW t, TaskOK(t), t.pc = "origins"
    PROVE  AfterOrigins(t).pc \notin Removal \union {"status"}
<1>1. CASE t.left = {} /\ t.old = {} /\ t.port = Nil
  BY <1>1 DEF AfterOrigins, Removal, TaskOK
<1>2. CASE t.left = {} /\ t.old = {} /\ t.port # Nil
  BY <1>2 DEF AfterOrigins, Removal, TaskOK
<1>3. CASE ~(t.left = {} /\ t.old = {})
  <2>1. AfterOrigins(t) = t
    BY <1>3 DEF AfterOrigins
  <2> QED BY <2>1 DEF Removal
<1> QED BY <1>1, <1>2, <1>3

LEMMA KeepPortTurn ==
    ASSUME IInv, TurnInv, NEW w \in Workers, KeepPort(w)
    PROVE  Turn(w)
<1> DEFINE t == tasks[w]
<1>1. /\ t.pc = "ports" /\ Busy(w) /\ InHand(t) /\ t.pool = Nil /\ IInv'
      /\ ApiOK(lbs, pools) /\ Reconciling(lbs, pools, t)
  BY Ints, KeepPortDoes, KeepPortKeeps, BusyIs DEF Doing
<1>2. PICK p \in (DOMAIN t.snap) \intersect t.ports :
        \/ /\ t.snap[p].pool = Nil /\ UNCHANGED api /\ Heard(w, Kept(t, p))
        \/ Missed(w, t.snap[p].pool \in DOMAIN pools)
        \/ /\ t.snap[p].pool # Nil
           /\ t.snap[p].pool \in DOMAIN pools
           /\ UNCHANGED api
           /\ Cut(w) \/ Heard(w, AfterOrigins(Renewed(Kept(t, p), t.snap[p].pool)))
  BY Ints, KeepPortDoes
<1>3. CASE t.snap[p].pool = Nil /\ UNCHANGED api /\ Heard(w, Kept(t, p))
  <2>1. Doing(lbs, pools, Kept(t, p))
    BY <1>1, <1>3, KeptDoing
  <2>2. Kept(t, p).pc = "ports"
    BY <1>1 DEF Kept, InHand, TaskOK
  <2> QED BY <1>1, <1>3, <2>1, <2>2, ReadingTurn DEF Removal
<1>4. CASE Missed(w, t.snap[p].pool \in DOMAIN pools)
  <2> DEFINE e == t.snap[p].pool \in DOMAIN pools
  <2>1. e \in BOOLEAN /\ Missed(w, e)
    BY <1>4
  <2> HIDE DEF e
  <2> QED BY <1>1, <2>1, MissedByHand
<1>5. CASE /\ t.snap[p].pool \in DOMAIN pools
           /\ UNCHANGED api
           /\ Cut(w) \/ Heard(w, AfterOrigins(Renewed(Kept(t, p), t.snap[p].pool)))
  <2> DEFINE q == t.snap[p].pool
             r == Renewed(Kept(t, p), q)
             u == AfterOrigins(r)
  <2>1. Doing(lbs, pools, u)
    BY <1>1, <1>5, RenewedDoing
  <2>2. q \in Nat /\ pools[q] \subseteq Origins /\ IsFiniteSet(pools[q])
    BY <1>1, <1>5 DEF ApiOK
  <2>3. TaskOK(r) /\ r.pc = "origins"
    <3> HIDE DEF q
    <3> QED BY <1>1, <2>2, RenewedIs
  <2> HIDE DEF r
  <2>4. u.pc \notin Removal \union {"status"}
    BY <2>3, OriginsPc
  <2> HIDE DEF u
  <2>5. Cut(w) \/ Heard(w, u)
    BY <1>5 DEF u, r
  <2> QED BY <1>1, <1>5, <2>1, <2>4, <2>5, ReadingTurn
<1> QED BY <1>2, <1>3, <1>4, <1>5

LEMMA AddOriginTurn ==
    ASSUME IInv, TurnInv, NEW w \in Workers, AddOrigin(w)
    PROVE  Turn(w)
<1> DEFINE t == tasks[w]
           n == First(t.left)
           o == FreshOrigin(t.pool, n)
           k == [t EXCEPT !.left = @ \ {n}]
           u == AfterOrigins(k)
           R == [pools EXCEPT ![t.pool] = pools[t.pool] \union {o}]
<1>1. /\ t.pc = "origins" /\ t.left # {} /\ Busy(w) /\ InHand(t) /\ IInv'
      /\ ApiOK(lbs, pools) /\ Unique(lbs) /\ Reconciling(lbs, pools, t)
  BY Ints, AddOriginDoes, AddOriginKeeps, BusyIs DEF Doing
<1>2. t.pool \in DOMAIN pools
  BY <1>1 DEF Reconciling
<1>3. CASE Missed(w, t.pool \in DOMAIN pools)
  BY <1>1, <1>2, <1>3, MissedTurn
<1>4. CASE pools' = R /\ lbs' = lbs /\ (Cut(w) \/ Heard(w, u))
  <2>1. n \in t.left /\ n \in Nodes
    BY <1>1, FirstIs DEF InHand, TaskOK
  <2>2. k.pc = "origins" /\ TaskOK(k)
    BY <1>1 DEF InHand, TaskOK
  <2> HIDE DEF n
  <2>3. o[1] = n /\ o \notin t.old
    BY <1>2, <2>1, FreshOriginIs
  <2> HIDE DEF o
  <2>4. /\ Doing(lbs, R, u)
        /\ Spare(lbs, R, u.pool) \subseteq Spare(lbs, pools, t.pool) /\ Spare(lbs, R, Nil) = Spare(lbs, pools, Nil)
        /\ ServingKept(lbs, pools, lbs, R, t)
    BY <1>1, <2>1, <2>3, AddOriginDoing
  <2> HIDE DEF k
  <2>5. u.pc \notin Removal \union {"status"}
    BY <2>2, OriginsPc
  <2>6. Spare(lbs, R, Nil) \subseteq Spare(lbs, pools, t.pool) \union {t.pool}
    BY <2>4, SpareIs
  <2> HIDE DEF u, R
  <2> QED BY <1>1, <1>4, <2>4, <2>5, <2>6, ObeyedTurn
<1> QED BY <1>3, <1>4, Ints, AddOriginDoes

LEMMA DropOriginTurn ==
    ASSUME IInv, TurnInv, NEW w \in Workers, DropOrigin(w)
    PROVE  Turn(w)
<1> DEFINE t == tasks[w]
           o == First(t.old)
           k == [t EXCEPT !.old = @ \ {o}]
           u == AfterOrigins(k)
           R == [pools EXCEPT ![t.pool] = pools[t.pool] \ {o}]
<1>1. /\ t.pc = "origins" /\ t.left = {} /\ t.old # {} /\ Busy(w) /\ InHand(t) /\ IInv'
      /\ ApiOK(lbs, pools) /\ Unique(lbs) /\ Reconciling(lbs, pools, t)
  BY Ints, DropOriginDoes, DropOriginKeeps, BusyIs DEF Doing
<1>2. CASE Missed(w, t.pool \in DOMAIN pools /\ o \in pools[t.pool])
  <2>1. t.lb \in DOMAIN lbs /\ \E p \in DOMAIN lbs[t.lb] : lbs[t.lb][p].pool = t.pool
    BY <1>1 DEF Reconciling, InHand
  <2>2. Spare(lbs, pools, Nil) \subseteq Spare(lbs, pools, t.pool)
    BY <2>1 DEF Spare, Unnamed
  <2> HIDE DEF o
  <2> QED BY <1>1, <1>2, <2>2, MissedTurn
<1>3. CASE pools' = R /\ lbs' = lbs /\ (Cut(w) \/ Heard(w, u))
  <2>1. o \in t.old
    BY <1>1, FirstIs
  <2>2. k.pc = "origins" /\ TaskOK(k)
    BY <1>1 DEF InHand, TaskOK
  <2> HIDE DEF o
  <2>3. /\ Doing(lbs, R, u)
        /\ Spare(lbs, R, u.pool) \subseteq Spare(lbs, pools, t.pool) /\ Spare(lbs, R, Nil) = Spare(lbs, pools, Nil)
        /\ ServingKept(lbs, pools, lbs, R, t)
    BY <1>1, <2>1, DropOriginDoing
  <2> HIDE DEF k
  <2>4. u.pc \notin Removal \union {"status"}
    BY <2>2, OriginsPc
  <2>5. Spare(lbs, R, Nil) \subseteq Spare(lbs, pools, t.pool) \union {t.pool}
    BY <2>3, SpareIs
  <2> HIDE DEF u, R
  <2> QED BY <1>1, <1>3, <2>3, <2>4, <2>5, ObeyedTurn
<1> QED BY <1>2, <1>3, Ints, DropOriginDoes

LEMMA DropPoolTurn ==
    ASSUME IInv, TurnInv, NEW w \in Workers, DropPool(w)
    PROVE  Turn(w)
<1> DEFINE t == tasks[w]
<1>1. /\ t.pc = "ports" /\ Busy(w) /\ InHand(t) /\ t.pool = Nil /\ IInv'
      /\ ApiOK(lbs, pools) /\ Unique(lbs) /\ Reconciling(lbs, pools, t)
  BY Ints, DropPoolDoes, DropPoolKeeps, BusyIs DEF Doing
<1>2. PICK p \in (DOMAIN t.snap) \ t.ports :
        /\ t.snap[p].pool # Nil
        /\ \/ Missed(w, t.snap[p].pool \in DOMAIN pools)
           \/ /\ t.snap[p].pool \in DOMAIN pools
              /\ PoolDeleted(t.snap[p].pool)
              /\ Cut(w) \/ Heard(w, [t EXCEPT !.snap[p].pool = Nil])
  BY Ints, DropPoolDoes
<1>3. CASE Missed(w, t.snap[p].pool \in DOMAIN pools)
  <2> DEFINE e == t.snap[p].pool \in DOMAIN pools
  <2>1. e \in BOOLEAN /\ Missed(w, e)
    BY <1>3
  <2> HIDE DEF e
  <2> QED BY <1>1, <2>1, MissedByHand
<1>4. CASE /\ t.snap[p].pool \in DOMAIN pools
           /\ PoolDeleted(t.snap[p].pool)
           /\ Cut(w) \/ Heard(w, [t EXCEPT !.snap[p].pool = Nil])
  <2> DEFINE q == t.snap[p].pool
             u == [t EXCEPT !.snap[p].pool = Nil]
  <2>1. lbs' = Stripped(lbs, q) /\ pools' = Without(pools, q)
    BY <1>4 DEF PoolDeleted, Stripped
  <2>2. Strips(lbs, q, lbs')
    BY <1>1, <2>1, StrippedIs
  <2>3. Doing(lbs', Without(pools, q), u) /\ ServingKept(lbs, pools, lbs', Without(pools, q), t)
    BY <1>1, <1>2, <2>2, DropPoolDoing
  <2>4. u.pc = "ports" /\ u.pool = Nil
    BY <1>1 DEF InHand, TaskOK
  <2>5. Cut(w) \/ Heard(w, u)
    BY <1>4
  <2> HIDE DEF u, q
  <2>6. Unique(lbs')
    BY <1>1, <2>2, UniqueStripped
  <2>7. Spare(lbs', pools', Nil) \subseteq Spare(lbs, pools, Nil)
    BY <2>1, <2>2, StrippedSpare
  <2>8. Doing(lbs', pools', u) /\ ServingKept(lbs, pools, lbs', pools', t)
    BY <2>1, <2>3
  <2>9. /\ Spare(lbs', pools', Nil) \subseteq Spare(lbs, pools, t.pool) \union {Nil}
        /\ Spare(lbs', pools', u.pool) \subseteq Spare(lbs, pools, t.pool)
    BY <1>1, <2>4, <2>7
  <2>10. u.pc \notin Removal \union {"status"}
    BY <2>4 DEF Removal
  <2> QED BY <1>1, <2>5, <2>6, <2>8, <2>9, <2>10, ObeyedTurn
<1> QED BY <1>2, <1>3, <1>4

LEMMA DropPortTurn ==
    ASSUME IInv, TurnInv, NEW w \in Workers, DropPort(w)
    PROVE  Turn(w)
<1> DEFINE t == tasks[w]
           u(p) == [t EXCEPT !.snap = Without(t.snap, p)]
           e(p) == t.lb \in DOMAIN lbs /\ p \in DOMAIN lbs[t.lb] /\ lbs[t.lb][p].id = t.snap[p].id
<1>1. /\ t.pc = "ports" /\ Busy(w) /\ InHand(t) /\ t.pool = Nil /\ IInv'
      /\ ApiOK(lbs, pools) /\ Unique(lbs) /\ Reconciling(lbs, pools, t)
  BY Ints, DropPortDoes, DropPortKeeps, BusyIs DEF Doing
<1>2. PICK p \in (DOMAIN t.snap) \ t.ports :
        /\ t.snap[p].pool = Nil
        /\ \/ Missed(w, e(p))
           \/ /\ e(p)
              /\ lbs' = [lbs EXCEPT ![t.lb] = Without(@, p)] /\ pools' = pools
              /\ Cut(w) \/ Heard(w, u(p))
  BY Ints, DropPortDoes
<1>3. CASE Missed(w, e(p))
  <2>1. e(p) \in BOOLEAN
    OBVIOUS
  <2> HIDE DEF e
  <2> QED BY <1>1, <1>3, <2>1, MissedByHand
<1>4. CASE /\ lbs' = [lbs EXCEPT ![t.lb] = Without(@, p)] /\ pools' = pools
           /\ Cut(w) \/ Heard(w, u(p))
  <2> DEFINE M == [lbs EXCEPT ![t.lb] = Without(lbs[t.lb], p)]
  <2>1. /\ Doing(M, pools, u(p)) /\ Unique(M)
        /\ Spare(M, pools, Nil) \subseteq Spare(lbs, pools, Nil) /\ ServingKept(lbs, pools, M, pools, t)
    BY <1>1, <1>2, DropPortDoing
  <2>2. u(p).pc = "ports" /\ u(p).pool = Nil
    BY <1>1 DEF InHand, TaskOK
  <2>3. lbs' = M
    BY <1>4
  <2> HIDE DEF u, M
  <2>4. /\ Spare(lbs', pools', Nil) \subseteq Spare(lbs, pools, t.pool) \union {Nil}
        /\ Spare(lbs', pools', u(p).pool) \subseteq Spare(lbs, pools, t.pool)
    BY <1>1, <1>4, <2>1, <2>2, <2>3
  <2>5. Doing(lbs', pools', u(p)) /\ Unique(lbs') /\ ServingKept(lbs, pools, lbs', pools', t)
    BY <1>4, <2>1, <2>3
  <2>6. u(p).pc \notin Removal \union {"status"}
    BY <2>2 DEF Removal
  <2> QED BY <1>1, <1>4, <2>4, <2>5, <2>6, ObeyedTurn
<1> QED BY <1>2, <1>3, <1>4

LEMMA AddPoolBegins ==
    ASSUME NEW t, InHand(t), NEW p \in t.want, NEW q \in Nat
    PROVE  LET k == [t EXCEPT !.pc = "origins", !.pool = q, !.port = p, !.left = t.nodes]
           IN  k.pc = "origins" /\ TaskOK(k)
BY DEF InHand, TaskOK, Steps, IDs

LEMMA AddPoolTurn ==
    ASSUME IInv, TurnInv, NEW w \in Workers, AddPool(w)
    PROVE  Turn(w)
<1> DEFINE t == tasks[w]
           q == FreshPool
           R == Plus(pools, q, {})
           k(p) == [t EXCEPT !.pc = "origins", !.pool = q, !.port = p, !.left = t.nodes]
           u(p) == AfterOrigins(k(p))
<1>1. /\ t.pc = "ports" /\ DOMAIN t.snap = {} /\ Busy(w) /\ InHand(t) /\ t.pool = Nil /\ IInv'
      /\ ApiOK(lbs, pools) /\ Unique(lbs) /\ Reconciling(lbs, pools, t)
  BY Ints, AddPoolDoes, AddPoolKeeps, BusyIs DEF Doing
<1>2. PICK p \in t.want :
        \/ Missed(w, TRUE)
        \/ pools' = R /\ lbs' = lbs /\ (Cut(w) \/ Heard(w, u(p)))
  BY Ints, AddPoolDoes
<1>3. CASE Missed(w, TRUE)
  BY <1>1, <1>3, MissedByHand
<1>4. CASE pools' = R /\ lbs' = lbs /\ (Cut(w) \/ Heard(w, u(p)))
  <2>1. q \in Nat /\ q \notin DOMAIN pools
    BY FreshPoolIs
  <2> HIDE DEF q
  <2>2. k(p).pc = "origins" /\ TaskOK(k(p))
    BY <1>1, <2>1, AddPoolBegins
  <2>3. /\ Doing(lbs, R, u(p))
        /\ Spare(lbs, R, u(p).pool) \subseteq Spare(lbs, pools, Nil)
        /\ Spare(lbs, R, Nil) \subseteq Spare(lbs, pools, Nil) \union {q}
        /\ ServingKept(lbs, pools, lbs, R, t)
    BY <1>1, <2>1, AddPoolDoing
  <2> HIDE DEF k
  <2>4. u(p).pc \notin Removal \union {"status"}
    BY <2>2, OriginsPc
  <2> HIDE DEF u, R
  <2>5. /\ Spare(lbs', pools', Nil) \subseteq Spare(lbs, pools, t.pool) \union {q}
        /\ Spare(lbs', pools', u(p).pool) \subseteq Spare(lbs, pools, t.pool)
    BY <1>1, <1>4, <2>3
  <2>6. Doing(lbs', pools', u(p)) /\ Unique(lbs') /\ ServingKept(lbs, pools, lbs', pools', t)
    BY <1>1, <1>4, <2>3
  <2> QED BY <1>1, <1>4, <2>4, <2>5, <2>6, ObeyedTurn
<1> QED BY <1>2, <1>3, <1>4

LEMMA AddPortTurn ==
    ASSUME IInv, TurnInv, NEW w \in Workers, AddPort(w)
    PROVE  Turn(w)
<1> DEFINE t == tasks[w]
           e == t.lb \in DOMAIN lbs /\ t.port \notin DOMAIN lbs[t.lb]
           M == [lbs EXCEPT ![t.lb] = Plus(lbs[t.lb], t.port, [id |-> t.pool, pool |-> t.pool])]
           u == [t EXCEPT !.pc = "ports", !.pool = Nil, !.port = Nil, !.want = @ \ {t.port}]
<1>1. /\ t.pc = "port" /\ Busy(w) /\ InHand(t) /\ New(lbs, pools, t) /\ IInv'
      /\ ApiOK(lbs, pools) /\ Unique(lbs) /\ Reconciling(lbs, pools, t)
  BY Ints, AddPortDoes, AddPortKeeps, BusyIs DEF Doing
<1>2. e
  <2>1. DOMAIN t.snap = {} /\ t.port \in t.want
    BY <1>1 DEF InHand, TaskOK, Reconciling
  <2> QED BY <1>1, <2>1 DEF Reconciling
<1>3. Missed(w, e) \/ (lbs' = M /\ pools' = pools /\ (Cut(w) \/ Heard(w, u)))
  BY Ints, AddPortDoes
<1>4. CASE Missed(w, e)
  <2>1. e \in BOOLEAN
    OBVIOUS
  <2> HIDE DEF e
  <2> QED BY <1>1, <1>2, <1>4, <2>1, MissedTurn
<1>5. CASE lbs' = M /\ pools' = pools /\ (Cut(w) \/ Heard(w, u))
  <2>1. /\ Doing(M, pools, u) /\ Unique(M)
        /\ Spare(M, pools, Nil) \subseteq Spare(lbs, pools, t.pool) /\ ServingKept(lbs, pools, M, pools, t)
    BY <1>1, <1>2, AddPortDoing
  <2>2. u.pc = "ports" /\ u.pool = Nil
    BY <1>1 DEF InHand, TaskOK
  <2> HIDE DEF u, M
  <2>3. /\ Spare(lbs', pools', Nil) \subseteq Spare(lbs, pools, t.pool) \union {Nil}
        /\ Spare(lbs', pools', u.pool) \subseteq Spare(lbs, pools, t.pool)
    BY <1>5, <2>1, <2>2
  <2>4. Doing(lbs', pools', u) /\ Unique(lbs') /\ ServingKept(lbs, pools, lbs', pools', t)
    BY <1>5, <2>1
  <2>5. u.pc \notin Removal \union {"status"}
    BY <2>2 DEF Removal
  <2> QED BY <1>1, <1>5, <2>3, <2>4, <2>5, ObeyedTurn
<1> QED BY <1>3, <1>4, <1>5

\* The calls that read and after which the worker does something else.
LEMMA ReadsTurn ==
    ASSUME IInv, TurnInv, NEW w \in Workers, ReadResult(w) \/ ReadStatus(w) \/ Exists(w) \/ ReadDoomed(w)
    PROVE  Turn(w)
<1> DEFINE t == tasks[w]
           e == t.lb \in DOMAIN lbs
<1>1. /\ Busy(w) /\ InHand(t) /\ t.pool = Nil /\ IInv'
      /\ Doing(lbs, pools, t) /\ (w = "nodes" => t.pc \notin Removal \union {"status"})
  <2>1. t.pc \in {"ports", "status", "exists", "read"}
    BY Ints, ReadResultDoes, ReadStatusDoes, ExistsDoes, ReadDoomedDoes
  <2>2. IInv'
    BY ReadsKeep, ReadDoomedKeeps
  <2> QED BY <2>1, <2>2, BusyIs DEF TurnInv
<1>2. CASE Missed(w, e)
  <2>1. e \in BOOLEAN
    OBVIOUS
  <2> HIDE DEF e
  <2> QED BY <1>1, <1>2, <2>1, MissedByHand
<1>3. ASSUME NEW u, UNCHANGED api, Cut(w) \/ Heard(w, u), Doing(lbs, pools, u), w = "nodes" => u.pc \notin Removal \union {"status"}
      PROVE  Turn(w)
  BY <1>1, <1>3, ReadingTurn
<1>4. CASE ReadResult(w)
  <2> DEFINE u == [t EXCEPT !.pc = "patch"]
  <2>1. /\ t.pc = "ports" /\ DOMAIN t.snap = {} /\ t.want = {}
        /\ Missed(w, e) \/ (UNCHANGED api /\ (Cut(w) \/ Heard(w, u)))
    BY <1>4, Ints, ReadResultDoes
  <2>2. Doing(lbs, pools, u)
    BY <1>1, <2>1, ReadResultDoing DEF Doing
  <2>3. u.pc = "patch"
    BY <1>1 DEF InHand, TaskOK
  <2> HIDE DEF u, e
  <2> QED BY <1>2, <1>3, <2>1, <2>2, <2>3 DEF Removal
<1>5. CASE ReadStatus(w)
  <2> DEFINE g == t.given \in (DOMAIN lbs) \ {Nil}
  <2>1. Missed(w, g) \/ (UNCHANGED api /\ (Cut(w) \/ Heard(w, Idle)))
    BY <1>5, Ints, ReadStatusDoes
  <2>2. Idle.pc = "idle"
    BY DEF Idle
  <2>3. g \in BOOLEAN
    OBVIOUS
  <2> HIDE DEF e, g
  <2>4. CASE Missed(w, g)
    BY <1>1, <2>3, <2>4, MissedByHand
  <2> QED BY <1>3, <2>1, <2>2, <2>4, IdleDoes DEF Removal
<1>6. CASE Exists(w)
  <2> DEFINE u == [t EXCEPT !.pc = "read"]
  <2>1. t.pc = "exists" /\ (Missed(w, e) \/ (UNCHANGED api /\ (Cut(w) \/ Heard(w, u))))
    BY <1>6, Ints, ExistsDoes
  <2>2. u.pc = "read" /\ u.ports = t.ports
    BY <1>1 DEF InHand, TaskOK
  <2> HIDE DEF u, e
  <2>3. Doing(lbs, pools, u) /\ w # "nodes"
    BY <1>1, <2>1, <2>2 DEF Doing, Removal
  <2> QED BY <1>2, <1>3, <2>1, <2>3
<1>7. CASE ReadDoomed(w)
  <2> DEFINE u == [t EXCEPT !.pc = "doomed", !.snap = lbs[t.lb]]
  <2>1. t.pc = "read" /\ (Missed(w, e) \/ (UNCHANGED api /\ (Cut(w) \/ Heard(w, u))))
    BY <1>7, Ints, ReadDoomedDoes
  <2>2. u.pc = "doomed" /\ u.ports = t.ports /\ u.lb = t.lb /\ u.snap = lbs[t.lb]
    BY <1>1 DEF InHand, TaskOK
  <2> HIDE DEF u, e
  <2>3. Doing(lbs, pools, u) /\ w # "nodes"
    BY <1>1, <2>1, <2>2 DEF Doing, Removal
  <2> QED BY <1>2, <1>3, <2>1, <2>3
<1> QED BY <1>4, <1>5, <1>6, <1>7

LEMMA DropDoomedPoolTurn ==
    ASSUME IInv, TurnInv, NEW w \in Workers, DropDoomedPool(w)
    PROVE  Turn(w)
<1> DEFINE t == tasks[w]
           u(p) == [t EXCEPT !.snap = Without(t.snap, p)]
<1>1. /\ t.pc = "doomed" /\ Busy(w) /\ InHand(t) /\ t.pool = Nil /\ IInv' /\ w # "nodes"
      /\ ApiOK(lbs, pools) /\ Unique(lbs) /\ Doing(lbs, pools, t) /\ t.ports = {}
  BY Ints, DropDoomedPoolDoes, DropDoomedPoolKeeps, BusyIs DEF Doing, TurnInv, Removal
<1>2. PICK p \in DOMAIN t.snap :
        \/ /\ t.snap[p].pool = Nil /\ UNCHANGED api /\ Heard(w, u(p))
        \/ Missed(w, t.snap[p].pool \in DOMAIN pools)
        \/ /\ t.snap[p].pool # Nil
           /\ t.snap[p].pool \in DOMAIN pools
           /\ PoolDeleted(t.snap[p].pool)
           /\ Cut(w) \/ Heard(w, u(p))
  BY Ints, DropDoomedPoolDoes
<1>3. u(p).pool = Nil
  BY <1>1 DEF InHand, TaskOK
<1>4. CASE t.snap[p].pool = Nil /\ UNCHANGED api /\ Heard(w, u(p))
  <2>1. Doing(lbs, pools, u(p))
    BY <1>1, <1>4, DoomedDoing
  <2> HIDE DEF u
  <2> QED BY <1>1, <1>4, <2>1, ReadingTurn
<1>5. CASE Missed(w, t.snap[p].pool \in DOMAIN pools)
  <2> DEFINE e == t.snap[p].pool \in DOMAIN pools
  <2>1. e \in BOOLEAN /\ Missed(w, e)
    BY <1>5
  <2> HIDE DEF e
  <2> QED BY <1>1, <2>1, MissedByHand
<1>6. CASE /\ t.snap[p].pool # Nil
           /\ t.snap[p].pool \in DOMAIN pools
           /\ PoolDeleted(t.snap[p].pool)
           /\ Cut(w) \/ Heard(w, u(p))
  <2> DEFINE q == t.snap[p].pool
  <2>1. lbs' = Stripped(lbs, q) /\ pools' = Without(pools, q)
    BY <1>6 DEF PoolDeleted, Stripped
  <2>2. Strips(lbs, q, lbs')
    BY <1>1, <2>1, StrippedIs
  <2>3. DOMAIN lbs' \subseteq DOMAIN lbs
    BY <2>2 DEF Strips
  <2>4. \A r : t.lb \in DOMAIN lbs' /\ r \in DOMAIN lbs'[t.lb] /\ lbs'[t.lb][r].pool # Nil =>
                 r \in DOMAIN lbs[t.lb] /\ lbs'[t.lb][r] = lbs[t.lb][r] /\ lbs[t.lb][r].pool # q
    <3> HIDE DEF q
    <3> QED BY <2>2 DEF Strips
  <2>5. Doing(lbs', pools', u(p))
    BY <1>1, <2>3, <2>4, DoomedDoing
  <2> HIDE DEF u, q
  <2>6. Unique(lbs')
    BY <1>1, <2>2, UniqueStripped
  <2>7. Spare(lbs', pools', Nil) \subseteq Spare(lbs, pools, Nil)
    BY <2>1, <2>2, StrippedSpare
  <2>8. /\ Spare(lbs', pools', Nil) \subseteq Spare(lbs, pools, t.pool) \union {Nil}
        /\ Spare(lbs', pools', u(p).pool) \subseteq Spare(lbs, pools, t.pool)
    BY <1>1, <1>3, <2>7
  <2>9. ServingKept(lbs, pools, lbs', pools', t)
    BY <1>1, NothingToServe
  <2> QED BY <1>1, <1>6, <2>5, <2>6, <2>8, <2>9, ObeyedTurn
<1> QED BY <1>2, <1>4, <1>5, <1>6

LEMMA DropBalancerTurn ==
    ASSUME IInv, TurnInv, NEW w \in Workers, DropBalancer(w)
    PROVE  Turn(w)
<1> DEFINE t == tasks[w]
           e == t.lb \in DOMAIN lbs
           u == [t EXCEPT !.pc = "finalizer"]
<1>1. /\ t.pc = "doomed" /\ DOMAIN t.snap = {} /\ Busy(w) /\ InHand(t) /\ t.pool = Nil /\ IInv' /\ w # "nodes"
      /\ ApiOK(lbs, pools) /\ Unique(lbs) /\ Doing(lbs, pools, t) /\ t.ports = {}
  BY Ints, DropBalancerDoes, DropBalancerKeeps, BusyIs DEF Doing, TurnInv, Removal
<1>2. Missed(w, e) \/ (lbs' = Without(lbs, t.lb) /\ pools' = pools /\ (Cut(w) \/ Heard(w, u)))
  BY Ints, DropBalancerDoes
<1>3. CASE Missed(w, e)
  <2>1. e \in BOOLEAN
    OBVIOUS
  <2> HIDE DEF e
  <2> QED BY <1>1, <1>3, <2>1, MissedByHand
<1>4. CASE lbs' = Without(lbs, t.lb) /\ pools' = pools /\ (Cut(w) \/ Heard(w, u))
  <2>1. DOMAIN lbs' = (DOMAIN lbs) \ {t.lb} /\ \A c \in DOMAIN lbs' : lbs'[c] = lbs[c]
    BY <1>4 DEF Without
  <2>2. Unique(lbs')
    BY <1>1, <2>1, UniqueLess
  <2>3. u.pc = "finalizer" /\ u.pool = Nil /\ u.ports = t.ports
    BY <1>1 DEF InHand, TaskOK
  <2> HIDE DEF u
  <2>4. Doing(lbs', pools', u)
    BY <1>1, <2>3 DEF Doing, Removal
  <2>5. \A x : x # Nil /\ Unnamed(lbs', x) => Unnamed(lbs, x)
    BY <1>1, <2>1 DEF Unnamed, Doing
  <2>6. Spare(lbs', pools', Nil) \subseteq Spare(lbs, pools, Nil)
    BY <1>4, <2>5 DEF Spare
  <2>7. /\ Spare(lbs', pools', Nil) \subseteq Spare(lbs, pools, t.pool) \union {Nil}
        /\ Spare(lbs', pools', u.pool) \subseteq Spare(lbs, pools, t.pool)
    BY <1>1, <2>3, <2>6
  <2>8. ServingKept(lbs, pools, lbs', pools', t)
    BY <1>1, NothingToServe
  <2> QED BY <1>1, <1>4, <2>2, <2>4, <2>7, <2>8, ObeyedTurn
<1> QED BY <1>2, <1>3, <1>4

-----------------------------------------------------------------------------
(* Steps that leave the API as it is.                                        *)

LEMMA SamePools ==
    ASSUME UNCHANGED api, \A w \in Workers : tasks'[w].pool = tasks[w].pool
    PROVE  Orphans' = Orphans
<1>1. {tasks'[w].pool : w \in Workers} = {tasks[w].pool : w \in Workers}
  OBVIOUS
<1> QED BY <1>1 DEF Orphans, api

LEMMA SameTurn ==
    ASSUME TurnInv, UNCHANGED api, UNCHANGED faults \/ Fault,
           \A w \in Workers : tasks'[w].pool = tasks[w].pool,
           \A v, w \in Workers : tasks'[v].pc # "idle" /\ tasks'[w].pc # "idle" => v = w,
           tasks'["nodes"].pc \notin Removal \union {"status"},
           \A w \in Workers : Doing(lbs, pools, tasks'[w])
    PROVE  TurnInv' /\ Accounted
<1>1. lbs' = lbs /\ pools' = pools
  BY DEF api
<1>2. Unique(lbs') /\ \A w \in Workers : Doing(lbs', pools', tasks'[w])
  BY <1>1 DEF TurnInv
<1>3. TurnInv'
  BY <1>2 DEF TurnInv, Busy
<1>4. Orphans' = Orphans
  BY SamePools
<1> QED BY <1>3, <1>4 DEF Accounted

LEMMA PatchTurn ==
    ASSUME IInv, TurnInv, NEW w \in Workers, PatchService(w) \/ PatchFails(w)
    PROVE  TurnInv' /\ Accounted
<1> DEFINE t == tasks[w]
           u == IF PatchService(w) THEN AfterPatch(w) ELSE Idle
<1>1. t.pc = "patch" /\ Busy(w) /\ InHand(t) /\ t.pool = Nil /\ Doing(lbs, pools, t)
  <2>1. t.pc = "patch"
    BY DEF PatchService, PatchFails, At
  <2> QED BY <2>1, BusyIs
<1>2. tasks' = [tasks EXCEPT ![w] = u] /\ UNCHANGED api /\ (UNCHANGED faults \/ Fault)
  BY DEF PatchService, PatchFails, Step, Fault
<1>3. Idle.pc = "idle" /\ Idle.pool = Nil /\ Doing(lbs, pools, Idle)
  BY IdleDoes DEF Idle
<1>4. u.pool = Nil /\ Doing(lbs, pools, u) /\ (w = "nodes" => u.pc \notin Removal \union {"status"})
  <2>1. CASE w = "service" /\ PatchService(w)
    <3>1. u = [t EXCEPT !.pc = "status", !.given = service'.id]
      BY <2>1 DEF AfterPatch
    <3> HIDE DEF u
    <3>2. u.pc = "status" /\ u.pool = Nil /\ u.lb = t.lb /\ u.ports = t.ports /\ u.nodes = t.nodes
      BY <1>1, <3>1 DEF InHand, TaskOK
    <3>3. Doing(lbs, pools, u)
      BY <1>1, <3>2 DEF Doing, Removal
    <3> QED BY <2>1, <3>2, <3>3
  <2>2. CASE ~(w = "service" /\ PatchService(w))
    <3>1. u = Idle
      BY <2>2 DEF AfterPatch
    <3> QED BY <1>3, <3>1 DEF Removal
  <2> QED BY <2>1, <2>2
<1> HIDE DEF u
<1>5. DOMAIN tasks = Workers /\ \A v \in Workers : v # w => tasks[v].pc = "idle" /\ tasks'[v] = tasks[v]
  BY <1>1, <1>2 DEF IInv, HandInv, TurnInv, Busy
<1>6. tasks'[w] = u
  BY <1>2, <1>5
<1>7. \A v \in Workers : tasks'[v].pool = tasks[v].pool /\ Doing(lbs, pools, tasks'[v])
  BY <1>1, <1>4, <1>5, <1>6 DEF TurnInv
<1>8. \A v, x \in Workers : tasks'[v].pc # "idle" /\ tasks'[x].pc # "idle" => v = x
  BY <1>5
<1>9. tasks'["nodes"].pc \notin Removal \union {"status"}
  BY <1>4, <1>5, <1>6 DEF Removal, Workers
<1> QED BY <1>2, <1>7, <1>8, <1>9, SameTurn

LEMMA RemoveFinalizerTurn ==
    ASSUME IInv, TurnInv, NEW w \in Workers, RemoveFinalizer(w)
    PROVE  TurnInv' /\ Accounted
<1> DEFINE n == tasks["nodes"]
           T == tasks'
<1>1. tasks[w].pc = "finalizer" /\ tasks[w].pool = Nil
  <2>1. tasks[w].pc = "finalizer"
    BY DEF RemoveFinalizer, At
  <2> QED BY <2>1, BusyIs
<1>2. w = "service" /\ n.pc = "idle" /\ n.pool = Nil /\ InHand(n)
  <2>1. w = "service"
    BY <1>1 DEF TurnInv, Removal, Workers
  <2>2. n.pc = "idle"
    BY <1>1, <2>1 DEF TurnInv, Busy, Workers
  <2>3. InHand(n)
    BY DEF IInv, HandInv, Workers
  <2> QED BY <2>1, <2>2, <2>3 DEF InHand
<1>3. Idle.pc = "idle" /\ Idle.pool = Nil
  BY DEF Idle
<1>4. T["service"] = Idle /\ T["nodes"].pc = "idle" /\ T["nodes"].pool = Nil
  <2> DEFINE k == [n EXCEPT !.cached = FALSE]
  <2>1. k.pc = "idle" /\ k.pool = Nil
    BY <1>2 DEF InHand, TaskOK
  <2>2. CASE T = [service |-> Idle, nodes |-> k]
    <3> HIDE DEF k
    <3>1. T["service"] = Idle /\ T["nodes"] = k
      BY <2>2
    <3> QED BY <2>1, <3>1
  <2>3. CASE T = [tasks EXCEPT ![w] = Idle]
    <3>1. T["service"] = Idle /\ T["nodes"] = n
      BY <1>2, <2>3 DEF IInv, HandInv, Workers
    <3> QED BY <1>2, <3>1
  <2> QED BY <2>2, <2>3 DEF RemoveFinalizer, Step
<1> HIDE DEF T
<1>5. \A v \in Workers : T[v].pc = "idle" /\ T[v].pool = Nil
  BY <1>3, <1>4 DEF Workers
<1>6. \A v \in Workers : tasks[v].pool = Nil
  BY <1>1, <1>2 DEF Workers
<1>7. \A v \in Workers : Doing(lbs, pools, T[v])
  BY <1>5 DEF Doing, Removal
<1>8. UNCHANGED api /\ (UNCHANGED faults \/ Fault)
  BY DEF RemoveFinalizer, Fault
<1> QED BY <1>5, <1>6, <1>7, <1>8, SameTurn DEF T, Removal, Workers

\* A worker begins where the load balancer is yet to be read.
LEMMA BegunDoing ==
    ASSUME NEW copy \in Copies, nodes \subseteq Nodes
    PROVE  \A L, P : /\ Doing(L, P, Reconcile(copy)) /\ Doing(L, P, Remove(copy))
                     /\ Doing(L, P, [Reconcile(copy) EXCEPT !.cached = TRUE])
<1>1. Idle.ports = {}
  BY DEF Idle
<1>2. Reconcile(copy).pc \in {"create", "get"}
  BY DEF Reconcile, Idle
<1>3. [Reconcile(copy) EXCEPT !.cached = TRUE].pc \in {"create", "get"}
  BY DEF Reconcile, Idle
<1>4. Remove(copy).pc \in {"finalizer", "exists"} /\ Remove(copy).ports = {}
  BY DEF Remove, Idle
<1> QED BY <1>2, <1>3, <1>4 DEF Doing, Removal

LEMMA SyncTurn ==
    ASSUME ~Overlap, IInv, TurnInv, SyncService \/ SyncNodes
    PROVE  TurnInv' /\ Accounted
<1> DEFINE n == tasks["nodes"]
           T == tasks'
<1>1. \A w \in Workers : tasks[w].pc = "idle" /\ tasks[w].pool = Nil
  <2>1. \A w \in Workers : tasks[w].pc = "idle"
    BY DEF SyncService, SyncNodes, Free, Busy
  <2> QED BY <2>1 DEF IInv, HandInv, InHand
<1>2. UNCHANGED api /\ UNCHANGED faults
  BY DEF SyncService, SyncNodes
<1>3. CASE T = tasks
  <2>1. \A w \in Workers : tasks'[w] = tasks[w]
    BY <1>3
  <2> HIDE DEF T
  <2> QED BY <1>1, <1>2, <2>1, SameTurn DEF TurnInv, Removal, Workers
<1>4. ASSUME NEW s, T = [service |-> s, nodes |-> [n EXCEPT !.cached = @ /\ shared]],
             Doing(lbs, pools, s), s.pool = Nil
      PROVE  TurnInv' /\ Accounted
  <2> DEFINE c == n.cached /\ shared
             k == [n EXCEPT !.cached = c]
  <2>1. k.pc = "idle" /\ k.pool = Nil
    <3>1. InHand(n)
      BY DEF IInv, HandInv, Workers
    <3> HIDE DEF c
    <3> QED BY <1>1, <3>1 DEF InHand, TaskOK, Workers
  <2>2. T["service"] = s /\ T["nodes"] = k
    BY <1>4
  <2> HIDE DEF k, T
  <2>3. \A w \in Workers : T[w].pool = tasks[w].pool
    BY <1>1, <1>4, <2>1, <2>2 DEF Workers
  <2>4. \A v, w \in Workers : T[v].pc # "idle" /\ T[w].pc # "idle" => v = w
    BY <2>1, <2>2 DEF Workers
  <2>5. \A w \in Workers : Doing(lbs, pools, T[w])
    <3>1. Doing(lbs, pools, k)
      BY <2>1 DEF Doing, Removal
    <3> QED BY <1>4, <2>2, <3>1 DEF Workers
  <2> QED BY <1>2, <2>1, <2>2, <2>3, <2>4, <2>5, SameTurn DEF T, Removal
<1>5. CASE SyncService /\ seen.phase # "gone"
  <2> DEFINE s == IF seen.phase = "live" THEN Reconcile(seen) ELSE Remove(seen)
  <2>1. seen \in Copies /\ nodes \subseteq Nodes
    BY DEF IInv, ClusterOK
  <2>2. Doing(lbs, pools, s) /\ s.pool = Nil
    BY <2>1, BegunDoing, StartedIs
  <2>3. T = [service |-> s, nodes |-> [n EXCEPT !.cached = @ /\ shared]]
    BY <1>5 DEF SyncService
  <2> HIDE DEF s, T
  <2> QED BY <1>4, <2>2, <2>3
<1>6. CASE SyncNodes /\ held # Nil
  <2> DEFINE r == Reconcile(held)
             u == [r EXCEPT !.cached = TRUE]
  <2>1. held \in Copies /\ nodes \subseteq Nodes
    BY <1>6 DEF IInv, ClusterOK
  <2>2. InHand(r) /\ r.pool = Nil
    BY <2>1, StartedIs
  <2>3. Doing(lbs, pools, u)
    BY <2>1, BegunDoing
  <2>4. r.pc \in {"create", "get"}
    BY DEF Reconcile, Idle
  <2>5. T = [tasks EXCEPT !["nodes"] = u]
    BY <1>6 DEF SyncNodes, Step
  <2> HIDE DEF r
  <2>6. u.pool = Nil /\ u.pc \in {"create", "get"}
    BY <2>2, <2>4 DEF InHand, TaskOK
  <2> HIDE DEF u
  <2>7. T["nodes"] = u /\ T["service"] = tasks["service"]
    BY <2>5 DEF IInv, HandInv, Workers
  <2> HIDE DEF T
  <2>8. \A w \in Workers : T[w].pool = tasks[w].pool /\ Doing(lbs, pools, T[w])
    BY <1>1, <2>3, <2>6, <2>7 DEF Workers, TurnInv
  <2>9. \A v, w \in Workers : T[v].pc # "idle" /\ T[w].pc # "idle" => v = w
    BY <1>1, <2>7 DEF Workers
  <2> QED BY <1>2, <2>6, <2>7, <2>8, <2>9, SameTurn DEF T, Removal
<1> QED BY <1>3, <1>5, <1>6 DEF SyncService, SyncNodes

\* A crash loses the pool in the hands of the one that works, if any.
LEMMA CrashTurn ==
    ASSUME IInv, IInv', TurnInv, Crash
    PROVE  TurnInv' /\ Accounted
<1>1. \A w \in Workers : tasks'[w] = Idle
  BY DEF Crash
<1>2. Idle.pc = "idle" /\ Idle.pool = Nil
  BY DEF Idle
<1>3. UNCHANGED api /\ Fault
  BY DEF Crash, Fault
<1>4. TurnInv'
  <2>1. \A w \in Workers : Doing(lbs', pools', tasks'[w])
    BY <1>1, IdleDoes
  <2>2. Unique(lbs')
    BY <1>3 DEF TurnInv, api
  <2> QED BY <1>1, <1>2, <2>1, <2>2 DEF TurnInv, Busy, Removal, Workers
<1>5. \E w \in Workers : \A v \in Workers : v # w => tasks[v].pool = Nil
  <2>1. \A v \in Workers : tasks[v].pc = "idle" => tasks[v].pool = Nil
    BY DEF IInv, HandInv, InHand
  <2> QED BY <2>1 DEF TurnInv, Busy, Workers
<1>6. PICK w \in Workers : \A v \in Workers : v # w => tasks[v].pool = Nil
  BY <1>5
<1>7. Orphans = Spare(lbs, pools, tasks[w].pool)
  <2>1. Orphans = Nobodys(lbs, pools, tasks)
    BY DEF Orphans, Nobodys
  <2> QED BY <1>6, <2>1, OrphansOf DEF IInv
<1>8. Orphans' = Spare(lbs, pools, Nil)
  <2> DEFINE T == tasks'
  <2>1. Orphans' = Nobodys(lbs, pools, T)
    BY <1>3 DEF Orphans, Nobodys, api
  <2>2. T[w].pool = Nil /\ \A v \in Workers : v # w => T[v].pool = Nil
    BY <1>1, <1>2
  <2> HIDE DEF T
  <2> QED BY <2>1, <2>2, OrphansOf DEF IInv
<1>9. Spare(lbs, pools, Nil) \subseteq Spare(lbs, pools, tasks[w].pool) \union {tasks[w].pool}
  BY SpareIs
<1>10. Accounted
  BY <1>3, <1>7, <1>8, <1>9 DEF Accounted
<1> QED BY <1>4, <1>10

LEMMA WorldTurn ==
    ASSUME IInv, TurnInv, UNCHANGED <<api, tasks, faults>>
    PROVE  TurnInv' /\ Accounted
<1>1. \A w \in Workers : tasks'[w] = tasks[w]
  OBVIOUS
<1> QED BY <1>1, SameTurn DEF TurnInv, Busy

-----------------------------------------------------------------------------
(* Theorems about workers that take turns.                                   *)

LEMMA WorkTurn ==
    ASSUME IInv, TurnInv, NEW w \in Workers, Work(w)
    PROVE  TurnInv' /\ Accounted /\ (Turn(w) \/ UNCHANGED api)
<1>1. CASE Calls(w) \/ ReadStatus(w)
  BY <1>1, CreateBalancerTurn, ReadBalancerTurn, KeepPortTurn, AddOriginTurn, DropOriginTurn, DropPoolTurn,
     DropPortTurn, AddPoolTurn, AddPortTurn, ReadsTurn, DropDoomedPoolTurn, DropBalancerTurn DEF Calls, Turn
<1>2. CASE PatchService(w) \/ PatchFails(w) \/ RemoveFinalizer(w)
  <2>1. UNCHANGED api
    BY <1>2 DEF PatchService, PatchFails, RemoveFinalizer
  <2> QED BY <1>2, <2>1, PatchTurn, RemoveFinalizerTurn
<1> QED BY <1>1, <1>2 DEF Work, Calls

LEMMA TurnNext ==
    ASSUME ~Overlap, IInv, IInv', TurnInv, [Next]_vars
    PROVE  /\ TurnInv' /\ Accounted
           /\ UNCHANGED api \/ \E w \in Workers : Work(w) /\ Turn(w)
<1>1. CASE UNCHANGED vars
  <2>1. UNCHANGED <<api, tasks, faults>>
    BY <1>1 DEF vars
  <2> QED BY <2>1, WorldTurn
<1>2. ASSUME NEW w \in Workers, Work(w)
      PROVE  TurnInv' /\ Accounted /\ (UNCHANGED api \/ \E v \in Workers : Work(v) /\ Turn(v))
  BY <1>2, WorkTurn
<1>3. CASE SyncService \/ SyncNodes
  BY <1>3, SyncTurn DEF SyncService, SyncNodes
<1>4. CASE Crash
  BY <1>4, CrashTurn DEF Crash
<1>5. CASE Observe \/ ChangeNodes \/ ChangePorts \/ DeleteService
  <2>1. UNCHANGED <<api, tasks, faults>>
    BY <1>5 DEF Observe, ChangeNodes, ChangePorts, DeleteService, Change
  <2> QED BY <2>1, WorldTurn
<1> QED BY <1>1, <1>2, <1>3, <1>4, <1>5 DEF Next

LEMMA TurnInit == Init => TurnInv
<1> SUFFICES ASSUME Init PROVE TurnInv
  OBVIOUS
<1>1. DOMAIN lbs = {} /\ \A w \in Workers : tasks[w] = Idle
  BY DEF Init
<1>2. Idle.pc = "idle"
  BY DEF Idle
<1>3. \A w \in Workers : Doing(lbs, pools, tasks[w])
  BY <1>1, IdleDoes
<1>4. Unique(lbs)
  BY <1>1 DEF Unique
<1> QED BY <1>1, <1>2, <1>3, <1>4 DEF TurnInv, Busy, Removal, Workers

\* When the workers take turns, what the one at work has yet to look at is as it read it,
\* and what it is through with is as it wants it (manager.go:102-204); two ports never
\* have the same pool.
THEOREM TurnInvariance ==
    ASSUME ~Overlap
    PROVE  Spec => []TurnInv
<1>1. IInv /\ IInv' /\ TurnInv /\ [Next]_vars => TurnInv'
  BY TurnNext
<1> QED BY <1>1, TurnInit, Invariance, PTL DEF Spec

LEMMA ServesIs == \A b, p, n : Serves(b, p, n) <=> ServesIn(lbs, pools, b, p, n)
BY DEF Serves, ServesIn, Has, On

LEMMA ServesNext == \A b, p, n : Serves(b, p, n)' <=> ServesIn(lbs', pools', b, p, n)
BY DEF Serves, ServesIn, Has, On

LEMMA WorkIsBusy ==
    ASSUME NEW w \in Workers, Work(w)
    PROVE  Busy(w)
BY DEF Work, CreateBalancer, ReadBalancer, KeepPort, AddOrigin, DropOrigin, DropPool, DropPort, AddPool, AddPort,
   ReadResult, PatchService, PatchFails, ReadStatus, Exists, ReadDoomed, DropDoomedPool, DropBalancer,
   RemoveFinalizer, At, Busy

\* A node that gets the traffic of a port keeps it through every step but those of a
\* worker that does not want that port or that node, or is removing the load balancer: the
\* new origins are made before the old ones go (manager.go:148-163), a pool is only taken
\* from an unwanted port, and no other port has that pool.
THEOREM ServingIsKept ==
    ASSUME ~Overlap
    PROVE  Spec => KeepsServing
<1> DEFINE Step1 == \A b \in DOMAIN lbs, p \in Ports, n \in Nodes :
                      Serves(b, p, n) /\ ~Serves(b, p, n)' =>
                        \E w \in Workers : Busy(w) /\ ~(p \in tasks[w].ports /\ n \in tasks[w].nodes)
<1>1. IInv /\ IInv' /\ TurnInv /\ [Next]_vars => [Step1]_vars
  <2> SUFFICES ASSUME IInv, IInv', TurnInv, [Next]_vars,
                      NEW b \in DOMAIN lbs, NEW p \in Ports, NEW n \in Nodes, Serves(b, p, n), ~Serves(b, p, n)'
               PROVE  \E w \in Workers : Busy(w) /\ ~(p \in tasks[w].ports /\ n \in tasks[w].nodes)
    OBVIOUS
  <2>1. ServesIn(lbs, pools, b, p, n) /\ ~ServesIn(lbs', pools', b, p, n)
    BY ServesIs, ServesNext
  <2>2. UNCHANGED api \/ \E w \in Workers : Work(w) /\ Turn(w)
    BY TurnNext
  <2>3. ~UNCHANGED api
    BY <2>1 DEF api
  <2>4. PICK w \in Workers : Work(w) /\ Turn(w)
    BY <2>2, <2>3
  <2>5. Busy(w)
    BY <2>4, WorkIsBusy
  <2>6. ServingKept(lbs, pools, lbs', pools', tasks[w])
    BY <2>4 DEF Turn
  <2>7. ~(p \in tasks[w].ports /\ n \in tasks[w].nodes)
    BY <2>1, <2>6 DEF ServingKept
  <2> QED BY <2>5, <2>7
<1>2. Spec => [][Step1]_vars
  BY <1>1, Invariance, TurnInvariance, PTL DEF Spec
<1> QED BY <1>2 DEF KeepsServing

\* A pool that is nobody's is the trace of a failed call or of a crash, and each of them
\* leaves one at most, however many ports there are (manager.go:179-199).
THEOREM OrphansAreOfFaults ==
    ASSUME ~Overlap
    PROVE  Spec => []OneOrphanPerFault
<1>1. IInv => IsFiniteSet(Orphans) /\ faults \in Nat
  <2> SUFFICES ASSUME IInv PROVE IsFiniteSet(Orphans) /\ faults \in Nat
    OBVIOUS
  <2>1. IsFiniteSet(DOMAIN pools) /\ faults \in 0 .. MaxFaults
    BY DEF IInv, ApiOK, ClusterOK
  <2>2. Orphans \subseteq DOMAIN pools
    BY DEF Orphans
  <2>3. IsFiniteSet(Orphans)
    BY <2>1, <2>2, FS_Subset
  <2> QED BY <2>1, <2>3
<1>2. Init => OneOrphanPerFault
  <2> SUFFICES ASSUME Init PROVE OneOrphanPerFault
    OBVIOUS
  <2>1. DOMAIN pools = {} /\ faults = 0
    BY DEF Init
  <2>2. Orphans = {}
    BY <2>1 DEF Orphans
  <2> QED BY <2>1, <2>2, FS_EmptySet DEF OneOrphanPerFault
<1>3. IInv /\ IInv' /\ TurnInv /\ OneOrphanPerFault /\ [Next]_vars => OneOrphanPerFault'
  <2> SUFFICES ASSUME IInv, IInv', TurnInv, OneOrphanPerFault, [Next]_vars PROVE OneOrphanPerFault'
    OBVIOUS
  <2> DEFINE A == Orphans
             B == Orphans'
  <2>1. Accounted
    BY TurnNext
  <2>2. /\ IsFiniteSet(A) /\ faults \in Nat /\ Cardinality(A) \in Nat /\ Cardinality(A) <= faults
        /\ (Fault => faults' = faults + 1)
    BY <1>1, FS_CardinalityType DEF OneOrphanPerFault, Fault
  <2>3. B \subseteq A => Cardinality(B) \in Nat /\ Cardinality(B) <= Cardinality(A)
    <3> HIDE DEF A, B
    <3> SUFFICES ASSUME B \subseteq A PROVE Cardinality(B) \in Nat /\ Cardinality(B) <= Cardinality(A)
      OBVIOUS
    <3>1. IsFiniteSet(B) /\ Cardinality(B) <= Cardinality(A)
      BY <2>2, FS_Subset
    <3> QED BY <3>1, FS_CardinalityType
  <2>4. ASSUME NEW x, B \subseteq A \union {x}
        PROVE  Cardinality(B) \in Nat /\ Cardinality(B) <= Cardinality(A) + 1
    <3> HIDE DEF A, B
    <3> DEFINE C == A \union {x}
    <3>1. IsFiniteSet(C) /\ Cardinality(C) <= Cardinality(A) + 1 /\ Cardinality(C) \in Nat
      <4>1. IsFiniteSet(C) /\ Cardinality(C) = IF x \in A THEN Cardinality(A) ELSE Cardinality(A) + 1
        BY <2>2, FS_AddElement
      <4> HIDE DEF C
      <4> QED BY <2>2, <4>1
    <3> HIDE DEF C
    <3>2. IsFiniteSet(B) /\ Cardinality(B) <= Cardinality(C)
      BY <2>4, <3>1, FS_Subset DEF C
    <3>3. Cardinality(B) \in Nat
      BY <3>2, FS_CardinalityType
    <3> QED BY <2>2, <3>1, <3>2, <3>3
  <2>5. Cardinality(B) <= faults'
    <3>1. CASE B \subseteq A /\ (Fault \/ UNCHANGED faults)
      <4>1. faults' = faults \/ faults' = faults + 1
        BY <2>2, <3>1
      <4> HIDE DEF A, B
      <4> QED BY <2>2, <2>3, <3>1, <4>1
    <3>2. CASE Fault /\ \E x : B \subseteq A \union {x}
      <4>1. Cardinality(B) \in Nat /\ Cardinality(B) <= Cardinality(A) + 1
        BY <2>4, <3>2
      <4> HIDE DEF A, B
      <4> QED BY <2>2, <3>2, <4>1
    <3> QED BY <2>1, <3>1, <3>2 DEF Accounted
  <2> QED BY <2>5 DEF OneOrphanPerFault
<1> QED BY <1>2, <1>3, Invariance, TurnInvariance, PTL DEF Spec

-----------------------------------------------------------------------------
(* What is at rest.                                                          *)

\* No change is on its way that the informer's object does not have.
Known == news \in {"none", "shown"}

\* The copy in the cache has what the service has, unless something is queued or on its way.
CopyInv ==
    /\ shared => held = seen
    /\ Known => /\ seen.ports = service.ports /\ seen.phase = service.phase
                /\ seen.id = service.id \/ service.id = Nil
    /\ "service" \notin todo /\ service.phase # "gone" /\ Known =>
          /\ held # Nil /\ held.ports = service.ports
          /\ held.id = service.id \/ service.id = Nil
    /\ seen.phase = "gone" => service.phase = "gone"
    /\ seen.phase = "deleting" => service.phase # "live"
    /\ "service" \notin todo /\ ~Busy("service") /\ service.phase = "live" => service.id # Nil

\* A worker reconciles for what the cache has, and for the nodes there are unless more is queued.
GivenInv == \A w \in Workers :
    /\ tasks[w].pc \in Removal => service.phase # "live"
    /\ tasks[w].pc \notin Removal \union {"idle"} =>
         /\ held # Nil /\ tasks[w].ports = held.ports
         /\ "nodes" \notin todo => tasks[w].nodes = nodes
         /\ tasks[w].cached <=> w = "nodes"
    /\ tasks[w].pc \notin Removal \union {"idle", "status"} =>
         /\ tasks[w].given = held.id
         /\ tasks[w].given # Nil => tasks[w].lb = tasks[w].given /\ tasks[w].pc # "create"
    /\ tasks[w].pc = "status" => service.id = tasks[w].given /\ tasks[w].lb \in {service.id, held.id}

Settled ==
    (\A w \in Workers : ~Busy(w)) /\ todo = {} /\ service.phase = "live" /\ Known

\* What is at rest is as the service says.
RestInv == Settled /\ ~hidden => BalancedFor(lbs, pools, service.id, service.ports, nodes)

KeptInv == IInv /\ CacheInv /\ TurnInv
MadeGood == CopyInv /\ GivenInv /\ RestInv

LEMMA Typed ==
    ASSUME KeptInv
    PROVE  /\ service \in Copies /\ seen \in Copies /\ (held = Nil \/ held \in Copies) /\ Nil \notin Copies
           /\ DOMAIN tasks = Workers /\ todo \subseteq Workers
           /\ \A w \in Workers : TaskOK(tasks[w])
BY NilAssumption DEF KeptInv, IInv, ClusterOK, HandInv, InHand, TaskOK, Steps

\* The other worker is idle while one is at work.
LEMMA OtherIdle ==
    ASSUME KeptInv, NEW w \in Workers, Busy(w), NEW u, tasks' = [tasks EXCEPT ![w] = u]
    PROVE  tasks'[w] = u /\ \A v \in Workers : v # w => tasks[v].pc = "idle" /\ tasks'[v].pc = "idle"
BY DEF KeptInv, IInv, HandInv, TurnInv, Busy

\* Nobody has anything to go by when all are idle.
LEMMA NoneGiven ==
    ASSUME \A w \in Workers : tasks'[w].pc = "idle"
    PROVE  GivenInv'
BY DEF GivenInv, Removal

\* A worker that gives up is queued again; a host update that is not had no load balancer
\* to begin with, which a settled service has.
LEMMA GivesUpMakesGood ==
    ASSUME KeptInv, MadeGood, NEW w \in Workers, Busy(w), GivesUp(w)
    PROVE  MadeGood'
<1> DEFINE t == tasks[w]
<1>1. Idle.pc = "idle"
  BY DEF Idle
<1>2. /\ UNCHANGED k8s
      /\ \/ todo' = todo \union {"service"}
         \/ todo' = todo /\ w = "nodes" /\ t.given = Nil
      /\ \A v \in Workers : tasks'[v].pc = "idle"
  <2>1. tasks' = [tasks EXCEPT ![w] = Idle]
    BY DEF GivesUp, Fail
  <2>2. \A v \in Workers : tasks'[v].pc = "idle"
    BY <1>1, <2>1, OtherIdle
  <2> QED BY <2>2 DEF GivesUp, Fail
<1>3. w = "service" \/ (w = "nodes" /\ ~Busy("service"))
  BY DEF KeptInv, TurnInv, Workers
<1>4. CopyInv'
  BY <1>2, <1>3 DEF MadeGood, CopyInv, Known, k8s, Busy
<1>5. GivenInv'
  BY <1>2, NoneGiven
<1>6. ~Settled'
  <2> SUFFICES ASSUME Settled' PROVE FALSE
    OBVIOUS
  <2>1. todo' = {} /\ service.phase = "live" /\ Known
    BY <1>2 DEF Settled, Known, k8s
  <2>2. todo = {} /\ w = "nodes" /\ t.given = Nil /\ ~Busy("service")
    BY <1>2, <1>3, <2>1
  <2>3. service.id # Nil /\ held.id = service.id
    BY <2>1, <2>2 DEF MadeGood, CopyInv
  <2>4. t.pc \notin Removal \union {"idle", "status"}
    BY <2>2 DEF KeptInv, TurnInv, Busy
  <2>5. t.given = held.id
    BY <2>4 DEF MadeGood, GivenInv
  <2> QED BY <2>2, <2>3, <2>5
<1> QED BY <1>4, <1>5, <1>6 DEF MadeGood, RestInv

LEMMA GoesOnMakesGood ==
    ASSUME KeptInv, MadeGood, NEW w \in Workers, Busy(w), GoesOn(w)
    PROVE  MadeGood'
<1> DEFINE t == tasks[w]
<1>1. PICK u : Heard(w, u) /\ SameJob(t, u)
  BY DEF GoesOn
<1>2. UNCHANGED k8s /\ todo' = todo /\ tasks'[w] = u /\ \A v \in Workers : v # w => tasks[v].pc = "idle" /\ tasks'[v].pc = "idle"
  <2>1. tasks' = [tasks EXCEPT ![w] = u]
    BY <1>1 DEF Heard, Step
  <2> QED BY <1>1, <2>1, OtherIdle DEF Heard
<1>3. /\ u.given = t.given /\ u.cached = t.cached /\ u.ports = t.ports /\ u.nodes = t.nodes
      /\ t.pc \notin {"idle", "status"} /\ u.pc \notin {"idle", "status", "create"}
      /\ u.pc \in Removal <=> t.pc \in Removal
      /\ u.lb = t.lb \/ t.pc = "create"
  BY <1>1 DEF SameJob
<1>4. CopyInv'
  BY <1>2, <1>3 DEF MadeGood, CopyInv, Known, k8s, Busy, Workers
<1>5. GivenInv'
  <2>1. ASSUME NEW v \in Workers, v # w
        PROVE  tasks'[v].pc = "idle"
    BY <1>2, <2>1
  <2>2. /\ t.pc \in Removal => service.phase # "live"
        /\ t.pc \notin Removal =>
             /\ held # Nil /\ t.ports = held.ports /\ t.given = held.id
             /\ "nodes" \notin todo => t.nodes = nodes
             /\ t.cached <=> w = "nodes"
             /\ t.given # Nil => u.lb = t.given
    BY <1>3 DEF MadeGood, GivenInv
  <2>3. "idle" \notin Removal /\ "status" # "idle"
    BY DEF Removal
  <2>4. service' = service /\ held' = held /\ nodes' = nodes
    BY <1>2 DEF k8s
  <2> QED BY <1>2, <1>3, <2>1, <2>2, <2>3, <2>4 DEF GivenInv
<1>6. ~Settled'
  BY <1>2, <1>3 DEF Settled, Busy
<1> QED BY <1>4, <1>5, <1>6 DEF MadeGood, RestInv

\* The service worker is done when the load balancer it was told about is there.
LEMMA ReadStatusMakesGood ==
    ASSUME KeptInv, MadeGood, NEW w \in Workers, ReadStatus(w)
    PROVE  MadeGood'
<1> DEFINE t == tasks[w]
<1>1. t.pc = "status" /\ Busy(w) /\ w = "service" /\ Doing(lbs, pools, t)
  <2>1. t.pc = "status"
    BY DEF ReadStatus, At
  <2>2. w = "service"
    BY <2>1 DEF KeptInv, TurnInv, Workers
  <2> QED BY <2>1, <2>2, BusyIs DEF KeptInv
<1>2. GivesUp(w) \/ (UNCHANGED api /\ t.given # Nil /\ Heard(w, Idle))
  <2>1. \/ Missed(w, tasks[w].given \in (DOMAIN lbs) \ {Nil})
        \/ UNCHANGED api /\ t.given # Nil /\ (Cut(w) \/ Heard(w, Idle))
    BY ReadStatusDoes, Ints DEF KeptInv
  <2> QED BY <2>1 DEF Missed, Cut, GivesUp
<1>3. CASE GivesUp(w)
  BY <1>1, <1>3, GivesUpMakesGood
<1>4. CASE UNCHANGED api /\ t.given # Nil /\ Heard(w, Idle)
  <2>1. Idle.pc = "idle"
    BY DEF Idle
  <2>2. UNCHANGED <<api, k8s, todo>> /\ \A v \in Workers : tasks'[v].pc = "idle"
    <3>1. tasks' = [tasks EXCEPT ![w] = Idle] /\ UNCHANGED <<k8s, todo>>
      BY <1>4 DEF Heard, Step
    <3>2. \A v \in Workers : tasks'[v].pc = "idle"
      BY <1>1, <2>1, <3>1, OtherIdle
    <3> QED BY <1>4, <3>1, <3>2
  <2>3. /\ service.id = t.given /\ t.lb \in {service.id, held.id}
        /\ t.ports = held.ports /\ ("nodes" \notin todo => t.nodes = nodes)
    BY <1>1 DEF MadeGood, GivenInv, Removal
  <2>4. CopyInv'
    BY <1>4, <2>2, <2>3 DEF MadeGood, CopyInv, Known, k8s
  <2>5. GivenInv'
    BY <2>2, NoneGiven
  <2>6. RestInv'
    <3> SUFFICES ASSUME Settled' PROVE BalancedFor(lbs, pools, service.id, service.ports, nodes)
      BY <2>2 DEF RestInv, k8s, api
    <3>1. todo = {} /\ service.phase = "live" /\ Known
      BY <2>2 DEF Settled, Known, k8s
    <3>2. held.ports = service.ports /\ held.id = service.id /\ t.nodes = nodes
      BY <1>4, <2>3, <3>1 DEF MadeGood, CopyInv
    <3>3. BalancedFor(lbs, pools, t.lb, t.ports, t.nodes)
      BY <1>1 DEF Doing
    <3>4. t.lb = service.id /\ t.ports = service.ports
      BY <2>3, <3>2
    <3> QED BY <3>2, <3>3, <3>4
  <2> QED BY <2>4, <2>5, <2>6 DEF MadeGood
<1> QED BY <1>2, <1>3, <1>4

\* The parts of PutInCache, for a worker that has the object of the cache and one that has not.
LEMMA PutInCacheIs ==
    ASSUME KeptInv, MadeGood, NEW w \in Workers, tasks[w].pc = "patch", NEW copy, PutInCache(w, copy)
    PROVE  /\ w = "service" => held' = held /\ seen' = seen /\ (hidden' <=> hidden)
           /\ w = "nodes" =>
                /\ held' = copy
                /\ shared => seen' = copy
                /\ ~shared => seen' = seen
                /\ shared /\ ~hidden' => copy.ports = tasks[w].ports /\ copy.id = tasks[w].lb
           /\ ~hidden' => ~hidden
           /\ Known' => \/ Known /\ service' = service
                        \/ w = "nodes" /\ shared /\ copy = service'
<1>1. tasks[w].cached <=> w = "nodes"
  BY DEF MadeGood, GivenInv, Removal
<1>2. w \in {"service", "nodes"} /\ "service" # "nodes"
  BY DEF Workers
<1>3. Known' => \/ Known /\ service' = service
                \/ w = "nodes" /\ shared /\ copy = service'
  <2> DEFINE n == IF service' = service THEN news ELSE Changed(news)
  <2>1. service' # service => n \notin {"none", "shown"}
    BY DEF Changed
  <2>2. CASE tasks[w].cached /\ shared /\ copy = service'
    BY <1>1, <2>2
  <2>3. CASE ~(tasks[w].cached /\ shared /\ copy = service')
    <3>1. news' = n
      BY <2>3 DEF PutInCache
    <3>2. Known' => service' = service
      BY <2>1, <3>1 DEF Known
    <3> QED BY <3>1, <3>2 DEF Known
  <2> QED BY <2>2, <2>3
<1>4. /\ held' = (IF tasks[w].cached THEN copy ELSE held)
      /\ seen' = (IF tasks[w].cached /\ shared THEN copy ELSE seen)
      /\ hidden' = (hidden \/ (tasks[w].cached /\ shared /\ <<copy.ports, copy.id>> # <<tasks[w].ports, tasks[w].lb>>))
  BY DEF PutInCache
<1> QED BY <1>1, <1>2, <1>3, <1>4

\* Whoever writes the annotation: the service worker goes on to the status, a host update is done.
LEMMA PatchServiceMakesGood ==
    ASSUME KeptInv, MadeGood, NEW w \in Workers, PatchService(w)
    PROVE  MadeGood'
<1> DEFINE t == tasks[w]
           u == AfterPatch(w)
<1>1. t.pc = "patch" /\ Busy(w) /\ InHand(t) /\ t.lb \in Nat /\ Doing(lbs, pools, t)
  <2>1. t.pc = "patch"
    BY DEF PatchService, At
  <2> QED BY <2>1, BusyIs DEF KeptInv, InHand
<1>2. /\ service' = Patched(t) /\ PutInCache(w, service')
      /\ tasks' = [tasks EXCEPT ![w] = u] /\ UNCHANGED <<api, shared, nodes, todo>>
  BY DEF PatchService, Step
<1>3. tasks'[w] = u /\ \A v \in Workers : v # w => tasks[v].pc = "idle" /\ tasks'[v].pc = "idle"
  BY <1>1, <1>2, OtherIdle
<1>4. /\ held # Nil /\ t.ports = held.ports /\ t.given = held.id
      /\ t.given # Nil => t.lb = t.given
      /\ "nodes" \notin todo => t.nodes = nodes
      /\ t.cached <=> w = "nodes"
  BY <1>1 DEF MadeGood, GivenInv, Removal
<1>5. /\ service' \in Copies /\ service'.phase = service.phase /\ service'.ports = service.ports
      /\ service'.id = IF t.given = t.lb THEN service.id ELSE t.lb
      /\ held \in Copies /\ seen \in Copies
  BY <1>2, <1>4, Typed, PatchedIs DEF KeptInv
<1>6. /\ w = "service" => held' = held /\ seen' = seen /\ (hidden' <=> hidden)
      /\ w = "nodes" =>
           /\ held' = service'
           /\ shared => seen' = service'
           /\ ~shared => seen' = seen
           /\ shared /\ ~hidden' => service'.ports = t.ports /\ service'.id = t.lb
      /\ ~hidden' => ~hidden
      /\ Known' => \/ Known /\ service' = service
                   \/ w = "nodes" /\ shared
  BY <1>1, <1>2, PutInCacheIs
<1>7. CASE w = "service"
  <2>1. u = [t EXCEPT !.pc = "status", !.given = service'.id]
    BY <1>7 DEF AfterPatch
  <2> HIDE DEF u
  <2>2. /\ u.pc = "status" /\ u.given = service'.id /\ u.cached = t.cached /\ u.ports = t.ports
        /\ u.nodes = t.nodes /\ u.lb = t.lb
    BY <1>1, <2>1 DEF InHand, TaskOK
  <2>3. CopyInv'
    <3>1. UNCHANGED <<held, seen, shared, todo>> /\ Busy("service")'
      BY <1>2, <1>3, <1>6, <1>7, <2>2 DEF Busy
    <3>2. Known' => Known /\ service' = service
      BY <1>6, <1>7
    <3> QED BY <1>5, <3>1, <3>2 DEF MadeGood, CopyInv
  <2>4. GivenInv'
    <3>1. u.lb \in {service'.id, held'.id}
      BY <1>4, <1>5, <1>6, <1>7, <2>2
    <3>2. held' = held /\ UNCHANGED <<nodes, todo>>
      BY <1>2, <1>6, <1>7
    <3> QED BY <1>3, <1>4, <2>2, <3>1, <3>2 DEF GivenInv, Removal
  <2>5. ~Settled'
    BY <1>3, <2>2 DEF Settled, Busy
  <2> QED BY <2>3, <2>4, <2>5 DEF MadeGood, RestInv
<1>8. CASE w = "nodes"
  <2>1. \A v \in Workers : tasks'[v].pc = "idle"
    BY <1>3, <1>8 DEF AfterPatch, Idle
  <2>2. ~Busy("service")
    BY <1>3, <1>8 DEF Busy, Workers
  <2>3. "service" \notin todo /\ service.phase = "live" => service'.id # Nil
    <3>1. t.lb # Nil
      BY <1>1, NilAssumption
    <3> QED BY <1>5, <2>2, <3>1 DEF MadeGood, CopyInv
  <2>4. CopyInv'
    <3>1. held' = service' /\ held' # Nil
      BY <1>5, <1>6, <1>8, NilAssumption
    <3>2. CASE shared
      BY <1>2, <1>5, <1>6, <1>8, <2>3, <3>1, <3>2 DEF MadeGood, CopyInv
    <3>3. CASE ~shared
      BY <1>2, <1>5, <1>6, <1>8, <2>3, <3>1, <3>3 DEF MadeGood, CopyInv
    <3> QED BY <3>2, <3>3
  <2>5. RestInv'
    <3> SUFFICES ASSUME Settled', ~hidden' PROVE BalancedFor(lbs, pools, service'.id, service'.ports, nodes)
      BY <1>2 DEF RestInv, api
    <3>1. todo = {} /\ service.phase = "live" /\ Known'
      BY <1>2, <1>5 DEF Settled
    <3>2. service'.ports = t.ports /\ service'.id = t.lb
      <4>1. CASE shared
        BY <1>6, <1>8, <4>1
      <4>2. CASE ~shared
        <5>1. Known /\ service' = service
          BY <1>6, <3>1, <4>2
        <5>2. service.id # Nil
          BY <2>2, <3>1 DEF MadeGood, CopyInv
        <5>3. held.ports = service.ports /\ held.id = service.id
          BY <3>1, <5>1, <5>2 DEF MadeGood, CopyInv
        <5> QED BY <1>4, <5>1, <5>2, <5>3
      <4> QED BY <4>1, <4>2
    <3>3. BalancedFor(lbs, pools, t.lb, t.ports, t.nodes)
      BY <1>1 DEF Doing
    <3>4. t.nodes = nodes
      BY <1>4, <3>1
    <3> QED BY <3>2, <3>3, <3>4
  <2>6. GivenInv'
    BY <2>1, NoneGiven
  <2> QED BY <2>4, <2>5, <2>6 DEF MadeGood
<1> QED BY <1>7, <1>8 DEF Workers

\* A patch that fails leaves the ID in the copies, and the service queued again.
LEMMA PatchFailsMakesGood ==
    ASSUME KeptInv, MadeGood, NEW w \in Workers, PatchFails(w)
    PROVE  MadeGood'
<1> DEFINE t == tasks[w]
           copy == [held EXCEPT !.id = t.lb]
<1>1. t.pc = "patch" /\ Busy(w)
  BY DEF PatchFails, At, Busy
<1>2. /\ PutInCache(w, copy) /\ todo' = todo \union {"service"}
      /\ tasks' = [tasks EXCEPT ![w] = Idle] /\ UNCHANGED <<api, shared, nodes>>
  BY DEF PatchFails
<1>3. \A v \in Workers : tasks'[v].pc = "idle" /\ (v # w => tasks[v].pc = "idle")
  <2>1. Idle.pc = "idle"
    BY DEF Idle
  <2> QED BY <1>1, <1>2, <2>1, OtherIdle
<1>4. service' = service \/ (service'.phase = service.phase /\ service'.ports = service.ports)
  BY PatchedIs DEF PatchFails, KeptInv
<1>5. /\ held # Nil /\ t.given = held.id /\ (t.given # Nil => t.lb = t.given)
      /\ t.cached <=> w = "nodes"
  BY <1>1 DEF MadeGood, GivenInv, Removal
<1> HIDE DEF copy
<1>6. /\ w = "service" => held' = held /\ seen' = seen
      /\ w = "nodes" =>
           /\ held' = copy
           /\ shared => seen' = copy
           /\ ~shared => seen' = seen
      /\ Known' => \/ Known /\ service' = service
                   \/ w = "nodes" /\ shared /\ copy = service'
  BY <1>1, <1>2, PutInCacheIs
<1>7. w = "nodes" => copy.ports = held.ports /\ copy.phase = held.phase /\ copy.id = t.lb
  BY <1>5, MarkedIs DEF KeptInv, copy
<1>8. CopyInv'
  <2>1. service'.phase = service.phase
    BY <1>4
  <2>2. CASE w = "service"
    BY <1>2, <1>6, <2>1, <2>2 DEF MadeGood, CopyInv
  <2>3. CASE w = "nodes" /\ ~shared
    BY <1>2, <1>6, <2>1, <2>3 DEF MadeGood, CopyInv
  <2>4. CASE w = "nodes" /\ shared
    <3>1. held = seen
      BY <2>4 DEF MadeGood, CopyInv
    <3>2. held' = copy /\ seen' = copy /\ copy.phase = seen.phase
      BY <1>6, <1>7, <2>4, <3>1
    <3>3. Known' => /\ seen'.ports = service'.ports /\ seen'.phase = service'.phase
                    /\ seen'.id = service'.id \/ service'.id = Nil
      <4>1. CASE copy = service'
        BY <3>2, <4>1
      <4>2. CASE Known /\ service' = service
        <5>1. /\ seen.ports = service.ports /\ seen.phase = service.phase
              /\ seen.id = service.id \/ service.id = Nil
          BY <4>2 DEF MadeGood, CopyInv
        <5>2. service.id # Nil => t.lb = service.id
          BY <1>5, <3>1, <5>1
        <5> QED BY <1>7, <2>4, <3>1, <3>2, <4>2, <5>1, <5>2
      <4> QED BY <1>6, <4>1, <4>2
    <3> QED BY <1>2, <2>1, <3>2, <3>3 DEF MadeGood, CopyInv
  <2> QED BY <2>2, <2>3, <2>4 DEF Workers
<1>9. GivenInv'
  BY <1>3, NoneGiven
<1>10. ~Settled'
  BY <1>2 DEF Settled
<1> QED BY <1>8, <1>9, <1>10 DEF MadeGood, RestInv

LEMMA RemoveFinalizerMakesGood ==
    ASSUME KeptInv, MadeGood, NEW w \in Workers, RemoveFinalizer(w)
    PROVE  MadeGood'
<1>1. tasks[w].pc = "finalizer" /\ Busy(w)
  BY DEF RemoveFinalizer, At, Busy
<1>2. w = "service" /\ tasks["nodes"].pc = "idle" /\ service.phase # "live"
  BY <1>1 DEF KeptInv, TurnInv, Busy, Removal, Workers, MadeGood, GivenInv
<1>3. Idle.pc = "idle"
  BY DEF Idle
<1>4. CASE /\ service' = [service EXCEPT !.phase = "gone"]
           /\ news' = Changed(news)
           /\ held' = Nil /\ shared' = FALSE
           /\ tasks' = [service |-> Idle, nodes |-> [tasks["nodes"] EXCEPT !.cached = FALSE]]
           /\ UNCHANGED <<todo, faults>>
  <2> DEFINE k == [tasks["nodes"] EXCEPT !.cached = FALSE]
  <2>1. k.pc = "idle"
    BY <1>2, Typed DEF TaskOK, Workers
  <2>2. tasks'["service"] = Idle /\ tasks'["nodes"] = k
    BY <1>4
  <2>3. \A v \in Workers : tasks'[v].pc = "idle"
    BY <1>3, <2>1, <2>2 DEF Workers
  <2>4. service'.phase = "gone" /\ seen' = seen
    BY <1>4, Typed DEF Copies, RemoveFinalizer
  <2>5. CopyInv'
    <3>1. ~Known'
      BY <1>4 DEF Known, Changed
    <3> QED BY <1>4, <2>4, <3>1 DEF CopyInv
  <2>6. GivenInv'
    BY <2>3, NoneGiven
  <2>7. ~Settled'
    BY <2>4 DEF Settled
  <2> QED BY <2>5, <2>6, <2>7 DEF MadeGood, RestInv
<1>5. CASE todo' = todo \union {w} /\ Step(w, Idle) /\ UNCHANGED <<service, news, held, shared>>
  <2>1. \A v \in Workers : tasks'[v].pc = "idle"
    BY <1>1, <1>3, <1>5, OtherIdle DEF Step
  <2>2. CopyInv'
    BY <1>2, <1>5 DEF MadeGood, CopyInv, Known, RemoveFinalizer
  <2>3. GivenInv'
    BY <2>1, NoneGiven
  <2>4. ~Settled'
    BY <1>5 DEF Settled
  <2> QED BY <2>2, <2>3, <2>4 DEF MadeGood, RestInv
<1> QED BY <1>4, <1>5 DEF RemoveFinalizer

LEMMA SyncServiceMakesGood ==
    ASSUME ~Overlap, KeptInv, MadeGood, SyncService
    PROVE  MadeGood'
<1>1. /\ \A w \in Workers : tasks[w].pc = "idle"
      /\ "service" \in todo /\ todo' = todo \ {"service"} /\ UNCHANGED <<api, service, seen, news, nodes>>
  BY DEF SyncService, Free, Busy
<1>2. CASE seen.phase = "gone"
  <2>1. UNCHANGED <<held, shared, tasks>> /\ service.phase = "gone"
    BY <1>2 DEF SyncService, MadeGood, CopyInv
  <2>2. CopyInv'
    BY <1>1, <2>1 DEF MadeGood, CopyInv, Known
  <2>3. GivenInv'
    BY <1>1, <2>1, NoneGiven
  <2>4. ~Settled'
    BY <1>1, <2>1 DEF Settled
  <2> QED BY <2>2, <2>3, <2>4 DEF MadeGood, RestInv
<1>3. CASE seen.phase # "gone"
  <2> DEFINE s == IF seen.phase = "live" THEN Reconcile(seen) ELSE Remove(seen)
             n == [tasks["nodes"] EXCEPT !.cached = @ /\ shared]
  <2>1. held' = seen /\ shared' = TRUE /\ tasks' = [service |-> s, nodes |-> n]
    BY <1>3 DEF SyncService
  <2>2. n.pc = "idle"
    BY <1>1, Typed DEF TaskOK, Workers
  <2>3. tasks'["service"] = s /\ tasks'["nodes"] = n
    BY <2>1
  <2>4. /\ s.pc \in Removal => service.phase # "live"
        /\ s.pc \notin Removal =>
             /\ s.ports = seen.ports /\ s.given = seen.id /\ s.nodes = nodes /\ ~s.cached
             /\ s.given # Nil => s.lb = s.given /\ s.pc # "create"
        /\ s.pc \notin {"idle", "status"}
    <3>1. CASE seen.phase = "live"
      BY <3>1 DEF Reconcile, Idle, Removal
    <3>2. CASE seen.phase # "live"
      <4>1. seen.phase = "deleting"
        BY <1>3, <3>2, Typed DEF Copies
      <4>2. service.phase # "live"
        BY <4>1 DEF MadeGood, CopyInv
      <4> QED BY <3>2, <4>2 DEF Remove, Idle, Removal
    <3> QED BY <3>1, <3>2
  <2> HIDE DEF s, n
  <2>5. CopyInv'
    <3>1. Busy("service")' /\ seen # Nil
      BY <2>3, <2>4, Typed DEF Busy
    <3> QED BY <1>1, <2>1, <3>1 DEF MadeGood, CopyInv, Known
  <2>6. GivenInv'
    <3>1. seen # Nil
      BY Typed
    <3> QED BY <1>1, <2>1, <2>2, <2>3, <2>4, <3>1 DEF GivenInv, Workers, Removal
  <2>7. ~Settled'
    BY <2>3, <2>4 DEF Settled, Busy, Workers
  <2> QED BY <2>5, <2>6, <2>7 DEF MadeGood, RestInv
<1> QED BY <1>2, <1>3

LEMMA SyncNodesMakesGood ==
    ASSUME ~Overlap, KeptInv, MadeGood, SyncNodes
    PROVE  MadeGood'
<1>1. /\ \A w \in Workers : tasks[w].pc = "idle"
      /\ todo' = todo \ {"nodes"} /\ UNCHANGED <<api, service, seen, news, held, shared, nodes>>
  BY DEF SyncNodes, Free, Busy
<1>2. CASE held = Nil
  <2>1. UNCHANGED tasks
    BY <1>2 DEF SyncNodes
  <2>2. CopyInv'
    BY <1>1, <2>1 DEF MadeGood, CopyInv, Known, Busy
  <2>3. GivenInv'
    BY <1>1, <2>1, NoneGiven
  <2>4. ~Settled'
    <3> SUFFICES ASSUME Settled' PROVE FALSE
      OBVIOUS
    <3>1. "service" \notin todo /\ service.phase = "live" /\ Known
      BY <1>1 DEF Settled, Known
    <3> QED BY <1>2, <3>1 DEF MadeGood, CopyInv
  <2> QED BY <2>2, <2>3, <2>4 DEF MadeGood, RestInv
<1>3. CASE held # Nil
  <2> DEFINE u == [Reconcile(held) EXCEPT !.cached = TRUE]
  <2>1. tasks' = [tasks EXCEPT !["nodes"] = u]
    BY <1>3 DEF SyncNodes, Step
  <2>2. /\ u.pc \in {"create", "get"} /\ u.ports = held.ports /\ u.given = held.id /\ u.nodes = nodes /\ u.cached
        /\ u.given # Nil => u.lb = u.given /\ u.pc # "create"
    BY DEF Reconcile, Idle
  <2> HIDE DEF u
  <2>3. tasks'["nodes"] = u /\ tasks'["service"] = tasks["service"]
    BY <2>1, Typed DEF Workers
  <2>4. CopyInv'
    BY <1>1, <2>3 DEF MadeGood, CopyInv, Known, Busy
  <2>5. GivenInv'
    BY <1>1, <1>3, <2>2, <2>3 DEF GivenInv, Workers, Removal
  <2>6. ~Settled'
    BY <2>2, <2>3 DEF Settled, Busy, Workers
  <2> QED BY <2>4, <2>5, <2>6 DEF MadeGood, RestInv
<1> QED BY <1>2, <1>3

LEMMA WorldMakesGood ==
    ASSUME KeptInv, MadeGood, Observe \/ Crash \/ ChangeNodes \/ ChangePorts \/ DeleteService \/ UNCHANGED vars
    PROVE  MadeGood'
<1>1. CASE Observe
  <2>1. /\ UNCHANGED <<api, service, held, hidden, nodes, tasks>>
        /\ seen' = service /\ shared' = FALSE
        /\ "service" \notin todo' => todo' = todo /\ (Known \/ service.phase = "gone")
    BY <1>1 DEF Observe, Known
  <2>2. CopyInv'
    <3>1. seen' = service' /\ ~shared'
      BY <2>1
    <3>2. "service" \notin todo' /\ service.phase # "gone" =>
            held # Nil /\ held.ports = service.ports /\ (held.id = service.id \/ service.id = Nil)
      BY <2>1 DEF MadeGood, CopyInv
    <3>3. "service" \notin todo' /\ ~Busy("service")' /\ service.phase = "live" => service.id # Nil
      BY <2>1 DEF MadeGood, CopyInv, Busy
    <3> QED BY <2>1, <3>1, <3>2, <3>3 DEF CopyInv
  <2>3. GivenInv'
    <3>1. "nodes" \notin todo' => "nodes" \notin todo
      BY <1>1 DEF Observe
    <3> QED BY <2>1, <3>1 DEF MadeGood, GivenInv
  <2>4. RestInv'
    <3> SUFFICES ASSUME Settled', ~hidden' PROVE BalancedFor(lbs, pools, service.id, service.ports, nodes)
      BY <2>1 DEF RestInv, api
    <3>1. Settled /\ ~hidden
      BY <2>1 DEF Settled, Busy
    <3> QED BY <3>1 DEF MadeGood, RestInv
  <2> QED BY <2>2, <2>3, <2>4 DEF MadeGood
<1>2. CASE Crash
  <2>1. \A w \in Workers : tasks'[w].pc = "idle"
    BY <1>2 DEF Crash, Idle
  <2>2. GivenInv'
    BY <2>1, NoneGiven
  <2>3. CopyInv' /\ ~Settled'
    BY <1>2 DEF Crash, CopyInv, Settled, Workers
  <2> QED BY <2>2, <2>3 DEF MadeGood, RestInv
<1>3. CASE ChangeNodes
  <2>1. UNCHANGED <<service, seen, news, held, shared, tasks>> /\ todo' = todo \union {"nodes"}
    BY <1>3 DEF ChangeNodes, Change
  <2>2. CopyInv' /\ GivenInv' /\ ~Settled'
    BY <2>1 DEF MadeGood, CopyInv, Known, GivenInv, Settled, Busy
  <2> QED BY <2>2 DEF MadeGood, RestInv
<1>4. CASE ChangePorts
  <2>1. UNCHANGED <<seen, held, shared, tasks, nodes, todo>> /\ service'.id = service.id /\ service'.phase = service.phase
    BY <1>4, Typed DEF ChangePorts, Change, Copies
  <2>2. ~Known'
    BY <1>4 DEF ChangePorts, Known, Changed
  <2>3. CopyInv' /\ GivenInv' /\ ~Settled'
    BY <2>1, <2>2 DEF MadeGood, CopyInv, GivenInv, Settled, Busy
  <2> QED BY <2>3 DEF MadeGood, RestInv
<1>5. CASE DeleteService
  <2>1. /\ UNCHANGED <<seen, held, shared, tasks, nodes, todo>> /\ service'.id = service.id
        /\ service'.phase = "deleting" /\ service.phase = "live"
    BY <1>5, Typed DEF DeleteService, Change, Copies
  <2>2. ~Known'
    BY <1>5 DEF DeleteService, Known, Changed
  <2>3. CopyInv' /\ GivenInv' /\ ~Settled'
    BY <2>1, <2>2 DEF MadeGood, CopyInv, GivenInv, Settled, Busy
  <2> QED BY <2>3 DEF MadeGood, RestInv
<1>6. CASE UNCHANGED vars
  BY <1>6 DEF vars, k8s, api, MadeGood, CopyInv, Known, GivenInv, RestInv, Settled, Busy
<1> QED BY <1>1, <1>2, <1>3, <1>4, <1>5, <1>6

LEMMA MadeGoodNext ==
    ASSUME ~Overlap, KeptInv, MadeGood, [Next]_vars
    PROVE  MadeGood'
<1>1. ASSUME NEW w \in Workers, Calls(w)
      PROVE  MadeGood'
  <2>1. Work(w)
    BY <1>1 DEF Calls, Work
  <2>2. Busy(w)
    BY <2>1, WorkIsBusy
  <2>3. GivesUp(w) \/ GoesOn(w)
    BY <1>1, CallsGoOn DEF KeptInv
  <2> QED BY <2>2, <2>3, GivesUpMakesGood, GoesOnMakesGood
<1>2. ASSUME NEW w \in Workers, Work(w)
      PROVE  MadeGood'
  BY <1>1, <1>2, ReadStatusMakesGood, PatchServiceMakesGood, PatchFailsMakesGood, RemoveFinalizerMakesGood
     DEF Work, Calls
<1> QED BY <1>2, SyncServiceMakesGood, SyncNodesMakesGood, WorldMakesGood DEF Next

\* When nothing is being done, queued or on its way, the load balancer of a live service has
\* the ports and the nodes that were asked for: a call, a patch or the process that fails in
\* the middle of manager.go:102-204 leaves the service queued, which makes it good.  The
\* exception is the one change that the answer to a host update's patch puts into the
\* informer's object before the watch delivers it (emlb.go:103): nothing is queued for it.
THEOREM FailuresAreMadeGood ==
    ASSUME ~Overlap
    PROVE  Spec => []RestsBalanced
<1>1. Init => MadeGood
  <2> SUFFICES ASSUME Init PROVE MadeGood
    OBVIOUS
  <2>1. \A w \in Workers : tasks[w].pc = "idle"
    BY DEF Init, Idle
  <2>2. shared = FALSE /\ todo = {"service"} /\ seen = service /\ service.phase = "live"
    BY DEF Init
  <2>3. CopyInv /\ ~Settled
    BY <2>2 DEF CopyInv, Settled
  <2>4. GivenInv
    BY <2>1 DEF GivenInv, Removal
  <2> QED BY <2>3, <2>4 DEF MadeGood, RestInv
<1>2. IInv /\ CacheInv /\ TurnInv /\ MadeGood /\ [Next]_vars => MadeGood'
  BY MadeGoodNext DEF KeptInv
<1>3. MadeGood => RestsBalanced
  <2> SUFFICES ASSUME MadeGood, Quiet, service.phase = "live", ~hidden PROVE Balanced
    BY DEF RestsBalanced
  <2>1. BalancedFor(lbs, pools, service.id, service.ports, nodes)
    BY DEF MadeGood, RestInv, Settled, Known, Quiet
  <2> QED BY <2>1 DEF BalancedFor, Balanced, On
<1> QED BY <1>1, <1>2, <1>3, Invariance, TurnInvariance, PTL DEF Spec

=============================================================================
