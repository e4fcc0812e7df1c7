-------------------------- MODULE LBaaSModelsProofs --------------------------
(* Theorems about LBaaSModels, for replies with any number of keys and any   *)
(* number of setters called.  What is encoded is what was meant because of   *)
(* an invariant of the object before it is encoded: its fields and its       *)
(* additional properties are, key by key, what was last set or received, and *)
(* no key is in both.                                                        *)
EXTENDS LBaaSModels, TLAPS

\* The object o of the model m stands for what is in w.
StandsFor(m, o, w) ==
    /\ DOMAIN w = Fields(m) \union {Unknown}
    /\ o.fields = [f \in Fields(m) |-> w[f]]
    /\ \A f \in m.req : w[f] # Unset
    /\ DOMAIN o.extra = {k \in {Unknown} : w[k] # Unset}
    /\ \A k \in DOMAIN o.extra : o.extra[k] = w[k]

\* The JSON is, key by key, what is in w.
Encodes(json, w) ==
    /\ DOMAIN json = {k \in DOMAIN w : w[k] # Unset}
    /\ \A k \in DOMAIN json : json[k] = w[k]

ObjectInv == obj # None => model \in DOMAIN Models /\ StandsFor(Models[model], obj, meant)

IInv ==
    /\ TypeOK /\ ObjectInv
    /\ sent # None => obj # None
    /\ SentIsMeant
    /\ DoneIsObeyed

-----------------------------------------------------------------------------
(* The models and the operations.                                            *)

LEMMA RequestIs ==
    ASSUME NEW e, NEW method, NEW path, NEW takes, NEW returns
    PROVE  Request(e, method, path, takes, returns).takes = takes /\ Request(e, method, path, takes, returns).returns = returns
BY DEF Request

\* No model has a field of the name of the key that no model knows.
LEMMA NoFieldIsUnknown == \A name \in DOMAIN Models : Unknown \notin Fields(Models[name])
<1>1. /\ Unknown \notin Fields(LoadBalancer) /\ Unknown \notin Fields(LoadBalancerCollection)
      /\ Unknown \notin Fields(LoadBalancerCreate) /\ Unknown \notin Fields(LoadBalancerLocation)
  BY DEF Unknown, Fields, Model, Dates, LoadBalancer, LoadBalancerCollection, LoadBalancerCreate, LoadBalancerLocation
<1>2. /\ Unknown \notin Fields(LoadBalancerPool) /\ Unknown \notin Fields(LoadBalancerPoolCollection)
      /\ Unknown \notin Fields(LoadBalancerPoolCreate) /\ Unknown \notin Fields(LoadBalancerPoolShort)
      /\ Unknown \notin Fields(LoadBalancerPoolUpdate)
  BY DEF Unknown, Fields, Model, Dates, WithOneOf, WithEnum, LoadBalancerPool, LoadBalancerPoolCollection,
         LoadBalancerPoolCreate, LoadBalancerPoolShort, LoadBalancerPoolUpdate
<1>3. /\ Unknown \notin Fields(LoadBalancerPoolOrigin) /\ Unknown \notin Fields(LoadBalancerPoolOriginCollection)
      /\ Unknown \notin Fields(LoadBalancerPoolOriginCreate) /\ Unknown \notin Fields(LoadBalancerPoolOriginUpdate)
  BY DEF Unknown, Fields, Model, Dates, WithOneOf, LoadBalancerPoolOrigin, LoadBalancerPoolOriginCollection,
         LoadBalancerPoolOriginCreate, LoadBalancerPoolOriginUpdate
<1>4. /\ Unknown \notin Fields(LoadBalancerPort) /\ Unknown \notin Fields(LoadBalancerPortCollection)
      /\ Unknown \notin Fields(LoadBalancerPortCreate) /\ Unknown \notin Fields(LoadBalancerPortUpdate)
  BY DEF Unknown, Fields, Model, Dates, LoadBalancerPort, LoadBalancerPortCollection, LoadBalancerPortCreate,
         LoadBalancerPortUpdate
<1>5. /\ Unknown \notin Fields(LoadBalancerShort) /\ Unknown \notin Fields(LoadBalancerUpdate)
      /\ Unknown \notin Fields(Provider) /\ Unknown \notin Fields(ResourceCreatedResponse)
  BY DEF Unknown, Fields, Model, Dates, LoadBalancerShort, LoadBalancerUpdate, Provider, ResourceCreatedResponse
<1> QED BY <1>1, <1>2, <1>3, <1>4, <1>5 DEF Models

LEMMA ModelNames ==
    {"LoadBalancer", "LoadBalancerCollection", "LoadBalancerCreate", "LoadBalancerUpdate", "LoadBalancerPort",
     "LoadBalancerPortCollection", "LoadBalancerPortCreate", "LoadBalancerPortUpdate", "LoadBalancerPool",
     "LoadBalancerPoolCollection", "LoadBalancerPoolCreate", "LoadBalancerPoolUpdate", "LoadBalancerPoolOrigin",
     "LoadBalancerPoolOriginCollection", "LoadBalancerPoolOriginCreate", "LoadBalancerPoolOriginUpdate",
     "ResourceCreatedResponse"} \subseteq DOMAIN Models
BY DEF Models

\* What an operation takes and returns is a model, or nothing.
LEMMA OperationModels ==
    ASSUME NEW Ids, NEW o \in Operations(Ids)
    PROVE  o.takes \in DOMAIN Models \union {"none"} /\ o.returns \in DOMAIN Models \union {"none"}
<1> DEFINE Fits(q) == q.takes \in DOMAIN Models \union {"none"} /\ q.returns \in DOMAIN Models \union {"none"}
<1>1. ASSUME NEW x \in Ids
      PROVE  /\ Fits(CreateLoadBalancer(x)) /\ Fits(ListLoadBalancers(x)) /\ Fits(GetLoadBalancer(x))
             /\ Fits(UpdateLoadBalancer(x)) /\ Fits(DeleteLoadBalancer(x))
  BY RequestIs, ModelNames
  DEF CreateLoadBalancer, ListLoadBalancers, GetLoadBalancer, UpdateLoadBalancer, DeleteLoadBalancer
<1>2. ASSUME NEW x \in Ids
      PROVE  /\ Fits(CreateLoadBalancerPort(x)) /\ Fits(ListLoadBalancerPorts(x)) /\ Fits(UpdateLoadBalancerPort(x))
             /\ Fits(DeleteLoadBalancerPort(x)) /\ \A y \in Ids : Fits(GetLoadBalancerPort(x, y))
  BY RequestIs, ModelNames
  DEF CreateLoadBalancerPort, ListLoadBalancerPorts, UpdateLoadBalancerPort, DeleteLoadBalancerPort, GetLoadBalancerPort
<1>3. ASSUME NEW x \in Ids
      PROVE  /\ Fits(CreatePool(x)) /\ Fits(ListPools(x)) /\ Fits(GetLoadBalancerPool(x))
             /\ Fits(UpdateLoadBalancerPool(x)) /\ Fits(DeleteLoadBalancerPool(x))
  BY RequestIs, ModelNames DEF CreatePool, ListPools, GetLoadBalancerPool, UpdateLoadBalancerPool, DeleteLoadBalancerPool
<1>4. ASSUME NEW x \in Ids
      PROVE  /\ Fits(CreateLoadBalancerPoolOrigin(x)) /\ Fits(ListLoadBalancerPoolOrigins(x))
             /\ Fits(GetLoadBalancerOrigin(x)) /\ Fits(UpdateLoadBalancerOrigin(x)) /\ Fits(DeleteLoadBalancerOrigin(x))
  BY RequestIs, ModelNames
  DEF CreateLoadBalancerPoolOrigin, ListLoadBalancerPoolOrigins, GetLoadBalancerOrigin, UpdateLoadBalancerOrigin,
      DeleteLoadBalancerOrigin
<1> HIDE DEF Fits
<1>5. \A x \in Ids : \A q \in OperationsOn(x) : Fits(q)
  BY <1>1, <1>2, <1>3, <1>4 DEF OperationsOn
<1>6. PICK x \in Ids : o \in OperationsOn(x) \union {GetLoadBalancerPort(x, y) : y \in Ids}
  BY DEF Operations
<1>7. o \in OperationsOn(x) \/ \E y \in Ids : o = GetLoadBalancerPort(x, y)
  BY <1>6
<1>8. Fits(o)
  BY <1>2, <1>5, <1>7
<1> QED BY <1>8 DEF Fits

-----------------------------------------------------------------------------
(* What a request is for can be read back from its method and its path.      *)

\* The operation behind a request: the path is the server, then the words and the ids.
Meaning(method, path) ==
    IF path[2] = "projects"
    THEN IF Len(path) = 4
         THEN IF method = "POST" THEN CreateLoadBalancer(path[3]) ELSE ListLoadBalancers(path[3])
         ELSE IF method = "POST" THEN CreatePool(path[3]) ELSE ListPools(path[3])
    ELSE IF Len(path) = 3
    THEN IF method = "GET" THEN GetLoadBalancer(path[3])
         ELSE IF method = "PATCH" THEN UpdateLoadBalancer(path[3]) ELSE DeleteLoadBalancer(path[3])
    ELSE IF Len(path) = 4
    THEN IF path[3] = "ports"
         THEN IF method = "PATCH" THEN UpdateLoadBalancerPort(path[4]) ELSE DeleteLoadBalancerPort(path[4])
         ELSE IF path[3] = "pools"
         THEN IF method = "GET" THEN GetLoadBalancerPool(path[4])
              ELSE IF method = "PATCH" THEN UpdateLoadBalancerPool(path[4]) ELSE DeleteLoadBalancerPool(path[4])
         ELSE IF method = "POST" THEN CreateLoadBalancerPort(path[3]) ELSE ListLoadBalancerPorts(path[3])
    ELSE IF path[3] # "pools" THEN GetLoadBalancerPort(path[3], path[5])
    ELSE IF path[4] = "origins"
    THEN IF method = "GET" THEN GetLoadBalancerOrigin(path[5])
         ELSE IF method = "PATCH" THEN UpdateLoadBalancerOrigin(path[5]) ELSE DeleteLoadBalancerOrigin(path[5])
    ELSE IF method = "POST" THEN CreateLoadBalancerPoolOrigin(path[4]) ELSE ListLoadBalancerPoolOrigins(path[4])

\* The words of the paths, which no id is.
Words == {"projects", "loadbalancers", "ports", "pools", "origins"}

LEMMA PathOfTwo ==
    ASSUME NEW e, NEW method, NEW takes, NEW returns, NEW a, NEW b
    PROVE  Request(e, method, <<a, b>>, takes, returns).path = <<Server, a, b>>
<1> DEFINE S == {Server, a, b}
           r == <<Server>> \o <<a, b>>
<1>1. <<Server>> \in Seq(S) /\ <<a, b>> \in Seq(S) /\ <<Server, a, b>> \in Seq(S)
  OBVIOUS
<1>2. r \in Seq(S) /\ Len(r) = 3
  BY <1>1
<1>3. r[1] = Server /\ r[2] = a /\ r[3] = b
  BY <1>1
<1> HIDE DEF r
<1>4. r = <<Server, a, b>>
  BY <1>1, <1>2, <1>3
<1> QED BY <1>4 DEF Request, r

LEMMA PathOfThree ==
    ASSUME NEW e, NEW method, NEW takes, NEW returns, NEW a, NEW b, NEW c
    PROVE  Request(e, method, <<a, b, c>>, takes, returns).path = <<Server, a, b, c>>
<1> DEFINE S == {Server, a, b, c}
           r == <<Server>> \o <<a, b, c>>
<1>1. <<Server>> \in Seq(S) /\ <<a, b, c>> \in Seq(S) /\ <<Server, a, b, c>> \in Seq(S)
  OBVIOUS
<1>2. r \in Seq(S) /\ Len(r) = 4
  BY <1>1
<1>3. r[1] = Server /\ r[2] = a /\ r[3] = b /\ r[4] = c
  BY <1>1
<1> HIDE DEF r
<1>4. r = <<Server, a, b, c>>
  BY <1>1, <1>2, <1>3
<1> QED BY <1>4 DEF Request, r

LEMMA PathOfFour ==
    ASSUME NEW e, NEW method, NEW takes, NEW returns, NEW a, NEW b, NEW c, NEW d
    PROVE  Request(e, method, <<a, b, c, d>>, takes, returns).path = <<Server, a, b, c, d>>
<1> DEFINE S == {Server, a, b, c, d}
           r == <<Server>> \o <<a, b, c, d>>
<1>1. <<Server>> \in Seq(S) /\ <<a, b, c, d>> \in Seq(S) /\ <<Server, a, b, c, d>> \in Seq(S)
  OBVIOUS
<1>2. r \in Seq(S) /\ Len(r) = 5
  BY <1>1
<1>3. r[1] = Server /\ r[2] = a /\ r[3] = b /\ r[4] = c /\ r[5] = d
  BY <1>1
<1> HIDE DEF r
<1>4. r = <<Server, a, b, c, d>>
  BY <1>1, <1>2, <1>3
<1> QED BY <1>4 DEF Request, r

LEMMA MethodIs ==
    ASSUME NEW e, NEW method, NEW path, NEW takes, NEW returns
    PROVE  Request(e, method, path, takes, returns).method = method
BY DEF Request

\* The request of o says which operation it is.
Tells(o) == o = Meaning(o.method, o.path)

LEMMA LoadBalancersTell ==
    ASSUME NEW x, x \notin Words
    PROVE  /\ Tells(CreateLoadBalancer(x)) /\ Tells(ListLoadBalancers(x)) /\ Tells(GetLoadBalancer(x))
           /\ Tells(UpdateLoadBalancer(x)) /\ Tells(DeleteLoadBalancer(x))
<1>1. Tells(CreateLoadBalancer(x))
  <2>1. CreateLoadBalancer(x).method = "POST" /\ CreateLoadBalancer(x).path = <<Server, "projects", x, "loadbalancers">>
    BY PathOfThree, MethodIs DEF CreateLoadBalancer
  <2> QED BY <2>1 DEF Tells, Meaning, Words
<1>2. Tells(ListLoadBalancers(x))
  <2>1. ListLoadBalancers(x).method = "GET" /\ ListLoadBalancers(x).path = <<Server, "projects", x, "loadbalancers">>
    BY PathOfThree, MethodIs DEF ListLoadBalancers
  <2> QED BY <2>1 DEF Tells, Meaning, Words
<1>3. Tells(GetLoadBalancer(x))
  <2>1. GetLoadBalancer(x).method = "GET" /\ GetLoadBalancer(x).path = <<Server, "loadbalancers", x>>
    BY PathOfTwo, MethodIs DEF GetLoadBalancer
  <2> QED BY <2>1 DEF Tells, Meaning, Words
<1>4. Tells(UpdateLoadBalancer(x))
  <2>1. UpdateLoadBalancer(x).method = "PATCH" /\ UpdateLoadBalancer(x).path = <<Server, "loadbalancers", x>>
    BY PathOfTwo, MethodIs DEF UpdateLoadBalancer
  <2> QED BY <2>1 DEF Tells, Meaning, Words
<1>5. Tells(DeleteLoadBalancer(x))
  <2>1. DeleteLoadBalancer(x).method = "DELETE" /\ DeleteLoadBalancer(x).path = <<Server, "loadbalancers", x>>
    BY PathOfTwo, MethodIs DEF DeleteLoadBalancer
  <2> QED BY <2>1 DEF Tells, Meaning, Words
<1> QED BY <1>1, <1>2, <1>3, <1>4, <1>5

LEMMA PortsTell ==
    ASSUME NEW x, x \notin Words
    PROVE  /\ Tells(CreateLoadBalancerPort(x)) /\ Tells(ListLoadBalancerPorts(x)) /\ Tells(UpdateLoadBalancerPort(x))
           /\ Tells(DeleteLoadBalancerPort(x))
<1>1. Tells(CreateLoadBalancerPort(x))
  <2>1. CreateLoadBalancerPort(x).method = "POST" /\ CreateLoadBalancerPort(x).path = <<Server, "loadbalancers", x, "ports">>
    BY PathOfThree, MethodIs DEF CreateLoadBalancerPort
  <2> QED BY <2>1 DEF Tells, Meaning, Words
<1>2. Tells(ListLoadBalancerPorts(x))
  <2>1. ListLoadBalancerPorts(x).method = "GET" /\ ListLoadBalancerPorts(x).path = <<Server, "loadbalancers", x, "ports">>
    BY PathOfThree, MethodIs DEF ListLoadBalancerPorts
  <2> QED BY <2>1 DEF Tells, Meaning, Words
<1>3. Tells(UpdateLoadBalancerPort(x))
  <2>1. UpdateLoadBalancerPort(x).method = "PATCH" /\ UpdateLoadBalancerPort(x).path = <<Server, "loadbalancers", "ports", x>>
    BY PathOfThree, MethodIs DEF UpdateLoadBalancerPort
  <2> QED BY <2>1 DEF Tells, Meaning, Words
<1>4. Tells(DeleteLoadBalancerPort(x))
  <2>1. DeleteLoadBalancerPort(x).method = "DELETE" /\ DeleteLoadBalancerPort(x).path = <<Server, "loadbalancers", "ports", x>>
    BY PathOfThree, MethodIs DEF DeleteLoadBalancerPort
  <2> QED BY <2>1 DEF Tells, Meaning, Words
<1> QED BY <1>1, <1>2, <1>3, <1>4

LEMMA PoolsTell ==
    ASSUME NEW x, x \notin Words
    PROVE  /\ Tells(CreatePool(x)) /\ Tells(ListPools(x)) /\ Tells(GetLoadBalancerPool(x))
           /\ Tells(UpdateLoadBalancerPool(x)) /\ Tells(DeleteLoadBalancerPool(x))
<1>1. Tells(CreatePool(x))
  <2>1. CreatePool(x).method = "POST" /\ CreatePool(x).path = <<Server, "projects", x, "loadbalancers", "pools">>
    BY PathOfFour, MethodIs DEF CreatePool
  <2> QED BY <2>1 DEF Tells, Meaning, Words
<1>2. Tells(ListPools(x))
  <2>1. ListPools(x).method = "GET" /\ ListPools(x).path = <<Server, "projects", x, "loadbalancers", "pools">>
    BY PathOfFour, MethodIs DEF ListPools
  <2> QED BY <2>1 DEF Tells, Meaning, Words
<1>3. Tells(GetLoadBalancerPool(x))
  <2>1. GetLoadBalancerPool(x).method = "GET" /\ GetLoadBalancerPool(x).path = <<Server, "loadbalancers", "pools", x>>
    BY PathOfThree, MethodIs DEF GetLoadBalancerPool
  <2> QED BY <2>1 DEF Tells, Meaning, Words
<1>4. Tells(UpdateLoadBalancerPool(x))
  <2>1. UpdateLoadBalancerPool(x).method = "PATCH" /\ UpdateLoadBalancerPool(x).path = <<Server, "loadbalancers", "pools", x>>
    BY PathOfThree, MethodIs DEF UpdateLoadBalancerPool
  <2> QED BY <2>1 DEF Tells, Meaning, Words
<1>5. Tells(DeleteLoadBalancerPool(x))
  <2>1. DeleteLoadBalancerPool(x).method = "DELETE" /\ DeleteLoadBalancerPool(x).path = <<Server, "loadbalancers", "pools", x>>
    BY PathOfThree, MethodIs DEF DeleteLoadBalancerPool
  <2> QED BY <2>1 DEF Tells, Meaning, Words
<1> QED BY <1>1, <1>2, <1>3, <1>4, <1>5

LEMMA OriginsTell ==
    ASSUME NEW x, x \notin Words
    PROVE  /\ Tells(CreateLoadBalancerPoolOrigin(x)) /\ Tells(ListLoadBalancerPoolOrigins(x)) /\ Tells(GetLoadBalancerOrigin(x))
           /\ Tells(UpdateLoadBalancerOrigin(x)) /\ Tells(DeleteLoadBalancerOrigin(x))
<1>1. Tells(CreateLoadBalancerPoolOrigin(x))
  <2>1. CreateLoadBalancerPoolOrigin(x).method = "POST" /\ CreateLoadBalancerPoolOrigin(x).path = <<Server, "loadbalancers", "pools", x, "origins">>
    BY PathOfFour, MethodIs DEF CreateLoadBalancerPoolOrigin
  <2> QED BY <2>1 DEF Tells, Meaning, Words
<1>2. Tells(ListLoadBalancerPoolOrigins(x))
  <2>1. ListLoadBalancerPoolOrigins(x).method = "GET" /\ ListLoadBalancerPoolOrigins(x).path = <<Server, "loadbalancers", "pools", x, "origins">>
    BY PathOfFour, MethodIs DEF ListLoadBalancerPoolOrigins
  <2> QED BY <2>1 DEF Tells, Meaning, Words
<1>3. Tells(GetLoadBalancerOrigin(x))
  <2>1. GetLoadBalancerOrigin(x).method = "GET" /\ GetLoadBalancerOrigin(x).path = <<Server, "loadbalancers", "pools", "origins", x>>
    BY PathOfFour, MethodIs DEF GetLoadBalancerOrigin
  <2> QED BY <2>1 DEF Tells, Meaning, Words
<1>4. Tells(UpdateLoadBalancerOrigin(x))
  <2>1. UpdateLoadBalancerOrigin(x).method = "PATCH" /\ UpdateLoadBalancerOrigin(x).path = <<Server, "loadbalancers", "pools", "origins", x>>
    BY PathOfFour, MethodIs DEF UpdateLoadBalancerOrigin
  <2> QED BY <2>1 DEF Tells, Meaning, Words
<1>5. Tells(DeleteLoadBalancerOrigin(x))
  <2>1. DeleteLoadBalancerOrigin(x).method = "DELETE" /\ DeleteLoadBalancerOrigin(x).path = <<Server, "loadbalancers", "pools", "origins", x>>
    BY PathOfFour, MethodIs DEF DeleteLoadBalancerOrigin
  <2> QED BY <2>1 DEF Tells, Meaning, Words
<1> QED BY <1>1, <1>2, <1>3, <1>4, <1>5

\* A port is read by its number, under the path of its load balancer.
LEMMA PortNumberTells ==
    ASSUME NEW x, NEW y, x \notin Words
    PROVE  Tells(GetLoadBalancerPort(x, y))
<1>1. /\ GetLoadBalancerPort(x, y).method = "GET"
      /\ GetLoadBalancerPort(x, y).path = <<Server, "loadbalancers", x, "ports", y>>
  BY PathOfFour, MethodIs DEF GetLoadBalancerPort
<1> QED BY <1>1 DEF Tells, Meaning, Words

\* Whatever the ids, no two operations send the same request.
LEMMA RequestsDiffer ==
    ASSUME NEW Ids, \A x \in Ids : x \notin Words,
           NEW o \in Operations(Ids), NEW q \in Operations(Ids), o.method = q.method, o.path = q.path
    PROVE  o = q
<1>1. ASSUME NEW p \in Operations(Ids)
      PROVE  Tells(p)
  <2>1. PICK x \in Ids : p \in OperationsOn(x) \union {GetLoadBalancerPort(x, y) : y \in Ids}
    BY DEF Operations
  <2>2. p \in OperationsOn(x) \/ \E y \in Ids : p = GetLoadBalancerPort(x, y)
    BY <2>1
  <2>3. CASE p \in OperationsOn(x)
    BY <2>3, LoadBalancersTell, PortsTell, PoolsTell, OriginsTell DEF OperationsOn
  <2>4. CASE \E y \in Ids : p = GetLoadBalancerPort(x, y)
    BY <2>4, PortNumberTells
  <2> QED BY <2>2, <2>3, <2>4
<1> QED BY <1>1 DEF Tells

-----------------------------------------------------------------------------
(* Objects.                                                                  *)

LEMMA NewStandsFor ==
    ASSUME NEW m, Unknown \notin Fields(m), m.req \subseteq Fields(m)
    PROVE  StandsFor(m, New(m), Told(m, <<>>))
<1>1. DOMAIN <<>> = {}
  OBVIOUS
<1>2. /\ New(m).fields = [f \in Fields(m) |-> IF f \in m.req THEN "zero" ELSE Unset]
      /\ DOMAIN New(m).extra = {}
  BY <1>1 DEF New
<1>3. Told(m, <<>>) = [k \in Fields(m) \union {Unknown} |-> IF k = Unknown THEN Unset ELSE New(m).fields[k]]
  BY <1>1 DEF Told
<1>4. \A f \in Fields(m) : Told(m, <<>>)[f] = New(m).fields[f]
  BY <1>3
<1>5. "zero" # Unset
  BY UnsetAssumption DEF Values
<1> QED BY <1>2, <1>3, <1>4, <1>5 DEF StandsFor

\* A key of a reply is a field, or is kept with the additional properties.
LEMMA DecodedStandsFor ==
    ASSUME NEW m, Unknown \notin Fields(m), m.req \subseteq Fields(m),
           NEW K \in SUBSET (Fields(m) \union {Unknown}), NEW json \in [K -> Values \union {"null", "bad"}]
    PROVE  StandsFor(m, UnmarshalJSON(m, json), Told(m, json))
<1> DEFINE o == UnmarshalJSON(m, json)
           w == Told(m, json)
<1>1. /\ o.fields = [f \in Fields(m) |-> IF f \in K /\ json[f] # "null" THEN json[f] ELSE New(m).fields[f]]
      /\ o.extra = [k \in K \ Fields(m) |-> json[k]]
  BY DEF UnmarshalJSON, Additional
<1>2. w = [k \in Fields(m) \union {Unknown} |->
             IF k \in K /\ (k = Unknown \/ json[k] # "null") THEN json[k]
             ELSE IF k = Unknown THEN Unset ELSE New(m).fields[k]]
  BY DEF Told
<1>3. \A f \in Fields(m) : w[f] = IF f \in K /\ json[f] # "null" THEN json[f] ELSE New(m).fields[f]
  BY <1>2
<1>4. \A k \in K : json[k] # Unset
  BY UnsetAssumption
<1>5. \A f \in m.req : New(m).fields[f] # Unset
  BY UnsetAssumption DEF New, Values
<1>6. w[Unknown] = IF Unknown \in K THEN json[Unknown] ELSE Unset
  BY <1>2
<1> HIDE DEF o, w
<1>7. DOMAIN w = Fields(m) \union {Unknown}
  BY <1>2
<1>8. o.fields = [f \in Fields(m) |-> w[f]]
  BY <1>1, <1>3
<1>9. \A f \in m.req : w[f] # Unset
  BY <1>3, <1>4, <1>5
<1>10. DOMAIN o.extra = {k \in {Unknown} : w[k] # Unset} /\ \A k \in DOMAIN o.extra : o.extra[k] = w[k]
  BY <1>1, <1>4, <1>6
<1> QED BY <1>7, <1>8, <1>9, <1>10 DEF StandsFor, o, w

LEMMA SetStandsFor ==
    ASSUME NEW m, Unknown \notin Fields(m), NEW o, NEW w, StandsFor(m, o, w), NEW f \in Fields(m), NEW v \in Values
    PROVE  StandsFor(m, SetField(o, f, v), [w EXCEPT ![f] = v])
<1>1. v # Unset
  BY UnsetAssumption
<1> QED BY <1>1 DEF StandsFor, SetField

LEMMA EncodedIsMeant ==
    ASSUME NEW m, Unknown \notin Fields(m), m.req \subseteq Fields(m), NEW o, NEW w, StandsFor(m, o, w)
    PROVE  Encodes(ToMap(m, o), w)
<1>1. \A f \in Fields(m) : IsSent(m, o, f) <=> w[f] # Unset
  BY DEF StandsFor, IsSent
<1>2. ToMap(m, o) = [k \in {f \in Fields(m) : IsSent(m, o, f)} \union DOMAIN o.extra |->
                       IF k \in DOMAIN o.extra THEN o.extra[k] ELSE o.fields[k]]
  BY DEF ToMap
<1>3. DOMAIN ToMap(m, o) = {k \in DOMAIN w : w[k] # Unset}
  BY <1>1, <1>2 DEF StandsFor
<1> QED BY <1>2, <1>3 DEF StandsFor, Encodes

-----------------------------------------------------------------------------
(* The call: a value, nothing or no error needs a status below 300.          *)

LEMMA AnswersObey ==
    ASSUME NEW reply \in Answers, reply.status < 300, reply.status # 0
    PROVE  reply.obeyed
BY DEF Answers, Reply

LEMMA ExecuteObeys ==
    ASSUME NEW o, NEW reply \in Answers, Execute(o, "json", reply) \in {"value", "nothing", "done"}
    PROVE  reply.obeyed
<1>1. reply.status # 0 /\ ~(reply.status >= 300)
  BY DEF Execute, Lost
<1>2. reply.status \in Nat
  BY DEF Answers, Reply
<1> QED BY <1>1, <1>2, AnswersObey

\* Only an operation that returns a model has a value.
LEMMA ValueHasModel ==
    ASSUME NEW o, NEW reply, Execute(o, "json", reply) = "value"
    PROVE  o.returns # "none"
BY DEF Execute, Returned, Decode

LEMMA ExecuteResult ==
    ASSUME NEW o, NEW reply
    PROVE  Execute(o, "json", reply) \in {"error", "done", "value", "nothing"}
BY DEF Execute, Returned, Decode

LEMMA ReqAreFields == \A name \in DOMAIN Models : Models[name].req \subseteq Fields(Models[name])
BY DEF Fields

-----------------------------------------------------------------------------
(* The invariant.                                                            *)

LEMMA InitInv == Init => IInv
BY NoneAssumption, BoundsAssumption DEF Init, IInv, TypeOK, ObjectInv, SentIsMeant, DoneIsObeyed

\* What is held is an object of its model.
HeldInv == model \in DOMAIN Models /\ obj # None /\ obj \in Objects(Models[model]) /\ ObjectInv

LEMMA NewIsObject ==
    ASSUME NEW m, m.req \subseteq Fields(m)
    PROVE  New(m) \in Objects(m)
<1> DEFINE g == [f \in Fields(m) |-> IF f \in m.req THEN "zero" ELSE Unset]
<1>1. New(m) = [fields |-> g, extra |-> <<>>]
  BY DEF New
<1>2. "zero" \in Values /\ "zero" # Unset
  BY UnsetAssumption DEF Values
<1>3. g \in [Fields(m) -> Values \union {Unset}] /\ \A f \in m.req : g[f] # Unset
  BY <1>2
<1>4. <<>> \in [{} -> Values \union {"null", "bad"}]
  OBVIOUS
<1>5. <<>> \in UNION {[K -> Values \union {"null", "bad"}] : K \in SUBSET {Unknown}}
  BY <1>4
<1> HIDE DEF g
<1> QED BY <1>1, <1>3, <1>5 DEF Objects

LEMMA DecodedIsObject ==
    ASSUME NEW m, m.req \subseteq Fields(m), NEW K \in SUBSET (Fields(m) \union {Unknown}),
           NEW json \in [K -> Values \union {"null", "bad"}], CanDecode(m, json)
    PROVE  UnmarshalJSON(m, json) \in Objects(m)
<1> DEFINE g == UnmarshalJSON(m, json).fields
           e == UnmarshalJSON(m, json).extra
<1>1. /\ g = [f \in Fields(m) |-> IF f \in K /\ json[f] # "null" THEN json[f] ELSE New(m).fields[f]]
      /\ e = [k \in K \ Fields(m) |-> json[k]]
      /\ UnmarshalJSON(m, json) = [fields |-> g, extra |-> e]
  BY DEF UnmarshalJSON, Additional
<1>2. New(m) \in Objects(m)
  BY NewIsObject
<1>3. New(m).fields \in [Fields(m) -> Values \union {Unset}] /\ \A f \in m.req : New(m).fields[f] # Unset
  BY <1>2 DEF Objects
<1>4. \A f \in Fields(m) \intersect K : json[f] # "bad" /\ json[f] # Unset
  BY UnsetAssumption DEF CanDecode, Accepts
<1> HIDE DEF g, e
<1>5. ASSUME NEW f \in Fields(m)
      PROVE  g[f] \in Values \union {Unset} /\ (f \in m.req => g[f] # Unset)
  BY <1>1, <1>3, <1>4
<1>6. g \in [Fields(m) -> Values \union {Unset}] /\ \A f \in m.req : g[f] # Unset
  BY <1>1, <1>5
<1>7. K \ Fields(m) \in SUBSET {Unknown} /\ e \in [K \ Fields(m) -> Values \union {"null", "bad"}]
  BY <1>1
<1>8. e \in UNION {[L -> Values \union {"null", "bad"}] : L \in SUBSET {Unknown}}
  BY <1>7
<1> QED BY <1>1, <1>6, <1>8 DEF Objects

LEMMA Held ==
    ASSUME NEW name \in DOMAIN Models
    PROVE  /\ HoldNew(name) => HeldInv'
           /\ \A json \in Wires(name) : CanDecode(Models[name], json) /\ HoldDecoded(name, json) => HeldInv'
<1>1. HoldNew(name) => HeldInv'
  BY NoFieldIsUnknown, ReqAreFields, NewStandsFor, NewIsObject, NoneAssumption DEF HoldNew, ObjectInv, HeldInv
<1>2. ASSUME NEW json \in Wires(name), CanDecode(Models[name], json), HoldDecoded(name, json)
      PROVE  HeldInv'
  <2>1. PICK K \in SUBSET (Fields(Models[name]) \union {Unknown}) : json \in [K -> Values \union {"null", "bad"}]
    BY DEF Wires
  <2>2. StandsFor(Models[name], UnmarshalJSON(Models[name], json), Told(Models[name], json))
    BY <2>1, NoFieldIsUnknown, ReqAreFields, DecodedStandsFor
  <2>3. UnmarshalJSON(Models[name], json) \in Objects(Models[name])
    BY <1>2, <2>1, ReqAreFields, DecodedIsObject
  <2> QED BY <1>2, <2>2, <2>3, NoneAssumption DEF HoldDecoded, ObjectInv, HeldInv
<1> QED BY <1>1, <1>2

LEMMA BeginInv == IInv /\ Begin => IInv'
<1> SUFFICES ASSUME IInv, Begin PROVE IInv'
  OBVIOUS
<1>1. PICK o \in Operations({"x"}) : op' = o /\ IF o.takes = "none" THEN HoldNothing ELSE HoldNew(o.takes)
  BY DEF Begin
<1>2. UNCHANGED <<sent, result, obeyed, sets>> /\ obj = None
  BY DEF Begin
<1>3. HeldInv' \/ (model' = None /\ obj' = None)
  BY <1>1, OperationModels, Held DEF HoldNothing
<1>4. ObjectInv' /\ TypeOK'
  BY <1>1, <1>2, <1>3, NoneAssumption DEF HeldInv, ObjectInv, IInv, TypeOK
<1>5. sent' = None
  BY <1>2 DEF IInv
<1> QED BY <1>1, <1>2, <1>4, <1>5 DEF IInv, SentIsMeant, DoneIsObeyed

LEMMA PartInv == IInv /\ Part => IInv'
<1> SUFFICES ASSUME IInv, Part PROVE IInv'
  OBVIOUS
<1>1. PICK name \in DOMAIN Models :
        \E json \in Wires(name) : CanDecode(Models[name], json) /\ HoldDecoded(name, json)
  BY DEF Part
<1>2. UNCHANGED <<op, sent, result, obeyed, sets>> /\ obj = None
  BY DEF Part
<1>3. HeldInv'
  BY <1>1, Held
<1>4. ObjectInv' /\ TypeOK'
  BY <1>2, <1>3, NoneAssumption DEF HeldInv, IInv, TypeOK
<1>5. sent' = None
  BY <1>2 DEF IInv
<1> QED BY <1>2, <1>4, <1>5 DEF IInv, SentIsMeant, DoneIsObeyed

LEMMA SetIsObject ==
    ASSUME NEW m, NEW o \in Objects(m), NEW f \in Fields(m), NEW v \in Values
    PROVE  SetField(o, f, v) \in Objects(m)
<1>1. v # Unset
  BY UnsetAssumption
<1> DEFINE h == [o.fields EXCEPT ![f] = v]
           E == UNION {[K -> Values \union {"null", "bad"}] : K \in SUBSET {Unknown}}
<1>2. /\ o.fields \in [Fields(m) -> Values \union {Unset}]
      /\ \A r \in m.req : o.fields[r] # Unset
      /\ o.extra \in E
      /\ o = [fields |-> o.fields, extra |-> o.extra]
  BY DEF Objects
<1> HIDE DEF E
<1>3. h \in [Fields(m) -> Values \union {Unset}] /\ \A r \in m.req : h[r] # Unset
  BY <1>1, <1>2
<1>4. SetField(o, f, v) = [fields |-> h, extra |-> o.extra]
  BY <1>2 DEF SetField
<1> HIDE DEF h
<1> QED BY <1>2, <1>3, <1>4 DEF Objects, E

LEMMA SetInv == IInv /\ Set => IInv'
<1> SUFFICES ASSUME IInv, Set PROVE IInv'
  OBVIOUS
<1>1. PICK f \in Fields(Models[model]), v \in Values : obj' = SetField(obj, f, v) /\ meant' = [meant EXCEPT ![f] = v]
  BY DEF Set
<1>2. obj # None /\ sent = None /\ UNCHANGED <<op, model, sent, result, obeyed>>
  BY DEF Set
<1>3. model \in DOMAIN Models /\ StandsFor(Models[model], obj, meant)
  BY <1>2 DEF IInv, ObjectInv
<1>4. StandsFor(Models[model], obj', meant')
  BY <1>1, <1>3, NoFieldIsUnknown, SetStandsFor
<1>5. obj' \in Objects(Models[model])
  BY <1>1, <1>2, SetIsObject DEF IInv, TypeOK
<1>6. obj' # None
  BY <1>3, <1>5, NoneAssumption
<1>7. sets' \in 0 .. MaxSets
  BY BoundsAssumption DEF Set, IInv, TypeOK
<1>8. TypeOK'
  BY <1>2, <1>3, <1>5, <1>6, <1>7, NoneAssumption DEF IInv, TypeOK
<1> QED BY <1>2, <1>3, <1>4, <1>6, <1>8 DEF IInv, ObjectInv, SentIsMeant, DoneIsObeyed

LEMMA EncodeInv == IInv /\ Encode => IInv'
<1> SUFFICES ASSUME IInv, Encode PROVE IInv'
  OBVIOUS
<1>1. model \in DOMAIN Models /\ StandsFor(Models[model], obj, meant) /\ sent = None /\ UNCHANGED <<op, obeyed, sets>>
  BY DEF IInv, ObjectInv, Encode
<1>2. CASE CanEncode(Models[model], obj)
  <2>1. sent' = ToMap(Models[model], obj) /\ UNCHANGED <<model, obj, meant, result>> /\ obj # None
    BY <1>2 DEF Encode
  <2>0. Unknown \notin Fields(Models[model]) /\ Models[model].req \subseteq Fields(Models[model])
    BY <1>1, NoFieldIsUnknown, ReqAreFields
  <2>2. Encodes(ToMap(Models[model], obj), meant)
    BY <1>1, <2>0, EncodedIsMeant
  <2>3. SentIsMeant'
    BY <2>1, <2>2 DEF SentIsMeant, Encodes
  <2> QED BY <1>1, <2>1, <2>3 DEF IInv, TypeOK, ObjectInv, DoneIsObeyed
<1>3. CASE ~CanEncode(Models[model], obj)
  <2>1. result' = "error" /\ obj' = None /\ model' = None /\ sent' = None
    BY <1>1, <1>3 DEF Encode, HoldNothing
  <2> QED BY <1>1, <2>1 DEF IInv, TypeOK, ObjectInv, SentIsMeant, DoneIsObeyed
<1> QED BY <1>2, <1>3

LEMMA AnswerInv == IInv /\ Answer => IInv'
<1> SUFFICES ASSUME IInv, Answer PROVE IInv'
  OBVIOUS
<1>1. PICK reply \in Answers :
        /\ obeyed' = reply.obeyed
        /\ LET r == Execute(op, "json", reply) IN
           IF r # "value" THEN result' = r /\ HoldNothing
           ELSE \E json \in Wires(op.returns) :
                  IF CanDecode(Models[op.returns], json)
                  THEN result' = "value" /\ HoldDecoded(op.returns, json)
                  ELSE result' = "error" /\ HoldNothing
  BY DEF Answer
<1>2. op' = op /\ op \in Operations({"x"}) /\ sent' = None /\ sets' = 0
  BY DEF Answer, IInv, TypeOK
<1>3. CASE Execute(op, "json", reply) # "value"
  <2>1. result' = Execute(op, "json", reply) /\ obj' = None /\ model' = None
    BY <1>1, <1>3 DEF HoldNothing
  <2>2. DoneIsObeyed'
    BY <1>1, <2>1, ExecuteObeys DEF DoneIsObeyed
  <2>3. TypeOK'
    BY <1>2, <2>1, ExecuteResult, BoundsAssumption DEF TypeOK
  <2> QED BY <1>2, <2>1, <2>2, <2>3 DEF IInv, ObjectInv, SentIsMeant
<1>4. CASE Execute(op, "json", reply) = "value"
  <2>1. op.returns \in DOMAIN Models /\ reply.obeyed
    BY <1>2, <1>4, OperationModels, ValueHasModel, ExecuteObeys
  <2>2. PICK json \in Wires(op.returns) :
          \/ result' = "value" /\ CanDecode(Models[op.returns], json) /\ HoldDecoded(op.returns, json)
          \/ result' = "error" /\ HoldNothing
    BY <1>1, <1>4
  <2>3. HeldInv' \/ (model' = None /\ obj' = None)
    BY <2>1, <2>2, Held DEF HoldNothing
  <2>5. ObjectInv' /\ TypeOK'
    BY <1>2, <2>2, <2>3, NoneAssumption, BoundsAssumption DEF HeldInv, ObjectInv, TypeOK
  <2>4. DoneIsObeyed'
    BY <1>1, <2>1 DEF DoneIsObeyed
  <2> QED BY <1>2, <2>4, <2>5 DEF IInv, SentIsMeant
<1> QED BY <1>3, <1>4

\* The invariant holds in every state: of an object before it is encoded, of what it was
\* encoded to, and of the answer to a call (model_*.go, api_*.go).
THEOREM Invariance == Spec => []IInv
<1>1. IInv /\ [Next]_vars => IInv'
  <2>1. IInv /\ UNCHANGED vars => IInv'
    BY DEF vars, IInv, TypeOK, ObjectInv, SentIsMeant, DoneIsObeyed
  <2> QED BY <2>1, BeginInv, PartInv, SetInv, EncodeInv, AnswerInv DEF Next
<1> QED BY <1>1, InitInv, PTL DEF Spec

\* Whatever the keys of a reply and however many setters are called, what is encoded is
\* the last value set or received of every key, with no key lost and none invented
\* (ToMap and UnmarshalJSON of model_*.go).
THEOREM SentAsMeant == Spec => []SentIsMeant
<1>1. IInv => SentIsMeant
  BY DEF IInv
<1> QED BY <1>1, Invariance, PTL

\* A call of any operation that ends without an error was obeyed by the API (the Execute
\* methods of api_*.go).
THEOREM ObeyedWhenDone == Spec => []DoneIsObeyed
<1>1. IInv => DoneIsObeyed
  BY DEF IInv
<1> QED BY <1>1, Invariance, PTL

\* What is held is an object of its model: a field that is always sent is never unset,
\* and no additional property has the name of a field (UnmarshalJSON of model_*.go).
THEOREM TypeCorrectness == Spec => []TypeOK
<1>1. IInv => TypeOK
  BY DEF IInv
<1> QED BY <1>1, Invariance, PTL

\* An operation is the only one to send its request: method and path tell it, with its
\* ids, from all others (the paths of api_*.go).
THEOREM RequestsTellOperations == Spec => []Unaliased
<1>1. IInv => Unaliased
  <2> SUFFICES ASSUME IInv, op # None, NEW other \in Operations({"x", "y"}),
                      other.method = op.method, other.path = op.path
               PROVE  other = op
    BY DEF Unaliased
  <2>1. op \in Operations({"x"})
    BY DEF IInv, TypeOK
  <2>2. op \in Operations({"x", "y"})
    BY <2>1 DEF Operations
  <2>3. \A x \in {"x", "y"} : x \notin Words
    BY DEF Words
  <2> QED BY <2>2, <2>3, RequestsDiffer
<1> QED BY <1>1, Invariance, PTL
=============================================================================
