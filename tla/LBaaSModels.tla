---------------------------- MODULE LBaaSModels ----------------------------
(* The models of the load balancer API (internal/lbaas/v1/model_*.go) and a  *)
(* call that uses them: a body is built with the setters and encoded, the    *)
(* reply is decoded into a model whose fields can be set and encoded again.  *)
EXTENDS LBaaSClient, FiniteSets

CONSTANTS
    Unset,     \* the nil pointer or slice of an optional field
    None,      \* no object, nothing encoded
    MaxKeys,   \* bound on the keys of a reply
    MaxSets    \* bound on the setters called on one object

----------------------------------------------------------------------------
(* A model has fields it always sends and fields it sends when they are set. *)
(* Two kinds of field have a decoder of their own: an enum and a oneOf.      *)

Model(req, opt) == [req |-> req, opt |-> opt, enum |-> {}, oneOf |-> {}]
WithOneOf(m, fs) == [m EXCEPT !.oneOf = fs]
WithEnum(m, fs) == [m EXCEPT !.enum = fs]

Dates == {"created_at", "updated_at"}

LoadBalancer == Model({"id", "name", "provider", "ports"} \union Dates, {"pools", "ips", "location"})
LoadBalancerCollection == Model({"loadbalancers"}, {})
LoadBalancerCreate == Model({"name", "location_id", "port_ids", "provider_id"}, {})
LoadBalancerLocation == Model({}, {"id", "name"} \union Dates)
LoadBalancerPool ==
    WithEnum(Model({"id", "name", "protocol", "project_id"} \union Dates, {"ports", "origins", "loadbalancers"}),
             {"protocol"})
LoadBalancerPoolCollection == Model({"pools"}, {})
LoadBalancerPoolCreate ==
    WithOneOf(Model({"name", "protocol"}, {"port_ids", "origin_ids"}), {"protocol"})
LoadBalancerPoolOrigin ==
    WithOneOf(Model({"id", "name", "target", "port_number", "active", "pool_id"} \union Dates, {}), {"port_number"})
LoadBalancerPoolOriginCollection == Model({"origins"}, {})
LoadBalancerPoolOriginCreate ==
    WithOneOf(Model({"name", "target", "port_number", "active", "pool_id"}, {}), {"port_number"})
LoadBalancerPoolOriginUpdate ==
    WithOneOf(Model({}, {"name", "target", "port_number", "active"}), {"port_number"})
\* The ID is a plain string, the only optional field that is not a pointer or a slice.
LoadBalancerPoolShort == Model({"id"}, {"name"} \union Dates)
LoadBalancerPoolUpdate ==
    WithOneOf(Model({}, {"name", "protocol", "add_port_ids", "remove_port_ids", "clear_ports",
                         "add_origin_ids", "remove_origin_ids", "clear_origins"}), {"protocol"})
LoadBalancerPort == Model({}, {"id", "name", "number", "loadbalancer_id", "pool_ids"} \union Dates)
LoadBalancerPortCollection == Model({"ports"}, {})
LoadBalancerPortCreate == Model({"name", "number"}, {"pool_ids"})
LoadBalancerPortUpdate == Model({}, {"name", "number", "add_pool_ids", "remove_pool_ids"})
LoadBalancerShort == Model({"id", "name"} \union Dates, {})
LoadBalancerUpdate == Model({}, {"name", "add_port_ids", "remove_port_ids", "clear_ports"})
Provider == Model({"name"}, {"id"})
ResourceCreatedResponse == Model({}, {"version", "message", "id", "status"})

Models ==
    [ LoadBalancer |-> LoadBalancer, LoadBalancerCollection |-> LoadBalancerCollection,
      LoadBalancerCreate |-> LoadBalancerCreate, LoadBalancerLocation |-> LoadBalancerLocation,
      LoadBalancerPool |-> LoadBalancerPool, LoadBalancerPoolCollection |-> LoadBalancerPoolCollection,
      LoadBalancerPoolCreate |-> LoadBalancerPoolCreate, LoadBalancerPoolOrigin |-> LoadBalancerPoolOrigin,
      LoadBalancerPoolOriginCollection |-> LoadBalancerPoolOriginCollection,
      LoadBalancerPoolOriginCreate |-> LoadBalancerPoolOriginCreate,
      LoadBalancerPoolOriginUpdate |-> LoadBalancerPoolOriginUpdate,
      LoadBalancerPoolShort |-> LoadBalancerPoolShort, LoadBalancerPoolUpdate |-> LoadBalancerPoolUpdate,
      LoadBalancerPort |-> LoadBalancerPort, LoadBalancerPortCollection |-> LoadBalancerPortCollection,
      LoadBalancerPortCreate |-> LoadBalancerPortCreate, LoadBalancerPortUpdate |-> LoadBalancerPortUpdate,
      LoadBalancerShort |-> LoadBalancerShort, LoadBalancerUpdate |-> LoadBalancerUpdate,
      Provider |-> Provider, ResourceCreatedResponse |-> ResourceCreatedResponse ]

Fields(m) == m.req \union m.opt

----------------------------------------------------------------------------
(* Objects.  A value is the type's zero value ("", 0, FALSE, [], or a oneOf  *)
(* that holds nothing) or one of two others.  JSON is a function from the    *)
(* keys it has to values; it can also be null or of the wrong type.  "other" *)
(* is a key the model does not know.                                         *)

Values == {"zero", "a", "b"}
Unknown == "other"

ASSUME UnsetAssumption == Unset \notin Values \union {"null", "bad"}

\* An object of the model m: only an optional field can be unset.
Objects(m) ==
    [ fields : {g \in [Fields(m) -> Values \union {Unset}] : \A f \in m.req : g[f] # Unset},
      extra  : UNION {[K -> Values \union {"null", "bad"}] : K \in SUBSET {Unknown}} ]

ASSUME NoneAssumption ==
    None \notin DOMAIN Models /\ \A name \in DOMAIN Models : None \notin Objects(Models[name])
ASSUME BoundsAssumption == MaxKeys \in Nat /\ MaxSets \in Nat

New(m) == [fields |-> [f \in Fields(m) |-> IF f \in m.req THEN "zero" ELSE Unset], extra |-> <<>>]

SetField(obj, f, v) == [obj EXCEPT !.fields[f] = v]

\* A oneOf that holds nothing encodes to no JSON at all, which is an error.
CanEncode(m, obj) == \A f \in m.oneOf : obj.fields[f] # "zero"

NotEmpty(m, obj, f) == f \in m.req \/ obj.fields[f] \notin {Unset, "zero"}
\* Optional fields are sent when set, were it to a zero value.
IsSent(m, obj, f) == f \in m.req \/ obj.fields[f] # Unset

\* The additional properties come last.
ToMap(m, obj) ==
    [k \in {f \in Fields(m) : IsSent(m, obj, f)} \union DOMAIN obj.extra |->
        IF k \in DOMAIN obj.extra THEN obj.extra[k] ELSE obj.fields[k]]

\* An enum takes its values only; a oneOf takes null, and then holds nothing.
Accepts(m, f, v) ==
    /\ v # "bad"
    /\ f \in m.enum => v \notin {"null", "zero"}
    /\ f \in m.oneOf => v # "zero"

CanDecode(m, json) == \A f \in Fields(m) \intersect DOMAIN json : Accepts(m, f, json[f])

WholeReply(m, json) == json
\* What the model does not know is kept as additional properties, and nothing else.
Additional(m, json) == [k \in DOMAIN json \ Fields(m) |-> json[k]]

UnmarshalJSON(m, json) ==
    [ fields |-> [f \in Fields(m) |->
                    IF f \in DOMAIN json /\ json[f] # "null" THEN json[f] ELSE New(m).fields[f]],
      extra  |-> Additional(m, json) ]

----------------------------------------------------------------------------

VARIABLES
    op,      \* the operation called, or None
    model,   \* the name of the model of obj, or None
    obj,     \* the object the caller holds, or None
    meant,   \* what it stands for: the last value set or received for every key
    sent,    \* the JSON it was last encoded to, or None
    result,  \* of the call: "pending" "value" "nothing" "done" "error"
    obeyed,  \* did the API do what it was asked?
    sets     \* setters called on obj

vars == <<op, model, obj, meant, sent, result, obeyed, sets>>

\* What a model is told by JSON, key by key.
Told(m, json) ==
    [k \in Fields(m) \union {Unknown} |->
        IF k \in DOMAIN json /\ (k = Unknown \/ json[k] # "null") THEN json[k]
        ELSE IF k = Unknown THEN Unset ELSE New(m).fields[k]]

HoldNothing == model' = None /\ obj' = None /\ meant' = None

HoldNew(name) ==
    model' = name /\ obj' = New(Models[name]) /\ meant' = Told(Models[name], <<>>)

HoldDecoded(name, json) ==
    /\ model' = name
    /\ obj' = UnmarshalJSON(Models[name], json)
    /\ meant' = Told(Models[name], json)

\* The JSON a server may answer with: some keys, one of them perhaps unknown.
Wires(name) ==
    UNION {[K -> Values \union {"null", "bad"}] :
             K \in {K \in SUBSET (Fields(Models[name]) \union {Unknown}) : Cardinality(K) <= MaxKeys}}

Init ==
    /\ op = None /\ model = None /\ obj = None /\ meant = None
    /\ sent = None /\ result = "pending" /\ obeyed = FALSE /\ sets = 0

\* An operation is called, with a new body if it needs one.
Begin ==
    /\ op = None /\ obj = None
    /\ \E o \in Operations({"x"}) :
        /\ op' = o
        /\ IF o.takes = "none" THEN HoldNothing ELSE HoldNew(o.takes)
    /\ UNCHANGED <<sent, result, obeyed, sets>>

\* A model that is part of another one is decoded with it.
Part ==
    /\ op = None /\ obj = None
    /\ \E name \in DOMAIN Models : \E json \in Wires(name) :
        CanDecode(Models[name], json) /\ HoldDecoded(name, json)
    /\ UNCHANGED <<op, sent, result, obeyed, sets>>

Set ==
    /\ obj # None /\ sent = None /\ sets < MaxSets
    /\ \E f \in Fields(Models[model]), v \in Values :
        /\ obj' = SetField(obj, f, v)
        /\ meant' = [meant EXCEPT ![f] = v]
    /\ sets' = sets + 1
    /\ UNCHANGED <<op, model, sent, result, obeyed>>

\* A body is encoded for the request; what came as a reply can be, too.
Encode ==
    /\ obj # None /\ sent = None
    /\ IF CanEncode(Models[model], obj)
       THEN sent' = ToMap(Models[model], obj) /\ UNCHANGED <<model, obj, meant, result>>
       ELSE result' = "error" /\ HoldNothing /\ UNCHANGED sent
    /\ UNCHANGED <<op, obeyed, sets>>

Answers == { Reply("granted", s, b, TRUE) : s \in {200, 202}, b \in {"json", "empty", "other", "cut"} }
           \union { Reply("granted", s, "json", s = 0) : s \in {0, 300, 404, 500} }
           \union { Reply("refused", 0, "empty", FALSE) }

Answer ==
    /\ op # None /\ result = "pending" /\ (op.takes # "none" => sent # None)
    /\ \E reply \in Answers :
        /\ obeyed' = reply.obeyed
        /\ LET r == Execute(op, "json", reply) IN
           IF r # "value" THEN result' = r /\ HoldNothing
           ELSE \E json \in Wires(op.returns) :
                  IF CanDecode(Models[op.returns], json)
                  THEN result' = "value" /\ HoldDecoded(op.returns, json)
                  ELSE result' = "error" /\ HoldNothing
    /\ sent' = None /\ sets' = 0
    /\ UNCHANGED op

Next == Begin \/ Part \/ Set \/ Encode \/ Answer

Spec == Init /\ [][Next]_vars

----------------------------------------------------------------------------
(* Properties *)

\* The state is of the expected shape (model_*.go).
TypeOK ==
    /\ op \in Operations({"x"}) \union {None}
    /\ model \in (DOMAIN Models) \union {None} /\ (obj = None) = (model = None)
    /\ obj # None => obj \in Objects(Models[model])
    /\ result \in {"pending", "value", "nothing", "done", "error"}
    /\ sets \in 0 .. MaxSets

\* What is encoded is, key by key, the last value that was set or received: a field set
\* to a zero value is sent (ToMap), one set after it was received is not hidden by the
\* reply's additional properties (UnmarshalJSON), and keys no model knows survive.
SentIsMeant ==
    sent # None =>
        /\ DOMAIN sent = {k \in DOMAIN meant : meant[k] # Unset}
        /\ \A k \in DOMAIN sent : sent[k] = meant[k]

\* A call that returns no error was obeyed, whatever came back (the Execute methods of
\* api_*.go): not so for a refusal whose body happens to decode.
DoneIsObeyed == result \in {"value", "nothing", "done"} => obeyed

\* No operation sends the request of another one: method and path tell every call and
\* its resource from all others (the paths of api_*.go).
Unaliased ==
    op # None =>
        \A other \in Operations({"x", "y"}) :
            other.method = op.method /\ other.path = op.path => other = op
=============================================================================
