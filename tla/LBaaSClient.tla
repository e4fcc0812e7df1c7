---------------------------- MODULE LBaaSClient ----------------------------
(* The generated client of the load balancer API (internal/lbaas/v1) and     *)
(* the exchange of the API key for a token (token_exchanger.go): the request *)
(* every operation sends, and what its caller gets for the reply.            *)
(*                                                                           *)
(* An operation is a record: its endpoint, the method and the path of its    *)
(* request, the model its body must hold ("none": it has no body) and the    *)
(* model its reply is decoded into ("none": the reply is not looked at).     *)
EXTENDS Naturals, Sequences

\* The one server of the configuration; no caller overrides it.
Server == "lb.metalctrl.io"

Request(endpoint, method, path, takes, returns) ==
    [endpoint |-> endpoint, method |-> method, path |-> <<Server>> \o path, takes |-> takes, returns |-> returns]

----------------------------------------------------------------------------
(* Load balancers *)

CreateLoadBalancer(project) ==
    Request("CreateLoadBalancer", "POST", <<"projects", project, "loadbalancers">>, "LoadBalancerCreate", "ResourceCreatedResponse")
ListLoadBalancers(project) ==
    Request("ListLoadBalancers", "GET", <<"projects", project, "loadbalancers">>, "none", "LoadBalancerCollection")
GetLoadBalancer(lb) ==
    Request("GetLoadBalancer", "GET", <<"loadbalancers", lb>>, "none", "LoadBalancer")
UpdateLoadBalancer(lb) ==
    Request("UpdateLoadBalancer", "PATCH", <<"loadbalancers", lb>>, "LoadBalancerUpdate", "ResourceCreatedResponse")
DeleteLoadBalancer(lb) ==
    Request("DeleteLoadBalancer", "DELETE", <<"loadbalancers", lb>>, "none", "none")

----------------------------------------------------------------------------
(* Ports: created, listed and read by number under their load balancer,      *)
(* updated and deleted by their own id.                                      *)

CreateLoadBalancerPort(lb) ==
    Request("CreateLoadBalancerPort", "POST", <<"loadbalancers", lb, "ports">>, "LoadBalancerPortCreate", "ResourceCreatedResponse")
ListLoadBalancerPorts(lb) ==
    Request("ListLoadBalancerPorts", "GET", <<"loadbalancers", lb, "ports">>, "none", "LoadBalancerPortCollection")
GetLoadBalancerPort(lb, number) ==
    Request("GetLoadBalancerPort", "GET", <<"loadbalancers", lb, "ports", number>>, "none", "LoadBalancerPort")
UpdateLoadBalancerPort(port) ==
    Request("UpdateLoadBalancerPort", "PATCH", <<"loadbalancers", "ports", port>>, "LoadBalancerPortUpdate", "LoadBalancerPort")
DeletePoolForPort(port) ==
    Request("DeleteLoadBalancerPort", "DELETE", <<"loadbalancers", "pools", port>>, "none", "none")
DeleteLoadBalancerPort(port) ==
    Request("DeleteLoadBalancerPort", "DELETE", <<"loadbalancers", "ports", port>>, "none", "none")

----------------------------------------------------------------------------
(* Pools *)

CreatePool(project) ==
    Request("CreatePool", "POST", <<"projects", project, "loadbalancers", "pools">>, "LoadBalancerPoolCreate", "ResourceCreatedResponse")
ListPools(project) ==
    Request("ListPools", "GET", <<"projects", project, "loadbalancers", "pools">>, "none", "LoadBalancerPoolCollection")
GetLoadBalancerPool(pool) ==
    Request("GetLoadBalancerPool", "GET", <<"loadbalancers", "pools", pool>>, "none", "LoadBalancerPool")
UpdateLoadBalancerPool(pool) ==
    Request("UpdateLoadBalancerPool", "PATCH", <<"loadbalancers", "pools", pool>>, "LoadBalancerPoolUpdate", "LoadBalancerPool")
DeleteLoadBalancerPool(pool) ==
    Request("DeleteLoadBalancerPool", "DELETE", <<"loadbalancers", "pools", pool>>, "none", "none")

----------------------------------------------------------------------------
(* Origins: created and listed under their pool, the rest by their own id.   *)

CreateLoadBalancerPoolOrigin(pool) ==
    Request("CreateLoadBalancerPoolOrigin", "POST", <<"loadbalancers", "pools", pool, "origins">>, "LoadBalancerPoolOriginCreate", "ResourceCreatedResponse")
ListLoadBalancerPoolOrigins(pool) ==
    Request("ListLoadBalancerPoolOrigins", "GET", <<"loadbalancers", "pools", pool, "origins">>, "none", "LoadBalancerPoolOriginCollection")
GetLoadBalancerOrigin(origin) ==
    Request("GetLoadBalancerOrigin", "GET", <<"loadbalancers", "pools", "origins", origin>>, "none", "LoadBalancerPoolOrigin")
UpdateLoadBalancerOrigin(origin) ==
    Request("UpdateLoadBalancerOrigin", "PATCH", <<"loadbalancers", "pools", "origins", origin>>, "LoadBalancerPoolOriginUpdate", "LoadBalancerPoolOrigin")
DeleteLoadBalancerOrigin(origin) ==
    Request("DeleteLoadBalancerOrigin", "DELETE", <<"loadbalancers", "pools", "origins", origin>>, "none", "none")

OperationsOn(x) ==
    { CreateLoadBalancer(x), ListLoadBalancers(x), GetLoadBalancer(x), UpdateLoadBalancer(x),
      DeleteLoadBalancer(x), CreateLoadBalancerPort(x), ListLoadBalancerPorts(x),
      UpdateLoadBalancerPort(x), DeleteLoadBalancerPort(x), CreatePool(x), ListPools(x),
      GetLoadBalancerPool(x), UpdateLoadBalancerPool(x), DeleteLoadBalancerPool(x),
      CreateLoadBalancerPoolOrigin(x), ListLoadBalancerPoolOrigins(x), GetLoadBalancerOrigin(x),
      UpdateLoadBalancerOrigin(x), DeleteLoadBalancerOrigin(x) }

\* Every request the client can send, with ids taken from Ids.
Operations(Ids) ==
    UNION {OperationsOn(x) \union {GetLoadBalancerPort(x, y) : y \in Ids} : x \in Ids}

----------------------------------------------------------------------------
(* One call.  A reply says what came of the token exchange, the status (0:   *)
(* the connection failed), the body, and whether the API did what it was     *)
(* asked, which the caller does not see.                                     *)

Reply(token, status, body, obeyed) ==
    [token |-> token, status |-> status, body |-> body, obeyed |-> obeyed]

\* A token is exchanged for every request: only a 200 with a JSON token will do.
Token(reply) == reply.token = "granted"

\* The request is built: a body the operation needs is there and can be encoded.
Prepared(op, body, reply) ==
    /\ op.takes # "none" => body = "json"
    /\ Token(reply)

\* An empty body decodes to nothing, without an error.
Decode(reply) ==
    CASE reply.body = "json"  -> "value"
      [] reply.body = "empty" -> "nothing"
      [] OTHER                -> "error"

\* No answer, or not the whole of one.
Lost(reply) == reply.status = 0 \/ reply.body = "cut"

Returned(op, reply) == IF op.returns = "none" THEN "done" ELSE Decode(reply)

ExecuteAnyStatus(op, body, reply) ==
    IF ~Prepared(op, body, reply) \/ Lost(reply) THEN "error" ELSE Returned(op, reply)
Execute(op, body, reply) ==
    IF ~Prepared(op, body, reply) \/ Lost(reply) \/ reply.status >= 300
    THEN "error" ELSE Returned(op, reply)
=============================================================================
