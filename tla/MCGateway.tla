---- MODULE MCGateway ----
EXTENDS Gateway

CONSTANTS n0, n1, n01, s0, s1, k1, k2, q1, q2, q3

Read == {"read"}
Small == {"read", "small"}
Medium == {"read", "small", "medium"}

MCImplies == "medium" :> {"small"}
MCPolicies == "pay" :> [require |-> {"small"}, minScore |-> 80, maxDepth |-> 1]
MCCredentials == k1 :> [commitment |-> k1, mask |-> Medium, expiry |-> 3]
                 @@ k2 :> [commitment |-> k2, mask |-> Read, expiry |-> None]

Hop(scope, genuine, expiry) ==
    [decimal |-> TRUE, genuine |-> genuine, scope |-> scope, expiry |-> expiry, ts |-> 0]
Plain == [dev |-> FALSE, form |-> "ok", nonce |-> n1, session |-> s1, stamp |-> 1, commitment |-> k1,
          claimed |-> Medium, verifies |-> "valid", rootsKnown |-> TRUE,
          proves |-> MCCredentials[k1], hops |-> <<>>]
Variants ==
    {Plain, [Plain EXCEPT !.nonce = n0, !.session = s0, !.stamp = 0],
     [Plain EXCEPT !.hops = <<Hop(Small, TRUE, 2)>>],
     [Plain EXCEPT !.hops = <<Hop(Read, TRUE, 3), Hop(Small, FALSE, 3)>>],
     [Plain EXCEPT !.commitment = k2, !.claimed = Read],
     [Plain EXCEPT !.proves = MCCredentials[k2], !.claimed = Read]}
\* The same number with a zero in front.
Respelled == [Plain EXCEPT !.nonce = n01]
InProduction == Variants \cup {[Plain EXCEPT !.verifies = "invalid"], Respelled}
InDevelopment == {[b EXCEPT !.dev = TRUE] : b \in Variants} \cup {Plain}

Call(method, tool, bundle) == [method |-> method, tool |-> tool, bundle |-> bundle]
Offered(bundles) ==
    {Call("exempt", None, None), Call("call", "pay", None)}
    \cup {Call("other", None, b) : b \in bundles} \cup {Call("call", "pay", b) : b \in bundles}
Deployment(devMode, binding, minScore, store) ==
    [devMode |-> devMode, binding |-> binding, minScore |-> minScore, store |-> store,
     callers |-> {q1, q2}, calls |-> Offered(IF devMode THEN InDevelopment ELSE InProduction)]
MCConfigs == {Deployment(TRUE, TRUE, 95, "redis"), Deployment(FALSE, TRUE, 95, "redis"),
              Deployment(FALSE, TRUE, 70, "memory"), Deployment(TRUE, FALSE, 70, "memory"),
              [Deployment(FALSE, TRUE, 70, "memory") EXCEPT
                  !.callers = Requests, !.calls = Offered({Plain})]}

\* The view leaves out what no later step and no property reads: of a request
\* that was not forwarded all but its method and outcome, a mark once
\* it is forgotten, and the time and the marks when every request is done.
Seen(r) == IF r.phase = "done" /\ r.outcome # "forwarded"
           THEN [NewRequest EXCEPT !.phase = "done", !.method = r.method, !.outcome = r.outcome]
           ELSE r
Times == <<now, [s \in DOMAIN nonces |-> [n \in Nonces |->
             IF nonces[s][n] > now THEN nonces[s][n] ELSE 0]]>>
AllDone == \A q \in config.callers : requests[q].phase = "done"
View == <<config, IF AllDone THEN <<>> ELSE Times, gateways,
          [q \in Requests |-> Seen(requests[q])], signed, delivered>>
CallerSymmetry == Permutations({q1, q2})
====
