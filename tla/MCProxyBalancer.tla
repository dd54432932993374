-------------------------- MODULE MCProxyBalancer --------------------------
(* Three requests of different lengths on two workers, two peers for each  *)
(* stage.  Requests 1 and 2, of different workers, use the same address.   *)
EXTENDS ProxyBalancer

CONSTANTS r1, r2, r3, w1, w2, a1, a2

By(x, y, z) == [r \in Request |-> IF r = r1 THEN x ELSE IF r = r2 THEN y ELSE z]
Workers   == By(w1, w2, w1)
Lengths   == By(2, 1, 3)
Addresses == By(a1, a1, a2)
TwoPeers  == [s \in Stage |-> 2]

Config(p, d, down, reported) ==
    [prefill |-> p, decode |-> d, down |-> down, reported |-> reported]
Default == {Config("pd_score", "pd_score", {}, {"decode"})}

(* In the last one both filters see the peer data of the other balancer.   *)
AllBalancers ==
    {Config("pd_score", "pd_score", {}, {"decode"}),
     Config("least_total_load", "weighted_least_active", {}, {"decode"}),
     Config("prefill_score", "auto_balance", {<<"decode", 1>>}, {"decode"}),
     Config("pd_score", "weighted_least_active",
            {<<"prefill", 1>>, <<"decode", 1>>}, Stage)}
=============================================================================
