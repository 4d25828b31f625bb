-------------------------- MODULE MCProxyLifecycle --------------------------
(* Instances of ProxyLifecycle for TLC: an HTTP listener with tasks, another *)
(* member of the JoinSet, and one connection more than the permits.          *)
EXTENDS ProxyLifecycle

CONSTANTS http, other

MCKind == [l \in Listeners |-> IF l = http THEN "http" ELSE "repeat"]
=============================================================================
