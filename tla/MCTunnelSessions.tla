-------------------------- MODULE MCTunnelSessions --------------------------
(***************************************************************************)
(* Pairs of sessions of every kind with a working audit writer, and four   *)
(* intercepted CONNECTs to three hosts over a cache of two leaves. The     *)
(* latter start with a failed writer, so that each is refused after its    *)
(* turn at the cache and only the cache's interleavings are explored.      *)
(***************************************************************************)
EXTENDS TunnelSessions, TLC

CONSTANTS s1, s2, s3, s4, a, b, c

Intercept(h) == [kind |-> "intercept", host |-> h]
Plain(kind) == [kind |-> kind, host |-> none]

Pair(x, y) == s1 :> x @@ s2 :> y @@ s3 :> Plain("absent") @@ s4 :> Plain("absent")

MCStarts ==
    [flow : {Pair(Intercept(a), Plain("socks5")),
             Pair(Plain("connect"), Plain("socks5"))},
     audit : {"open"}]
    \cup
    [flow : {s1 :> Intercept(a) @@ s2 :> Intercept(b) @@ s3 :> Intercept(a)
                @@ s4 :> Intercept(c)},
     audit : {"failed"}]

=============================================================================
