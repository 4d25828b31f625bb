------------------------- MODULE MCDestinationAuth -------------------------
(* Instances of DestinationAuth for TLC: two names and one IP literal, two   *)
(* addresses, and policies with detours, loops, address rules and nested and *)
(* negated matchers that mix both stages.                                    *)
EXTENDS DestinationAuth

MCHosts == {"web", "lab", "literal"}

MCIpHosts == [h \in {"literal"} |-> 1]

Host(hosts) == <<[op |-> "host", in |-> hosts]>>
Ip(ips) == <<[op |-> "ip", in |-> ips]>>
Tcp == <<[op |-> "protocol", in |-> {"tcp"}]>>
Http == <<[op |-> "http"]>>
Not(e) == Append(e, [op |-> "not", of |-> {Len(e)}])
Join(op, d, e) ==
    LET moved == [i \in DOMAIN e |->
                    IF "of" \in DOMAIN e[i] THEN [e[i] EXCEPT !.of = {j + Len(d) : j \in @}] ELSE e[i]]
    IN  d \o moved \o <<[op |-> op, of |-> {Len(d), Len(d) + Len(e)}]>>

Rule(matcher, action) == [matcher |-> matcher, action |-> action]
Detour(from, to) == Rule(Join("all", Host({from}), Tcp), to)

WebToLab == Detour("web", "lab")
LabToWeb == Detour("lab", "web")
WebToLiteral == Detour("web", "literal")
DenyTwo == Rule(Ip({2}), "deny")
DenyWebAtOne == Rule(Join("all", Host({"web"}), Ip({1})), "deny")
DenyLabOrTwo == Rule(Join("any", Host({"lab"}), Ip({2})), "deny")
AllowNotTwo == Rule(Not(Ip({2})), "allow")
DenyNested == Rule(Join("all", Host({"lab"}), Not(Join("any", Host({"web"}), Ip({1})))), "deny")
AllowNested == Rule(Join("any", Not(Join("all", Tcp, Not(Ip({1})))), Http), "allow")

MCPolicies ==
    {[rules |-> rules, default |-> "allow"] :
        rules \in {<<WebToLab>>, <<WebToLab, LabToWeb>>, <<DenyTwo, WebToLiteral>>,
                   <<DenyWebAtOne, LabToWeb>>, <<WebToLab, DenyLabOrTwo>>,
                   <<DenyNested, AllowNotTwo, WebToLab>>}}
    \cup {[rules |-> <<AllowNested, WebToLab>>, default |-> "deny"]}

MCGuards == {{}, {2}}

DenyTwoOnly == [rules |-> <<DenyTwo, WebToLiteral>>, default |-> "allow"]
Loop == [rules |-> <<WebToLab, LabToWeb>>, default |-> "allow"]

Candidate(loads, settings, generation, policy, guard, enforcement) ==
    [loads |-> loads, settings |-> settings,
     snapshot |-> [generation |-> generation, policy |-> policy, guard |-> guard,
                   enforcement |-> enforcement]]

\* Reloads that keep and that change the generation, one file that does not load
\* and one that would need a restart.
MCCandidates ==
    {Candidate(TRUE, "baseline", 1, DenyTwoOnly, {2}, "enforce"),
     Candidate(TRUE, "baseline", 2, Loop, {2}, "enforce"),
     Candidate(TRUE, "baseline", 2, Loop, {}, "observe"),
     Candidate(FALSE, "baseline", 1, Loop, {}, "enforce"),
     Candidate(TRUE, "other", 1, Loop, {}, "observe")}
=============================================================================
