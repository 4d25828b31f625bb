--------------------------- MODULE DestinationAuth ---------------------------
(***************************************************************************)
(* One static TCP session (crates/freja-proxy/src/tcp/session.rs) while    *)
(* the policy is reloaded (crates/freja/src/proxy.rs), and its destination *)
(* authorization: authorize_and_resolve and connect_any                    *)
(* (crates/freja-proxy/src/destination.rs) over the ACL and the            *)
(* destination guard (crates/freja-policy) of one pinned snapshot          *)
(* (crates/freja-proxy/src/runtime/snapshot.rs).                           *)
(*                                                                         *)
(* Facts are the requested host and a resolved address.  A MatchExpression *)
(* is the sequence of its nodes, operands before operators, the root last; *)
(* a detour is named by the host it leads to.  An audit record keeps its   *)
(* event, the generation in its context and the decision it carries.       *)
(***************************************************************************)
EXTENDS Integers, FiniteSets, Sequences, Functions

CONSTANTS
    Hosts,            \* requestable hosts
    Addresses,        \* IP addresses, as numbers
    IpHosts,          \* function: the hosts that are IP literals, to their address
    Policies,         \* rule lists with a default, as AclPolicy::new accepts
    Guards,           \* sets of addresses the destination guard protects
    Candidates,       \* what CompiledConfig::load may find at a hangup: a snapshot, and
                      \* whether the file loads and which process settings it asks for
    MaxGeneration     \* bound: policy generations

NoIp == 0

Actions == {"allow", "deny"} \cup Hosts

Leaves ==
    [op : {"host"}, in : SUBSET Hosts] \cup [op : {"ip"}, in : SUBSET Addresses]
        \cup [op : {"protocol"}, in : {{"tcp"}, {"http"}}]
        \cup {[op |-> "http"]}  \* a method, path or header criterion

\* validate_expression: no empty "all" or "any".
validate_expression(e) ==
    /\ Len(e) > 0
    /\ \A i \in DOMAIN e :
          \/ e[i] \in Leaves
          \/ e[i].op \in {"all", "any"} /\ e[i].of # {} /\ e[i].of \subseteq 1..(i - 1)
          \/ e[i].op = "not" /\ \E j \in 1..(i - 1) : e[i].of = {j}

is_requested_stage_expression(e) == \A i \in DOMAIN e : e[i].op \notin {"ip", "http"}

requires_tcp(e) ==
    LET required[i \in DOMAIN e] ==
            CASE e[i].op = "protocol" -> e[i].in = {"tcp"}
              [] e[i].op = "all" -> \E j \in e[i].of : required[j]
              [] e[i].op = "any" -> \A j \in e[i].of : required[j]
              [] OTHER -> FALSE
    IN  required[Len(e)]

IsList(s) == Len(s) \in Nat /\ DOMAIN s = 1..Len(s)

\* AclPolicy::new accepts these.  A host is told from a verdict.
ASSUME HostsAssumption == Hosts \cap {"allow", "deny"} = {}
ASSUME AddressAssumption == Addresses \subseteq Nat \ {NoIp} /\ IsFiniteSet(Addresses)
ASSUME IpHostsAssumption == DOMAIN IpHosts \subseteq Hosts /\ \A h \in DOMAIN IpHosts : IpHosts[h] \in Addresses
ASSUME GenerationAssumption == MaxGeneration \in Nat \ {0}
ASSUME CandidatesAssumption ==
    \A c \in Candidates :
        /\ c.loads \in BOOLEAN
        /\ c.snapshot.generation \in 1..MaxGeneration
        /\ c.snapshot.policy \in Policies
        /\ c.snapshot.guard \in Guards
        /\ c.snapshot.enforcement \in {"enforce", "observe"}
ASSUME PolicyAssumption ==
    \A p \in Policies :
        /\ p.default \in {"allow", "deny"}
        /\ IsList(p.rules)
        /\ \A i \in DOMAIN p.rules :
              LET rule == p.rules[i]
              IN  /\ IsList(rule.matcher) /\ validate_expression(rule.matcher)
                  /\ rule.action \in Actions
                  /\ rule.action \in Hosts =>
                        is_requested_stage_expression(rule.matcher) /\ requires_tcp(rule.matcher)

VARIABLES
    snapshot,         \* the ArcSwap: the snapshot new decisions use
    pinned,           \* the DecisionSnapshot the flow holds
    pc,               \* where the flow is
    requested,        \* the host the client asked for
    selected,         \* the host after detours
    detoured,
    addresses,        \* what resolve returned
    next,             \* index of the address being authorized or tried
    first_denial,
    decision,         \* the decision record_action is about to publish
    records,          \* audit records published, in order
    outcome,          \* how the flow ended
    shutdown          \* the shutdown signal is set

flowVars == <<pinned, requested, selected, detoured, addresses, next, first_denial, decision>>
vars == <<snapshot, pinned, pc, requested, selected, detoured, addresses, next,
          first_denial, decision, records, outcome, shutdown>>

-----------------------------------------------------------------------------
(* Policy evaluation *)

\* A decision on the host alone (the requested stage) has no address.
Decision(action, generation, ip) ==
    [action |-> action, generation |-> generation, ip |-> ip]

NoDecision == Decision("allow", 0, NoIp)

\* Fault: an address criterion matches while there is no address.
Leaf_AbsentMatches(node, host, ip) ==
    LET value == CASE node.op = "host" -> host [] node.op = "ip" -> ip [] OTHER -> "tcp"
    IN  IF node.op = "http" THEN "unavailable"
        ELSE IF (node.op = "ip" /\ ip = NoIp) \/ value \in node.in THEN "matched"
        ELSE "did_not_match"

\* evaluate_expression of a leaf: an address is not available before resolution,
\* and HTTP facts never are in a TCP session.
Leaf(node, host, ip) ==
    LET value == CASE node.op = "host" -> host [] node.op = "ip" -> ip [] OTHER -> "tcp"
    IN  IF node.op = "http" \/ (node.op = "ip" /\ ip = NoIp) THEN "unavailable"
        ELSE IF value \in node.in THEN "matched"
        ELSE "did_not_match"

evaluate_all(results) ==
    IF "did_not_match" \in results THEN "did_not_match"
    ELSE IF "unavailable" \in results THEN "unavailable"
    ELSE "matched"

evaluate_any(results) ==
    IF "matched" \in results THEN "matched"
    ELSE IF "unavailable" \in results THEN "unavailable"
    ELSE "did_not_match"

evaluate_not(results) ==
    CASE results = {"matched"} -> "did_not_match"
      [] results = {"did_not_match"} -> "matched"
      [] OTHER -> "unavailable"

evaluate_expression(e, host, ip) ==
    LET result[i \in DOMAIN e] ==
            IF e[i].op \notin {"all", "any", "not"} THEN Leaf(e[i], host, ip)
            ELSE LET results == {result[j] : j \in e[i].of}
                 IN  CASE e[i].op = "all" -> evaluate_all(results)
                       [] e[i].op = "any" -> evaluate_any(results)
                       [] OTHER -> evaluate_not(results)
    IN  result[Len(e)]

\* AclPolicy::evaluate_with_definition: the first rule that matches.
Evaluate(policy, host, ip) ==
    LET matching == {i \in DOMAIN policy.rules :
                        evaluate_expression(policy.rules[i].matcher, host, ip) = "matched"}
    IN  IF matching = {} THEN policy.default
        ELSE policy.rules[CHOOSE i \in matching : \A j \in matching : i <= j].action

\* DecisionSnapshot::permits.
Permits(s, d) == s.enforcement = "observe" \/ d.action = "allow"

IsDetour(d) == d.action \in Hosts

Snapshots(generations) ==
    [generation : generations, policy : Policies, guard : Guards,
     enforcement : {"enforce", "observe"}]

-----------------------------------------------------------------------------
Init ==
    /\ snapshot \in Snapshots({1})
    /\ pinned = snapshot
    /\ pc = "start"
    /\ requested \in Hosts
    /\ selected = requested
    /\ detoured = FALSE
    /\ addresses = <<>>
    /\ next = 1
    /\ first_denial = NoDecision
    /\ decision = NoDecision
    /\ records = <<>>
    /\ outcome = "none"
    /\ shutdown = FALSE

\* ReloadFingerprint::incompatibility: listeners, limits, TLS, UI and hook mode,
\* audit and capture settings must be those the process started with.
Incompatible(candidate) == candidate.settings # "baseline"

\* DataPlaneServices::reload: one atomic store.
Reload(candidate) == snapshot' = candidate.snapshot

\* The reload task at a hangup.  A file that does not load, or that needs a
\* restart, changes nothing.  The generation is whatever the file says: it may
\* stay the same or go back.
Hangup ==
    /\ \E candidate \in Candidates :
          /\ candidate.loads
          /\ ~Incompatible(candidate)
          /\ Reload(candidate)
    /\ UNCHANGED <<flowVars, pc, records, outcome, shutdown>>

SignalShutdown ==
    /\ ~shutdown
    /\ shutdown' = TRUE
    /\ UNCHANGED <<snapshot, flowVars, pc, records, outcome>>

\* run_session_inner returns; the closing record is still to come.
Return(how) ==
    /\ pc' = "closing"
    /\ outcome' = how

\* publish(...).await? with a context of the given generation.
Published(event, generation, d) ==
    records' = Append(records, [event |-> event, generation |-> generation, decision |-> d])

\* audit_context: the generation current when the context is made.
ContextGeneration == snapshot.generation

\* Under fail-closed any of the publications may end the flow with
\* ProxyError::Audit.
PublishFails ==
    /\ pc \notin {"start", "pin", "resolve", "connect", "relay", "closing", "done"}
    /\ pc = "resolved_facts" => next <= Len(addresses)
    /\ Return("audit_failure")
    /\ UNCHANGED <<snapshot, flowVars, records, shutdown>>

\* run_static_session's own publications: the connection is on record before
\* anything is decided.
Accepted ==
    /\ pc = "start"
    /\ Published("connection_accepted", ContextGeneration, NoDecision)
    /\ pc' = "pin"
    /\ UNCHANGED <<snapshot, flowVars, outcome, shutdown>>

\* ... and if the first or the last of them fails, the session just ends.
SessionFails ==
    /\ pc \in {"start", "closing"}
    /\ pc' = "done"
    /\ outcome' = "audit_failure"
    /\ UNCHANGED <<snapshot, flowVars, records, shutdown>>

\* authorize_and_resolve pins the snapshot it decides with.
PinSnapshot ==
    /\ pc = "pin"
    /\ pinned' = snapshot
    /\ pc' = "requested_facts"
    /\ UNCHANGED <<snapshot, requested, selected, detoured, addresses, next, first_denial,
                   decision, records, outcome, shutdown>>

-----------------------------------------------------------------------------
(* authorize_requested_target *)

RequestedFacts ==
    /\ pc = "requested_facts"
    /\ Published("replay_facts", ContextGeneration, NoDecision)
    /\ pc' = "requested_decision"
    /\ UNCHANGED <<snapshot, flowVars, outcome, shutdown>>

\* Evaluate, publish_decision, then go on to resolve or to record_action.
RequestedDecision ==
    /\ pc = "requested_decision"
    /\ LET d == Decision(Evaluate(pinned.policy, selected, NoIp), pinned.generation, NoIp)
       IN  /\ Published("acl_evaluated", d.generation, d)
           /\ decision' = d
           /\ pc' = IF Permits(pinned, d) THEN "resolve" ELSE "requested_action"
    /\ UNCHANGED <<snapshot, pinned, requested, selected, detoured, addresses, next,
                   first_denial, outcome, shutdown>>

\* record_action; then deny, give up on a second detour, or take the first.
RequestedAction ==
    /\ pc = "requested_action"
    /\ Published("action_executed", ContextGeneration, decision)
    /\ \/ /\ ~IsDetour(decision)
          /\ Return("policy_denied")
          /\ UNCHANGED <<selected, detoured>>
       \/ /\ IsDetour(decision)
          /\ detoured
          /\ Return("detour_loop")
          /\ UNCHANGED <<selected, detoured>>
       \/ /\ IsDetour(decision)
          /\ ~detoured
          /\ selected' = decision.action
          /\ detoured' = TRUE
          /\ pc' = "requested_facts"
          /\ UNCHANGED outcome
    /\ UNCHANGED <<snapshot, pinned, requested, addresses, next, first_denial, decision, shutdown>>

-----------------------------------------------------------------------------
(* resolve *)

\* What a BTreeSet of addresses iterates over.
Ascending ==
    {s \in UNION {[1..n -> Addresses] : n \in 0..Cardinality(Addresses)} :
        \A i, j \in DOMAIN s : i < j => s[i] < s[j]}

\* An IP literal is its own address; a name goes to DNS.
Resolve ==
    /\ pc = "resolve"
    /\ addresses' \in (IF selected \in DOMAIN IpHosts THEN {<<IpHosts[selected]>>} ELSE Ascending)
    /\ IF addresses' = <<>> THEN Return("no_resolved_addresses")
                            ELSE pc' = "target_resolved" /\ UNCHANGED outcome
    /\ UNCHANGED <<snapshot, pinned, requested, selected, detoured, next, first_denial, decision,
                   records, shutdown>>

\* The lookup fails or times out, or shutdown wins the select.
ResolveFails ==
    /\ pc = "resolve"
    /\ selected \notin DOMAIN IpHosts
    /\ \/ Return("dns_failure")
       \/ Return("dns_timeout")
       \/ shutdown /\ Return("shutdown")
    /\ UNCHANGED <<snapshot, flowVars, records, shutdown>>

TargetResolved ==
    /\ pc = "target_resolved"
    /\ Published("target_resolved", ContextGeneration, NoDecision)
    /\ pc' = "resolved_facts"
    /\ UNCHANGED <<snapshot, flowVars, outcome, shutdown>>

-----------------------------------------------------------------------------
(* authorize_resolved_targets *)

\* Fault: the verdict on the last address counts.
RememberDenial_LastVerdict(d) ==
    first_denial' = IF ~Permits(pinned, d) THEN d ELSE NoDecision

\* Fault: a later denial replaces the first.
RememberDenial_LastDenial(d) ==
    first_denial' = IF ~Permits(pinned, d) THEN d ELSE first_denial

RememberDenial(d) ==
    first_denial' = IF ~Permits(pinned, d) /\ first_denial = NoDecision THEN d ELSE first_denial

ResolvedFacts ==
    /\ pc = "resolved_facts"
    /\ next <= Len(addresses)
    /\ Published("replay_facts", ContextGeneration, NoDecision)
    /\ pc' = IF addresses[next] \in pinned.guard THEN "guard" ELSE "resolved_decision"
    /\ UNCHANGED <<snapshot, flowVars, outcome, shutdown>>

\* The destination guard has a denial for this address.
GuardDecision ==
    /\ pc = "guard"
    /\ LET d == Decision("deny", pinned.generation, addresses[next])
       IN  /\ Published("acl_evaluated", d.generation, d)
           /\ RememberDenial(d)
    /\ pc' = "resolved_decision"
    /\ UNCHANGED <<snapshot, pinned, requested, selected, detoured, addresses, next, decision,
                   outcome, shutdown>>

\* Fault: the address stage reads the current snapshot, not the pinned one.
ResolvedDecision_Unpinned ==
    /\ pc = "resolved_decision"
    /\ LET d == Decision(Evaluate(snapshot.policy, selected, addresses[next]),
                         snapshot.generation, addresses[next])
       IN  /\ Published("acl_evaluated", d.generation, d)
           /\ RememberDenial(d)
    /\ next' = next + 1
    /\ pc' = "resolved_facts"
    /\ UNCHANGED <<snapshot, pinned, requested, selected, detoured, addresses, decision, outcome,
                   shutdown>>

ResolvedDecision ==
    /\ pc = "resolved_decision"
    /\ LET d == Decision(Evaluate(pinned.policy, selected, addresses[next]), pinned.generation,
                         addresses[next])
       IN  /\ Published("acl_evaluated", d.generation, d)
           /\ IF IsDetour(d) /\ ~Permits(pinned, d)
              THEN /\ decision' = d
                   /\ pc' = "resolved_action"
                   /\ UNCHANGED <<first_denial, next>>
              ELSE /\ RememberDenial(d)
                   /\ next' = next + 1
                   /\ pc' = "resolved_facts"
                   /\ UNCHANGED decision
    /\ UNCHANGED <<snapshot, pinned, requested, selected, detoured, addresses, outcome, shutdown>>

\* After the last address: the first denial, if there was one, or Ok.
ResolvedDone ==
    /\ pc = "resolved_facts"
    /\ next > Len(addresses)
    /\ pc' = IF first_denial = NoDecision THEN "connect" ELSE "resolved_action"
    /\ decision' = IF first_denial = NoDecision THEN decision ELSE first_denial
    /\ next' = 1
    /\ UNCHANGED <<snapshot, pinned, requested, selected, detoured, addresses, first_denial,
                   records, outcome, shutdown>>

ResolvedAction ==
    /\ pc = "resolved_action"
    /\ Published("action_executed", ContextGeneration, decision)
    /\ Return(IF IsDetour(decision) THEN "detour_loop" ELSE "policy_denied")
    /\ UNCHANGED <<snapshot, flowVars, shutdown>>

-----------------------------------------------------------------------------
(* connect_any *)

Connected ==
    /\ pc = "connect"
    /\ pc' = "relay"
    /\ UNCHANGED <<snapshot, flowVars, records, outcome, shutdown>>

\* Fault: after the last address the first is tried again.
ConnectFails_Retries ==
    /\ pc = "connect"
    /\ next' = (next % Len(addresses)) + 1
    /\ UNCHANGED <<snapshot, pinned, pc, requested, selected, detoured, addresses, first_denial,
                   decision, records, outcome, shutdown>>

\* A failed or timed-out attempt: the next address, or the last error.
ConnectFails ==
    /\ pc = "connect"
    /\ IF next < Len(addresses)
       THEN next' = next + 1 /\ UNCHANGED <<pc, outcome>>
       ELSE /\ \E how \in {"connect_failure", "connect_timeout"} : Return(how)
            /\ UNCHANGED next
    /\ UNCHANGED <<snapshot, pinned, requested, selected, detoured, addresses, first_denial,
                   decision, records, shutdown>>

ConnectShutdown ==
    /\ pc = "connect"
    /\ shutdown
    /\ Return("shutdown")
    /\ UNCHANGED <<snapshot, flowVars, records, shutdown>>

-----------------------------------------------------------------------------
(* The relay, TcpRelay's subject, and the end of the session *)

RelayEnds ==
    /\ pc = "relay"
    /\ \/ \E how \in {"completed", "idle_timeout", "inspection_blocked", "relay_failure",
                     "hook_failure", "audit_failure"} : Return(how)
       \/ shutdown /\ Return("shutdown")
    /\ UNCHANGED <<snapshot, flowVars, records, shutdown>>

\* error_outcome; the other errors keep their names.
error_outcome(how) == IF how = "no_resolved_addresses" THEN "dns_failure" ELSE how

\* The FlowClosed record.  A publication that failed means that the writer is
\* gone, and then this one fails too.
CloseFlow ==
    /\ pc = "closing"
    /\ outcome # "audit_failure"
    /\ records' = Append(records, [event |-> "flow_closed", generation |-> ContextGeneration,
                                   decision |-> NoDecision, outcome |-> error_outcome(outcome)])
    /\ pc' = "done"
    /\ UNCHANGED <<snapshot, flowVars, outcome, shutdown>>

FlowStep ==
    \/ Accepted \/ SessionFails \/ CloseFlow \/ RelayEnds
    \/ PinSnapshot \/ RequestedFacts \/ RequestedDecision \/ RequestedAction
    \/ Resolve \/ ResolveFails \/ TargetResolved
    \/ ResolvedFacts \/ GuardDecision \/ ResolvedDecision \/ ResolvedDone \/ ResolvedAction
    \/ Connected \/ ConnectFails \/ ConnectShutdown
    \/ PublishFails

Ended == pc = "done" /\ UNCHANGED vars

Next == FlowStep \/ Hangup \/ SignalShutdown \/ Ended

Spec == Init /\ [][Next]_vars

\* DNS and connect attempts end by their timeouts, the relay by its idle deadline,
\* publications return, and the runtime polls the flow.
FairSpec == Spec /\ WF_vars(FlowStep)

-----------------------------------------------------------------------------
(* Properties *)

\* The policy a pinned snapshot applies to a host and all its addresses, said
\* without the order of the code's loops.
Authorized(s, host, found) ==
    s.enforcement = "enforce" =>
        /\ Evaluate(s.policy, host, NoIp) = "allow"
        /\ \A a \in found : a \notin s.guard /\ Evaluate(s.policy, host, a) = "allow"

\* A flow reaches connect_any only if the requested host and EVERY address DNS
\* gave are allowed by one snapshot, whatever was reloaded meanwhile: a later
\* connect attempt to any of them needs no new decision.
ConnectNeedsFullAuthorization ==
    pc \in {"connect", "relay"} =>
        addresses # <<>> /\ Authorized(pinned, selected, Range(addresses))

\* The stage a decision is of, and the recorded ones of a stage that a snapshot
\* does not permit.
Stage(d) == IF d.ip = NoIp THEN "requested" ELSE "resolved"
Denials(p, rs, stage) ==
    {i \in DOMAIN rs : /\ rs[i].event = "acl_evaluated"
                       /\ Stage(rs[i].decision) = stage
                       /\ ~Permits(p, rs[i].decision)}

\* The decision is on record as evaluated: the latest denial of the requested
\* stage, whose rounds have one each, or the first of the resolved stage.
Grounded(p, rs, d) ==
    \E i \in Denials(p, rs, Stage(d)) :
        /\ d = rs[i].decision
        /\ \A j \in Denials(p, rs, Stage(d)) :
              IF Stage(d) = "requested" THEN j <= i ELSE i <= j

\* A detour is taken only when enforcing, at most once, and only to the host
\* that the pinned policy names for the requested one; in observe mode the flow
\* always keeps the client's target and policy never ends it.  Evaluation is
\* three-valued: knowing the address brings in only rules that read it, which
\* are never detours, so authorize_resolved_targets never meets a detour.
DetourIsOfThePolicy ==
    /\ selected # requested => detoured
    /\ detoured => /\ pinned.enforcement = "enforce"
                   /\ selected = Evaluate(pinned.policy, requested, NoIp)
    /\ pinned.enforcement = "observe" => outcome \notin {"policy_denied", "detour_loop"}
    /\ \A i \in DOMAIN records :
          records[i].decision.ip # NoIp /\ IsDetour(records[i].decision) =>
              pinned.enforcement = "observe"

\* A flow that policy ends has said so: before its FlowClosed record comes the
\* ActionExecuted of a decision the log already holds as evaluated, and of the
\* earliest one that its stage did not permit; and a session that ends without an
\* audit failure, however far it got, has closed with the outcome it ended with.
EndedByPolicyIsRecorded ==
    LET closed == records # <<>> /\ records[Len(records)].event = "flow_closed"
        action == records[IF closed THEN Len(records) - 1 ELSE Len(records)]
    IN  /\ pc = "done" /\ outcome # "audit_failure" =>
              /\ closed /\ records[1].event = "connection_accepted"
              /\ outcome \in {"policy_denied", "detour_loop", "shutdown"} =>
                    records[Len(records)].outcome = outcome
        /\ outcome \in {"policy_denied", "detour_loop"} =>
              action.event = "action_executed" /\ Grounded(pinned, records, action.decision)

\* All decisions of one flow are those of one snapshot, the pinned one, and its
\* generation is the one they are recorded with, even when a reload lands between
\* two of them and brings another policy under the same generation.
OneGeneration ==
    \A i \in DOMAIN records :
        LET d == records[i].decision IN
        records[i].event = "acl_evaluated" =>
            /\ records[i].generation = pinned.generation
            /\ d.generation = pinned.generation
            /\ \/ d.action = "deny" /\ d.ip \in pinned.guard
               \/ \E host \in {requested, selected} :
                     d.action = Evaluate(pinned.policy, host, d.ip)

\* Authorization always comes to an end: the detour loop is bounded and every
\* address is tried at most once.
FlowEnds == <>(pc = "done")
=============================================================================
