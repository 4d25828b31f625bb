---------------------------- MODULE HttpExchange ----------------------------
(***************************************************************************)
(* One HTTP exchange of crates/freja-proxy/src/http/service: a plain       *)
(* forwarded request, a request inside an intercepted tunnel, a CONNECT up *)
(* to the commitment of its tunnel, or a repeat of a retained request      *)
(* (`via`).  The exchange is observed, validated, authorized, judged by    *)
(* the HTTP policy, connected, changed by hooks and the operator, sent,    *)
(* and its response goes the same way back; the body pumps of the          *)
(* streaming mode run beside it, next to shutdown and a failing writer.    *)
(*                                                                         *)
(* A head is the set of its header names, a body a sequence of units in    *)
(* which "x" is what the inspection program denies.  DestinationAuth,      *)
(* InteractiveBroker, FlowInspector and TunnelSessions model what happens  *)
(* inside authorize_and_resolve, a pause, an inspection and a tunnel.      *)
(***************************************************************************)
EXTENDS Naturals, Sequences, FiniteSets, SequencesExt

CONSTANTS
    Configurations,  \* [via, mode, failure, inspection, hooks, enforcement, credential]
    Requests,        \* what a client or a workspace may send
    Responses,       \* what an upstream may answer
    Resolutions,     \* sequences of addresses a name may resolve to
    Policies,        \* the policies that reloads install: sets of denied addresses
    DeniedStatuses,  \* response statuses that the HTTP policy denies
    Maximum,         \* limits.body_prefix_bytes
    UiBytes,         \* UiCaptureSettings::content_bytes
    Replacements,    \* bodies that hooks and operators put in
    Frames,          \* sizes of the frames that Hyper may hand over
    keep, failed,    \* a hook that changes nothing, and one that fails
    none

VARIABLES
    config,    \* listener, hook runner and inspection settings
    audit,     \* "up" until the audit channel closes
    shutdown,  \* the latched ShutdownSignal
    exchange,  \* where the handler stands and what it decided
    message    \* the request and the response

vars == <<config, audit, shutdown, exchange, message>>

Sides == {"request", "response"}

HopByHop == {"connection", "proxy-authorization", "trailer", "transfer-encoding"}

-----------------------------------------------------------------------------
(* Heads and bodies.                                                         *)

NewMessage(m) ==
    [kind |-> m.kind, target |-> m.target, form |-> m.form, tokens |-> m.tokens,
     headers |-> m.headers, length |-> Len(m.body), host |-> "sender",
     body |-> m.body, left |-> m.body, bytes |-> <<>>, inspected |-> 0,
     ran |-> {}, replaced |-> FALSE, edited |-> FALSE, sent |-> <<>>, end |-> "unsent"]

Nothing ==
    NewMessage([kind |-> none, target |-> none, form |-> "ok", tokens |-> {},
                headers |-> {}, body |-> <<>>])

\* header_size, validate_transfer_encoding and validate_content_length.
WellFormed(m) == m.form # "malformed"

validate(m) ==
    WellFormed(m) /\ ~({"transfer-encoding", "content-length"} \subseteq m.headers)

strip_hop_by_hop(m) == [m EXCEPT !.headers = (@ \ m.tokens) \ HopByHop]

regenerate_host(m) == [m EXCEPT !.headers = @ \cup {"host"}, !.host = "target"]

normalize_replaced_body_headers(m) ==
    [m EXCEPT !.headers = @ \ {"content-encoding", "etag"}]

set_content_length(m, length) ==
    [m EXCEPT !.headers = (@ \ {"transfer-encoding", "trailer"}) \cup {"content-length"},
              !.length = length]

remove_body_length_for_streaming_hooks(m, body_may_change) ==
    IF body_may_change
    THEN [m EXCEPT !.headers = @ \ {"content-length", "transfer-encoding"}]
    ELSE m

response_has_no_content(method, status) == method = "HEAD" \/ status \in {"204", "205", "304"}

normalize_no_content_headers(status, m) ==
    CASE status = "204" ->
           [m EXCEPT !.headers = @ \ {"transfer-encoding", "trailer", "content-length"}]
      [] status = "205" -> set_content_length(m, 0)
      [] OTHER -> [m EXCEPT !.headers = @ \ {"transfer-encoding", "trailer"}]

-----------------------------------------------------------------------------
(* The hook runner.  A plan is `keep`, "encode" (sets a representation       *)
(* header), "protect" (touches a protected one), or a replacement body;      *)
(* `failed` is an error or a timeout of the hook.                              *)

HeadResults == {keep, "encode", "protect", failed}

BodyResults == {keep, failed} \cup Replacements

Chains(results) == [1..config.hooks -> results]

\* Fault: under fail-closed a later hook's success hides an earlier failure.
invoke_LastDecides(results) ==
    IF config.failure = "fail-closed" /\ results # <<>> /\ Last(results) = failed
    THEN failed
    ELSE SelectSeq(results, LAMBDA r : r # failed)

invoke(results) ==
    IF config.failure = "fail-closed" /\ \E i \in DOMAIN results : results[i] = failed
    THEN failed
    ELSE SelectSeq(results, LAMBDA r : r # failed)

LastPlan(plans) == IF plans = <<>> THEN keep ELSE Last(plans)

apply_body_mutation(bytes, plan) == IF plan = keep THEN bytes ELSE plan

TooLarge(plan, maximum) == plan # keep /\ Len(plan) > maximum

apply_head_mutation(m, plans) ==
    IF "encode" \in ToSet(plans) THEN [m EXCEPT !.headers = @ \cup {"content-encoding"}] ELSE m

may_mutate_request_body ==
    config.mode = "interactive" \/ (config.mode = "automatic" /\ config.hooks > 0)

may_mutate_response_body == config.mode # "disabled" /\ config.hooks > 0

BodyMayChange(side) ==
    IF side = "request" THEN may_mutate_request_body ELSE may_mutate_response_body

-----------------------------------------------------------------------------
(* How an exchange ends: with a status or, for a repeat, a failure category. *)

response_for_error(error) ==
    CASE error \in {"policy-denied", "rejected"} -> "403"
      [] error \in {"detour-loop", "hook", "mutation"} -> "500"
      [] error \in {"dns-timeout", "connect-timeout", "timeout", "interactive"} -> "504"
      [] error \in {"dns", "connect", "upstream", "tls"} -> "502"
      [] error \in {"audit", "shutdown", "registration"} -> none

failure_category(error) ==
    CASE error \in {"policy-denied", "detour-loop"} -> "PolicyDenied"
      [] error \in {"dns", "dns-timeout"} -> "Dns"
      [] error \in {"connect", "connect-timeout"} -> "Connect"
      [] error = "tls" -> "Tls"
      [] error \in {"upstream", "timeout"} -> "Upstream"
      [] error \in {"hook", "mutation"} -> "Inspection"
      [] error = "shutdown" -> "Shutdown"

NewExchange ==
    [at |-> "new", outcome |-> none, addresses |-> <<>>, judged |-> <<>>,
     snapshot |-> none, selected |-> none]

Repeat == config.via = "repeat"

Step(next) == exchange' = [exchange EXCEPT !.at = next]

Updates(side, m) == message' = [message EXCEPT ![side] = m]

Pumping(side) == message[side].end \in {"open", "blocked"}

\* An exchange that is refused or dropped forgets all but what its pumps hold.
Leaves(place, outcome) ==
    /\ exchange' = [(IF Pumping("request") THEN exchange ELSE NewExchange)
                    EXCEPT !.at = place, !.outcome = outcome]
    /\ message' = [side \in Sides |-> IF Pumping(side) THEN message[side] ELSE Nothing]

Concludes(outcome) == Leaves("conclude", outcome)

Drops == Leaves("dropped", none)

Refuses(status, category) == Concludes(IF Repeat THEN category ELSE status)

Fails(error) ==
    CASE Repeat /\ error = "audit" -> Drops
      [] Repeat /\ error # "audit" -> Concludes(failure_category(error))
      [] ~Repeat /\ response_for_error(error) = none -> Drops
      [] ~Repeat /\ response_for_error(error) # none -> Concludes(response_for_error(error))

\* A step whose audit records must be accepted before it takes effect.
Published(effect) == IF audit = "up" THEN effect ELSE Fails("audit")

-----------------------------------------------------------------------------
\* A repeat starts when the executor of RepeatWorkspaces takes a command.
Init ==
    /\ config \in Configurations
    /\ audit = "up"
    /\ shutdown = FALSE
    /\ \E r \in Requests :
          /\ (r.kind = "CONNECT") => config.via # "forward"
          /\ (config.via = "connect") => r.kind = "CONNECT"
          /\ exchange = [NewExchange EXCEPT !.at = IF Repeat THEN "idle" ELSE "new"]
          /\ message = [request |-> IF Repeat THEN Nothing ELSE NewMessage(r),
                        response |-> Nothing]

-----------------------------------------------------------------------------
(* The request up to its authorization.                                      *)

At(place) == exchange.at = place

\* The request is on record before anything else happens.
Observed == Published(Step("validate") /\ UNCHANGED message)

authenticate_proxy_request == config.credential # "rejected"

proxy_authentication_required == Concludes("407")

\* handle: a listener's own credentials come before the request is looked at.
Observe ==
    /\ At("new") /\ config.via \in {"forward", "connect"}
    /\ IF authenticate_proxy_request THEN Observed
       ELSE Published(proxy_authentication_required)

\* handle_intercepted
ObserveIntercepted == At("new") /\ config.via = "intercepted" /\ Observed

\* execute
StartRepeat == At("new") /\ Repeat /\ Observed

from_repeat(m) == m.target \in {"http", "https"}

from_absolute(m) == from_repeat(m) /\ m.target = "http"

from_connect(m) == m.target # "bad"

\* strip_hop_by_hop refuses a Connection token that names no header.
TokensAreNames(m) == m.form # "bad-token"

Normalized(m) == regenerate_host(strip_hop_by_hop(m))

\* connect
ValidateConnect ==
    /\ At("validate") /\ config.via = "connect"
    /\ IF validate(message.request) THEN Step("hooks") /\ UNCHANGED message
       ELSE Concludes("400")

\* forward_intercepted: the tunnel's target and address are the request's.
ValidateIntercepted ==
    /\ At("validate") /\ config.via = "intercepted"
    /\ LET m == message.request
       IN CASE m.kind = "CONNECT" -> Concludes("405")
            [] m.kind # "CONNECT" /\ validate(m) /\ TokensAreNames(m) ->
                 \E r \in Resolutions :
                    /\ exchange' = [exchange EXCEPT !.at = "judge", !.selected = Head(r),
                                                    !.addresses = <<Head(r)>>]
                    /\ Updates("request", Normalized(m))
            [] OTHER -> Concludes("400")

\* forward
ValidateForward ==
    /\ At("validate") /\ config.via = "forward"
    /\ LET m == message.request
       IN IF validate(m) /\ from_absolute(m) /\ TokensAreNames(m)
          THEN Step("authorize") /\ Updates("request", Normalized(m))
          ELSE Concludes("400")

Repeatable(m) ==
    m.kind # "CONNECT" /\ Len(m.body) <= Maximum /\ validate(m) /\ from_repeat(m)

\* perform
ValidateRepeat ==
    /\ At("validate") /\ Repeat
    /\ LET m == message.request
       IN IF Repeatable(m) /\ TokensAreNames(m)
          THEN Step("authorize") /\ Updates("request", Normalized(m))
          ELSE Concludes("InvalidRequest")

\* A repeat of an https request needs an interceptor that covers the host.
NoInterceptor ==
    /\ At("validate") /\ Repeat
    /\ Repeatable(message.request) /\ message.request.target = "https"
    /\ Concludes("Tls")

\* from_connect and the CONNECT port list.
ConnectTarget ==
    /\ At("target")
    /\ \/ ~from_connect(message.request) /\ Concludes("400")
       \/ from_connect(message.request) /\ Step("authorize") /\ UNCHANGED message
       \/ /\ from_connect(message.request)   \* a port outside the list
          /\ Published(IF config.enforcement = "enforce"
                       THEN Concludes("403")
                       ELSE Step("authorize") /\ UNCHANGED message)

\* authorize_and_resolve, the subject of DestinationAuth.
authorize_and_resolve ==
    /\ At("authorize")
    /\ \/ Published(\E r \in Resolutions :
                       /\ exchange' = [exchange EXCEPT !.at = "judge", !.addresses = r]
                       /\ UNCHANGED message)
       \/ \E error \in {"policy-denied", "detour-loop", "dns", "dns-timeout"} : Fails(error)
       \/ shutdown /\ Fails("shutdown")

AuthorizeForward == config.via = "forward" /\ authorize_and_resolve
AuthorizeConnect == config.via = "connect" /\ authorize_and_resolve
AuthorizeRepeat == Repeat /\ authorize_and_resolve

-----------------------------------------------------------------------------
(* evaluate_http_policy: every address is judged and put on record, all by   *)
(* the snapshot taken before the first.                                      *)

Permits(snapshot, address) == config.enforcement = "observe" \/ address \notin snapshot

Judges(snapshot) ==
    LET address == exchange.addresses[Len(exchange.judged) + 1]
    IN Published(/\ exchange' = [exchange EXCEPT !.snapshot = snapshot,
                       !.judged = Append(@, [permitted |-> Permits(snapshot, address),
                                             by |-> snapshot])]
                 /\ UNCHANGED message)

\* Fault: each address is judged by the policy current at that moment.
JudgeAddress_Unpinned ==
    /\ At("judge") /\ Len(exchange.judged) < Len(exchange.addresses)
    /\ \E snapshot \in Policies : Judges(snapshot)

\* A reload may have come at any time before the snapshot is taken.
JudgeAddress ==
    /\ At("judge") /\ Len(exchange.judged) < Len(exchange.addresses)
    /\ \E snapshot \in IF exchange.judged = <<>> THEN Policies ELSE {exchange.snapshot} :
          Judges(snapshot)

AllJudged ==
    /\ At("judge") /\ Len(exchange.judged) = Len(exchange.addresses)
    /\ IF \E i \in DOMAIN exchange.judged : ~exchange.judged[i].permitted
       THEN Published(Refuses("403", "PolicyDenied"))
       ELSE /\ Step(IF config.via = "intercepted" THEN "hooks" ELSE "connect")
            /\ UNCHANGED message

\* connect_any: the first address that answers.
connect_any(next) ==
    /\ At("connect")
    /\ \/ \E i \in DOMAIN exchange.addresses :
             /\ exchange' = [exchange EXCEPT !.selected = exchange.addresses[i], !.at = next]
             /\ UNCHANGED message
       \/ \E error \in {"connect", "connect-timeout"} : Fails(error)
       \/ shutdown /\ Fails("shutdown")

\* A CONNECT has run its hooks before; the others' come next.
ConnectForward == config.via = "forward" /\ connect_any("hooks")
ConnectTunnel == config.via = "connect" /\ connect_any("commit")
ConnectRepeat == Repeat /\ connect_any("hooks")

\* start_connect_tunnel and register_task: the tunnel is TunnelSessions'.
Commit ==
    /\ At("commit")
    /\ \/ Published(Concludes("200"))
       \/ \E error \in {"tls", "registration"} : Fails(error)

-----------------------------------------------------------------------------
(* Hooks on a head, and the operator's decision on a CONNECT.                *)

Rehosted(side, m) ==
    IF side = "request" /\ config.via # "connect" THEN regenerate_host(m) ELSE m

\* The runner's outcome is on record, and then its plans are applied.
RunsHeadHooks(side, next) ==
    IF config.mode = "disabled"
    THEN Step(next) /\ Updates(side, Rehosted(side, message[side]))
    ELSE \E results \in Chains(HeadResults) :
           LET plans == invoke(results)
           IN Published(
                CASE plans = failed -> Fails("hook")
                  [] plans # failed /\ "protect" \in ToSet(plans) -> Fails("mutation")
                  [] plans # failed /\ "protect" \notin ToSet(plans) ->
                       /\ Step(next)
                       /\ Updates(side,
                            Rehosted(side, apply_head_mutation(message[side], plans))))

apply_request_head_hooks ==
    /\ At("hooks") /\ ~Repeat
    /\ RunsHeadHooks("request", IF config.via = "connect" THEN "pause" ELSE "body")

apply_response_head_hooks ==
    At("response-hooks") /\ ~Repeat /\ RunsHeadHooks("response", "response-body")

RepeatRequestHeadHooks == At("hooks") /\ Repeat /\ RunsHeadHooks("request", "body")

RepeatResponseHeadHooks ==
    At("response-hooks") /\ Repeat /\ RunsHeadHooks("response", "response-body")

\* pause_connect_request: a CONNECT has no body to replace.
PauseConnect ==
    /\ At("pause")
    /\ IF config.mode # "interactive"
       THEN Step("target") /\ UNCHANGED message
       ELSE Published(\/ Step("target") /\ UNCHANGED message
                      \/ \E error \in {"rejected", "mutation", "interactive"} : Fails(error))

-----------------------------------------------------------------------------
(* Bodies.  Preflight and interactive exchanges collect a body, inspect and  *)
(* change it; the streaming mode starts a pump.                              *)

Streams(side) ==
    config.inspection = "streaming" /\ (side = "request" => config.mode # "interactive")

CollectAt(side) == IF side = "request" THEN "collect" ELSE "response-collect"

InspectAt(side) == IF side = "request" THEN "inspect" ELSE "response-inspect"

TransformAt(side) == IF side = "request" THEN "transform" ELSE "response-transform"

StreamHead(side, m) ==
    LET changes == BodyMayChange(side)
    IN remove_body_length_for_streaming_hooks(
          IF changes THEN normalize_replaced_body_headers(m) ELSE m, changes)

RefusesEncoded(side, m) == BodyMayChange(side) /\ "content-encoding" \in m.headers

\* prepare_request_body
RequestBody ==
    /\ At("body") /\ ~Repeat
    /\ LET m == message.request
       IN CASE ~Streams("request") -> Step("collect") /\ UNCHANGED message
            [] Streams("request") /\ RefusesEncoded("request", m) -> Concludes("422")
            [] Streams("request") /\ ~RefusesEncoded("request", m) ->
                 \/ /\ Step("send")
                    /\ Updates("request", [StreamHead("request", m) EXCEPT !.end = "open"])
                 \/ Fails("registration")

\* A repeat has its body in hand, and inspects it in either mode.
RepeatBody ==
    /\ At("body") /\ Repeat
    /\ Step("inspect")
    /\ Updates("request", [message.request EXCEPT !.bytes = message.request.body, !.left = <<>>])

\* collect_bounded takes one frame, or meets its limit.
CollectFrame(side) ==
    /\ At(CollectAt(side))
    /\ \E n \in Frames :
         /\ n <= Len(message[side].left)
         /\ LET m == message[side] IN
            IF Len(m.bytes) + n > Maximum
            THEN IF side = "request" THEN Concludes("413") ELSE Refuses("502", "Inspection")
            ELSE /\ Updates(side, [m EXCEPT !.bytes = @ \o SubSeq(m.left, 1, n),
                                            !.left = SubSeq(@, n + 1, Len(@))])
                 /\ UNCHANGED exchange

CollectEnd(side) ==
    /\ At(CollectAt(side)) /\ message[side].left = <<>>
    /\ Step(InspectAt(side)) /\ UNCHANGED message

CollectFails(side) ==
    /\ At(CollectAt(side))
    /\ IF side = "request" THEN Concludes("400") ELSE Refuses("502", "Upstream")

CollectTimesOut(side) ==
    /\ At(CollectAt(side))
    /\ IF side = "request" THEN Concludes("408") ELSE Refuses("504", "Upstream")

PermitsBytes(bytes) == config.enforcement = "observe" \/ "x" \notin ToSet(bytes)

Inspect(side) ==
    /\ At(InspectAt(side))
    /\ CASE "x" \notin ToSet(message[side].bytes) ->
              Step(TransformAt(side)) /\ UNCHANGED message
         [] "x" \in ToSet(message[side].bytes) ->
              Published(IF PermitsBytes(message[side].bytes)
                        THEN Step(TransformAt(side)) /\ UNCHANGED message
                        ELSE Refuses("403", "Inspection"))

Replaced(m, plan) ==
    IF plan = keep THEN m
    ELSE normalize_replaced_body_headers([m EXCEPT !.bytes = plan, !.replaced = TRUE])

\* A repeat's response keeps its own length unless a hook replaced the body.
Finished(side, m) ==
    CASE side = "request" ->
           /\ Step("send")
           /\ Updates(side, set_content_length(m, Len(m.bytes)))
      [] side = "response" ->
           /\ exchange' = [exchange EXCEPT !.at = "conclude", !.outcome = m.kind]
           /\ Updates(side, [(IF Repeat /\ ~m.replaced
                              THEN m ELSE set_content_length(m, Len(m.bytes)))
                             EXCEPT !.end = "ready"])

Transform(side) ==
    /\ At(TransformAt(side))
    /\ LET m == message[side] IN
       IF config.mode = "disabled" THEN Finished(side, m)
       ELSE \E results \in Chains(BodyResults) :
              LET plans == invoke(results)
                  plan == IF plans = failed THEN keep ELSE LastPlan(plans)
                  changed == [Replaced(m, plan) EXCEPT !.ran = ToSet(results)]
              IN Published(
                   CASE plans = failed -> Fails("hook")
                     [] plans # failed /\ TooLarge(plan, Maximum) -> Fails("mutation")
                     [] plans # failed /\ ~TooLarge(plan, Maximum) ->
                          IF side = "request" /\ config.mode = "interactive" /\ ~Repeat
                          THEN Step("decide") /\ Updates(side, changed)
                          ELSE Finished(side, changed))

\* Fault: the length is set before the operator's answer, and not again.
Decide_KeepsLength ==
    /\ At("decide")
    /\ \E plan \in {keep} \cup Replacements :
         Published(/\ Step("send")
                   /\ Updates("request",
                        [Replaced(set_content_length(message.request,
                                                     Len(message.request.bytes)), plan)
                         EXCEPT !.edited = TRUE]))

\* prepare_interactive_request: headers first, then the body, then the length.
Decide ==
    /\ At("decide")
    /\ Published(
         \/ Finished("request", message.request)
         \/ \E plans \in {<<>>, <<"encode">>}, plan \in {keep} \cup Replacements :
              IF TooLarge(plan, Maximum) THEN Fails("mutation")
              ELSE Finished("request",
                     [Replaced(apply_head_mutation(message.request, plans), plan)
                      EXCEPT !.edited = TRUE])
         \/ \E error \in {"rejected", "mutation", "interactive"} : Fails(error))

-----------------------------------------------------------------------------
(* The upstream's part.                                                      *)

Sends ==
    /\ Step("await")
    /\ Updates("request", [message.request EXCEPT
         !.sent = IF @ = <<>> /\ message.request.end = "unsent"
                  THEN message.request.bytes ELSE @,
         !.end = IF @ = "unsent" THEN "clean" ELSE @])

\* establish_http_sender registers the connection's task.
Send ==
    /\ At("send") /\ config.via = "forward"
    /\ Sends \/ \E error \in {"upstream", "timeout", "registration"} : Fails(error)

\* A tunnel's sender is there already; other requests of it may hold its lock.
SendIntercepted == At("send") /\ config.via = "intercepted" /\ Sends

\* send_on
RepeatSend ==
    /\ At("send") /\ Repeat
    /\ Sends \/ \E error \in {"upstream", "timeout"} : Fails(error)

\* connect_upstream fails or times out.
RepeatTlsFails == At("send") /\ Repeat /\ message.request.target = "https" /\ Fails("tls")

\* What the response no longer needs of the request is dropped here.
ResponseArrives ==
    /\ At("await")
    /\ \E r \in Responses :
         /\ exchange' = [exchange EXCEPT !.at = "response", !.snapshot = none,
               !.addresses = IF Pumping("request") THEN @ ELSE <<>>,
               !.judged = IF Pumping("request") THEN @ ELSE <<>>]
         /\ message' = [response |-> NewMessage(r),
               request |-> IF Pumping("request") THEN message.request
                           ELSE [Nothing EXCEPT !.kind = message.request.kind]]

UpstreamFails == At("await") /\ Fails("upstream")

\* Fault: the wait for a response has no deadline.
AwaitTimesOut_Never == FALSE

AwaitTimesOut == At("await") /\ Fails("timeout")

AwaitShutdown == At("await") /\ Repeat /\ shutdown /\ Fails("shutdown")

PermitsStatus(status) == config.enforcement = "observe" \/ status \notin DeniedStatuses

\* The decision is on record before it takes effect.
JudgesStatus(refusal) ==
    Published(IF PermitsStatus(message.response.kind)
              THEN Step("response-hooks") /\ UNCHANGED message
              ELSE Concludes(refusal))

evaluate_http_response_policy == JudgesStatus("403")

evaluate_response_policy == JudgesStatus("PolicyDenied")

\* The first part of finish_response, and of process_response.
Response ==
    /\ At("response") /\ ~Repeat
    /\ IF validate(message.response) THEN evaluate_http_response_policy ELSE Concludes("502")

RepeatResponse ==
    /\ At("response") /\ Repeat
    /\ IF validate(message.response) THEN evaluate_response_policy ELSE Concludes("Upstream")

Forwards(m) ==
    /\ exchange' = [exchange EXCEPT !.at = "conclude", !.outcome = m.kind]
    /\ Updates("response", m)

EmptyResponse(m) ==
    Forwards([normalize_no_content_headers(m.kind, m) EXCEPT !.end = "ready"])

\* The rest of finish_response.
ResponseBody ==
    /\ At("response-body") /\ ~Repeat
    /\ LET m == strip_hop_by_hop(message.response)
           empty == response_has_no_content(message.request.kind, m.kind)
       IN CASE ~TokensAreNames(m) -> Concludes("502")
            [] TokensAreNames(m) /\ empty -> EmptyResponse(m)
            [] TokensAreNames(m) /\ ~empty /\ ~Streams("response") ->
                 Step("response-collect") /\ Updates("response", m)
            [] TokensAreNames(m) /\ ~empty /\ Streams("response") ->
                 IF RefusesEncoded("response", m) THEN Concludes("502")
                 ELSE \/ Forwards([StreamHead("response", m) EXCEPT !.end = "open"])
                      \/ Fails("registration")

\* The rest of process_response, up to the body's frames.
RepeatResponseBody ==
    /\ At("response-body") /\ Repeat
    /\ LET m == strip_hop_by_hop(message.response)
           empty == response_has_no_content(message.request.kind, m.kind)
       IN CASE ~TokensAreNames(m) -> Concludes("Upstream")
            [] TokensAreNames(m) /\ empty -> EmptyResponse(m)
            [] TokensAreNames(m) /\ ~empty /\ ~Streams("response") ->
                 Step("response-collect") /\ Updates("response", m)
            [] TokensAreNames(m) /\ ~empty /\ Streams("response") ->
                 IF RefusesEncoded("response", m) THEN Concludes("Inspection")
                 ELSE Step("response-stream") /\ Updates("response", m)

Delivers(bytes) ==
    /\ Step("answered")
    /\ IF message.response.end # "ready" THEN UNCHANGED message
       ELSE Updates("response", [message.response EXCEPT !.end = "clean", !.sent = bytes])

\* The answer is on record before Hyper gets it: audit_response.
Conclude ==
    /\ At("conclude") /\ config.via \in {"forward", "connect"}
    /\ Published(Delivers(message.response.bytes))

ConcludeIntercepted ==
    /\ At("conclude") /\ config.via = "intercepted"
    /\ Published(Delivers(message.response.bytes))

retain_prefix(bytes) == SubSeq(bytes, 1, IF Len(bytes) > UiBytes THEN UiBytes ELSE Len(bytes))

\* execute: the response and the end of the flow are on record, then the
\* workspace gets the result.
RepeatConclude ==
    At("conclude") /\ Repeat /\ Published(Delivers(retain_prefix(message.response.bytes)))

-----------------------------------------------------------------------------
(* Frames of a streamed body.  Only the first Maximum units are inspected;   *)
(* the hooks see every frame, each on its own.                               *)

\* What a frame comes to: a verdict and the units that go on.
FrameResults(m, frame) ==
    LET room == Maximum - m.inspected
        head == SubSeq(frame, 1, IF room < Len(frame) THEN room ELSE Len(frame))
        found == "x" \in ToSet(head)
        Verdict(results) ==
            CASE found /\ (audit = "down" \/ ~PermitsBytes(head)) -> "blocked"
              [] ~(found /\ (audit = "down" \/ ~PermitsBytes(head))) ->
                   IF \/ config.mode # "disabled" /\ audit = "down"
                      \/ invoke(results) = failed
                      \/ invoke(results) # failed /\ TooLarge(LastPlan(invoke(results)), Maximum)
                   THEN "hook" ELSE "passes"
        Plan(results) == IF Verdict(results) = "passes" THEN LastPlan(invoke(results)) ELSE keep
    IN { [verdict |-> Verdict(results),
          after |-> [m EXCEPT !.left = SubSeq(@, Len(frame) + 1, Len(@)),
                              !.inspected = @ + Len(head),
                              !.replaced = @ \/ Plan(results) # keep,
                              !.ran = @ \cup ToSet(results),
                              !.bytes = @ \o apply_body_mutation(frame, Plan(results))]] :
           results \in IF config.mode = "disabled" THEN {<<>>} ELSE Chains(BodyResults) }

\* The pump's own state goes with it; nothing is asked of a body that broke off.
Closes(side, end) ==
    LET m == message[side]
    IN Updates(side,
         IF end = "clean"
         THEN [m EXCEPT !.end = end, !.left = <<>>, !.bytes = <<>>, !.inspected = 0]
         ELSE [Nothing EXCEPT !.kind = m.kind, !.end = end])

\* pump_inspected_body hands each frame on before it reads the next, and
\* waits for room in the channel ("blocked") without a deadline.
PumpFrame(side) ==
    LET m == message[side] IN
    /\ m.end = "open"
    /\ \E n \in Frames :
         /\ n <= Len(m.left)
         /\ \E r \in FrameResults(m, SubSeq(m.left, 1, n)) :
              IF r.verdict = "passes"
              THEN \/ Updates(side, [r.after EXCEPT !.sent = r.after.bytes])
                   \/ Updates(side, [r.after EXCEPT !.end = "blocked"])
              ELSE Closes(side, "error")
    /\ UNCHANGED exchange

ReceiverReads(side) ==
    /\ message[side].end = "blocked"
    /\ Updates(side, [message[side] EXCEPT !.end = "open", !.sent = message[side].bytes])
    /\ UNCHANGED exchange

\* Fault: a pump that meets a broken body ends it like a complete one.
PumpFails_Silent(side) ==
    /\ message[side].end = "open"
    /\ Closes(side, "clean")
    /\ UNCHANGED exchange

\* A read error or a timeout reaches the receiver as an error of the body.
PumpFails(side) ==
    /\ message[side].end = "open"
    /\ Closes(side, "error")
    /\ UNCHANGED exchange

PumpEof(side) ==
    /\ message[side].end = "open" /\ message[side].left = <<>>
    /\ Closes(side, "clean")
    /\ UNCHANGED exchange

\* Shutdown closes the channel without an error, as a receiver that goes away does.
PumpCut(side) ==
    /\ Pumping(side)
    /\ shutdown
    /\ Closes(side, "cut")
    /\ UNCHANGED exchange

ReceiverGone(side) ==
    /\ Pumping(side)
    /\ Closes(side, "cut")
    /\ UNCHANGED exchange

\* streaming_response_body of a repeat: the frames stay with the executor.
RepeatFrame ==
    LET m == message.response IN
    /\ At("response-stream")
    /\ \E n \in Frames :
         /\ n <= Len(m.left)
         /\ \E r \in FrameResults(m, SubSeq(m.left, 1, n)) :
              CASE r.verdict = "passes" -> Updates("response", r.after) /\ UNCHANGED exchange
                [] r.verdict # "passes" ->
                     IF audit = "down" THEN Fails("audit") ELSE Refuses("500", "Inspection")

RepeatEof ==
    /\ At("response-stream") /\ message.response.left = <<>>
    /\ LET m == message.response IN
       Finished("response", IF m.replaced THEN normalize_replaced_body_headers(m) ELSE m)

RepeatReadFails == At("response-stream") /\ Fails("upstream")

-----------------------------------------------------------------------------
(* The environment and the whole exchange.                                   *)

\* Hyper drops the handler when its client goes away.
ClientGone ==
    /\ ~Repeat
    /\ exchange.at \notin {"answered", "dropped"}
    /\ Drops

Shutdown == shutdown' = TRUE /\ UNCHANGED <<config, audit, exchange, message>>

AuditFails == audit' = "down" /\ UNCHANGED <<config, shutdown, exchange, message>>

Peers(side) ==
    \/ CollectFrame(side) \/ CollectEnd(side) \/ CollectFails(side)
    \/ PumpFrame(side) \/ PumpEof(side) \/ ReceiverReads(side) \/ ReceiverGone(side)

Peer ==
    /\ \/ \E side \in Sides : Peers(side)
       \/ ResponseArrives \/ UpstreamFails \/ RepeatFrame \/ RepeatEof \/ ClientGone
    /\ UNCHANGED <<config, audit, shutdown>>

Proxies(side) ==
    \/ CollectTimesOut(side) \/ Inspect(side) \/ Transform(side)
    \/ PumpFails(side) \/ PumpCut(side)

\* Every wait on a peer has a timeout among these steps.
Proxy ==
    /\ \/ \E side \in Sides : Proxies(side)
       \/ Observe \/ ObserveIntercepted \/ StartRepeat
       \/ ValidateConnect \/ ValidateIntercepted \/ ValidateForward \/ ValidateRepeat
       \/ NoInterceptor \/ ConnectTarget \/ AuthorizeForward \/ AuthorizeConnect
       \/ AuthorizeRepeat \/ JudgeAddress \/ AllJudged
       \/ ConnectForward \/ ConnectTunnel \/ ConnectRepeat \/ Commit \/ apply_request_head_hooks \/ apply_response_head_hooks
       \/ RepeatRequestHeadHooks \/ RepeatResponseHeadHooks \/ PauseConnect
       \/ RequestBody \/ RepeatBody \/ Decide \/ Send \/ SendIntercepted
       \/ RepeatSend \/ RepeatTlsFails \/ AwaitTimesOut \/ AwaitShutdown
       \/ Response \/ RepeatResponse \/ ResponseBody \/ RepeatResponseBody
       \/ RepeatReadFails \/ Conclude \/ ConcludeIntercepted \/ RepeatConclude
    /\ UNCHANGED <<config, audit, shutdown>>

Next == Peer \/ Proxy \/ Shutdown \/ AuditFails

Spec == Init /\ [][Next]_vars

FairSpec == Spec /\ WF_vars(Proxy)

-----------------------------------------------------------------------------
(* What an exchange promises.                                                *)

\* A request leaves, and a tunnel is committed, only after every address the
\* name resolved to was permitted by one policy snapshot, and towards one of
\* those addresses; a response that the policy denies is never passed on.
SentOnlyIfAuthorized ==
    /\ message.request.end # "unsent" \/ (At("commit") /\ config.via = "connect") =>
         /\ Len(exchange.judged) = Len(exchange.addresses)
         /\ exchange.selected \in ToSet(exchange.addresses)
         /\ \E snapshot \in Policies : \A i \in DOMAIN exchange.judged :
               /\ exchange.judged[i].by = snapshot
               /\ Permits(snapshot, exchange.addresses[i])
    /\ message.response.end # "unsent" => PermitsStatus(message.response.kind)

Framed(side) ==
    LET m == message[side] IN
    m.end = "clean" /\ ~(Repeat /\ side = "response") =>
      /\ HopByHop \cap m.headers = {}
      /\ m.replaced /\ ~m.edited => "etag" \notin m.headers
      /\ side = "request" => m.host = "target"
      /\ "content-length" \in m.headers =>
           \/ m.length = Len(m.sent)
           \/ side = "response" /\ (message.request.kind = "HEAD" \/ m.kind = "304")

\* A message that ends cleanly is framed as it was sent: the length announced
\* is the length delivered whatever hooks and operators did to the body, no
\* hop-by-hop header survives, no validator of a replaced body is left, and
\* the Host is the authorized target.
FramingMatchesBody == \A side \in Sides : Framed(side)

\* A body with a denied unit among the first Maximum units never ends cleanly
\* under enforcement, and under preflight nothing of it leaves; what does end
\* cleanly and was not replaced is the whole body.
BodyHeldBack ==
    \A side \in Sides :
      LET m == message[side]
          head == SubSeq(m.body, 1, IF Maximum < Len(m.body) THEN Maximum ELSE Len(m.body))
      IN /\ ("x" \in ToSet(head) /\ config.enforcement = "enforce") =>
              /\ m.end # "clean" \/ (side = "response" /\ m.sent = <<>>)
              /\ ~Streams(side) => m.sent = <<>>
         /\ (m.end = "clean" /\ ~m.replaced /\ ~m.edited /\ m.sent # <<>>) =>
              IF Repeat /\ side = "response" THEN IsPrefix(m.sent, m.body) ELSE m.sent = m.body

\* Under fail-closed hooks no body ends cleanly behind a hook that failed;
\* under either policy a body differs from what its sender sent only if some
\* hook that ran put another in.
HooksAreHonored ==
    \A side \in Sides :
      LET m == message[side] IN
      /\ (m.end \in {"ready", "clean"} /\ config.failure = "fail-closed") =>
           failed \notin m.ran
      /\ (m.replaced /\ ~m.edited) => m.ran \cap Replacements # {}

\* Every exchange is answered or dropped: each wait on a peer has a deadline,
\* so no silent peer and no stopped writer holds one for ever.  A pump may wait
\* for a receiver that does not read, but shutdown, which stays, ends it.
EveryExchangeEnds ==
    []<>(/\ exchange.at \in {"idle", "answered", "dropped"}
         /\ shutdown => \A side \in Sides : message[side].end \notin {"open", "blocked"})
=============================================================================
