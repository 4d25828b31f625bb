--------------------------- MODULE TunnelSessions ---------------------------
(***************************************************************************)
(* The sessions that end in an opaque or an intercepted tunnel:            *)
(*   socks5     a SOCKS5 client from its greeting to FlowClosed            *)
(*              (crates/freja-proxy/src/socks/{protocol,session}.rs);      *)
(*   connect    an HTTP CONNECT whose upstream is connected, from          *)
(*              start_connect_tunnel to TunnelClosed                       *)
(*              (http/service/connect.rs);                                 *)
(*   intercept  the same for a host of intercept_hosts, with the TLS       *)
(*              handshakes on both sides (http/service/intercept.rs) and   *)
(*              the leaf certificate cache (tls/{interceptor,cache}.rs).   *)
(* The bytes of a relay are in TcpRelay, the exchanges inside an           *)
(* intercepted tunnel and the steps before CONNECT's upstream connection   *)
(* in HttpExchange, the rounds of authorization in DestinationAuth.        *)
(***************************************************************************)
EXTENDS Integers, FiniteSets, Sequences, Functions

CONSTANTS
    Sessions,        \* session ids
    Hosts,           \* hosts of intercept_hosts that clients name
    Starts,          \* the initial situations: what each session is, and whether
                     \* the audit writer still works
    CacheCapacity,   \* tls.leaf_cache_capacity
    none             \* no leaf, no host, no protocol, no reply

ASSUME CapacityAssumption == CacheCapacity \in Nat
ASSUME StartsAssumption ==
    Starts \subseteq
        [flow : [Sessions -> [kind : {"socks5", "connect", "intercept", "absent"},
                              host : Hosts \cup {none}]],
         audit : {"open", "failed"}]

VARIABLES
    flow,            \* what each session is
    authentication,  \* the SOCKS listener demands credentials
    session,         \* one record per session
    entries,         \* LeafCache.entries: host -> the session that made the leaf
    recency,         \* LeafCache.recency, oldest first
    shutdown,        \* the watch channel
    audit            \* "open" or "failed": what a publish returns

cacheVars == <<entries, recency>>
vars == <<flow, authentication, session, entries, recency, shutdown, audit>>

NewSession ==
    [pc |-> "none",             \* where its task is
     error |-> "none",          \* the ProxyError it ends with, or a termination
     pending |-> "none",        \* the reply send_reply is writing
     reply |-> "none",          \* the reply the client was sent
     granted |-> {},            \* what the client had to pass, and passed
     committed |-> FALSE,       \* the 200 was handed to hyper
     leaf |-> none,             \* whose leaf certificate the acceptor presents
     downstream |-> "unset",    \* ALPN of the client's TLS session
     upstream |-> "unset",      \* ALPN of the upstream's TLS session
     log |-> <<>>,              \* the audit records of this session
     outcome |-> "none"]        \* the outcome in FlowClosed / TunnelClosed

Init ==
    /\ \E start \in Starts : flow = start.flow /\ audit = start.audit
    /\ authentication \in BOOLEAN
    /\ (\A s \in Sessions : flow[s].kind # "socks5") => ~authentication
    /\ session = [s \in Sessions |-> NewSession]
    /\ entries = << >>
    /\ recency = << >>
    /\ shutdown = FALSE

-----------------------------------------------------------------------------
(* Steps shared by the handlers *)

At(s, kind, pc) == flow[s].kind = kind /\ session[s].pc = pc

Goto(s, pc) == session' = [session EXCEPT ![s].pc = pc]

\* `?` in the handler: the session goes on to record how it ended.
Fails(s, error) == session' = [session EXCEPT ![s].pc = "closing", ![s].error = error]

\* services.publish(...).await? under fail_closed: the record is taken, or the
\* handler ends with ProxyError::Audit.
Publish(s, event, pc) ==
    IF audit = "open"
    THEN session' = [session EXCEPT ![s].log = Append(@, event), ![s].pc = pc]
    ELSE Fails(s, "audit")

Untouched == UNCHANGED <<flow, authentication, shutdown, audit>>

\* ShutdownHandle::shutdown: the watch channel turns true once.
Shutdown ==
    /\ ~shutdown
    /\ shutdown' = TRUE
    /\ UNCHANGED <<flow, authentication, session, cacheVars, audit>>

\* The audit writer fails; every later publish returns an error.
AuditFails ==
    /\ audit = "open"
    /\ audit' = "failed"
    /\ UNCHANGED <<flow, authentication, session, cacheVars, shutdown>>

\* How a relay ends by itself: end of stream, the idle timer, a blocking rule, or
\* an I/O or inspection error.
RelayResults == {"completed", "idle", "blocked", "relay_io", "runtime"}

\* The waits that select on the shutdown signal.
Selects ==
    [socks5 |-> {"authorize", "connect", "relay"},
     connect |-> {"upgrade", "relay"},
     intercept |-> {"upgrade", "accept", "serve"},
     absent |-> {}]

ShutdownArm(s) ==
    /\ shutdown
    /\ session[s].pc \in Selects[flow[s].kind]
    /\ CASE flow[s].kind = "socks5" /\ session[s].pc = "authorize" ->
              session' = [session EXCEPT ![s].pc = "reply", ![s].error = "shutdown",
                                         ![s].pending = "ConnectionNotAllowed"]
         [] flow[s].kind = "socks5" /\ session[s].pc = "connect" ->
              session' = [session EXCEPT ![s].pc = "reply", ![s].error = "shutdown",
                                         ![s].pending = "GeneralFailure"]
         [] flow[s].kind = "connect" /\ session[s].pc = "upgrade" ->
              session' = [session EXCEPT ![s].pc = "ended", ![s].error = "shutdown"]
         [] OTHER -> Fails(s, "shutdown")
    /\ Untouched /\ UNCHANGED cacheVars

-----------------------------------------------------------------------------
(* SOCKS5: socks/protocol.rs and socks/session.rs *)

\* serve_session: ConnectionAccepted; its error ends the session unrecorded.
SocksOpens(s) ==
    /\ At(s, "socks5", "none")
    /\ IF audit = "open" THEN Publish(s, "ConnectionAccepted", "greeting")
                         ELSE Goto(s, "ended")
    /\ Untouched /\ UNCHANGED cacheVars

\* negotiate_authentication up to the method selection. The version byte, the
\* offered methods and the selection's write can each end it with a SocksError.
SocksGreeting(s) ==
    /\ At(s, "socks5", "greeting")
    /\ \/ Goto(s, IF authentication THEN "credentials" ELSE "request")
       \/ Fails(s, "socks")
    /\ Untouched /\ UNCHANGED cacheVars

\* Fault: the session goes on once the rejection is recorded.
SocksCredentials_Recorded(s) ==
    /\ At(s, "socks5", "credentials")
    /\ \/ Fails(s, "socks")
       \/ /\ audit = "open"
          /\ session' = [session EXCEPT ![s].log = Append(@, "AuthenticationRejected"),
                                        ![s].pc = "request"]
    /\ Untouched /\ UNCHANGED cacheVars

\* The credential is right; it is wrong or malformed; or a read failed.
authenticate_username_password == {"AuthenticationAccepted", "AuthenticationRejected", "io"}

\* The rest of negotiate_authentication: the result is recorded and then written
\* to the client, and a rejection ends the session.
SocksCredentials(s) ==
    /\ At(s, "socks5", "credentials")
    /\ \E result \in authenticate_username_password, written \in BOOLEAN :
         CASE result = "io" -> Fails(s, "socks")
           [] result # "io" /\ audit = "failed" -> Fails(s, "audit")
           [] result # "io" /\ audit = "open" ->
                LET authenticated == result = "AuthenticationAccepted" IN
                session' = [session EXCEPT
                   ![s].log = Append(@, result),
                   ![s].granted = IF authenticated THEN @ \cup {"authentication"} ELSE @,
                   ![s].pc = IF written /\ authenticated THEN "request" ELSE "closing",
                   ![s].error = CASE ~written -> "socks"
                                  [] written /\ ~authenticated -> "authentication"
                                  [] OTHER -> @]
    /\ Untouched /\ UNCHANGED cacheVars

\* read_request: CONNECT to a well-formed target, or an error; two of the errors
\* are answered first.
SocksRequest(s) ==
    /\ At(s, "socks5", "request")
    /\ \/ Goto(s, "authorize")
       \/ Fails(s, "socks")
       \/ \E code \in {"CommandNotSupported", "AddressTypeNotSupported"} :
            session' = [session EXCEPT ![s].pc = "reply", ![s].error = "socks",
                                       ![s].pending = code]
    /\ Untouched /\ UNCHANGED cacheVars

\* authorize_and_resolve, whose every error is answered ConnectionNotAllowed.
SocksAuthorize(s) ==
    /\ At(s, "socks5", "authorize")
    /\ \/ session' = [session EXCEPT ![s].pc = "connect",
                                     ![s].granted = @ \cup {"authorization"}]
       \/ \E error \in {"policy_denied", "detour_loop", "dns", "dns_timeout"}
                         \cup (IF audit = "failed" THEN {"audit"} ELSE {}) :
            session' = [session EXCEPT ![s].pc = "reply", ![s].error = error,
                                       ![s].pending = "ConnectionNotAllowed"]
    /\ Untouched /\ UNCHANGED cacheVars

reply_for_proxy_error(error) ==
    CASE error = "connect_timeout" -> "TtlExpired"
      [] error = "connect_failed" -> "ConnectionRefused"
      [] error \in {"dns", "dns_timeout"} -> "HostUnreachable"
      [] OTHER -> "GeneralFailure"

\* connect_any over the authorized addresses.
SocksConnect(s) ==
    /\ At(s, "socks5", "connect")
    /\ \/ session' = [session EXCEPT ![s].pc = "reply", ![s].pending = "Succeeded",
                                     ![s].granted = @ \cup {"connection"}]
       \/ \E error \in {"connect_timeout", "connect_failed"} :
            session' = [session EXCEPT ![s].pc = "reply", ![s].error = error,
                                       ![s].pending = reply_for_proxy_error(error)]
    /\ Untouched /\ UNCHANGED cacheVars

\* send_reply: when its write fails or times out, that is the error the session
\* ends with, whatever the reply was about.
SocksReply(s) ==
    /\ At(s, "socks5", "reply")
    /\ \/ session' = [session EXCEPT
             ![s].reply = session[s].pending,
             ![s].pc = IF session[s].pending = "Succeeded" THEN "relay" ELSE "closing"]
       \/ Fails(s, "socks")
    /\ Untouched /\ UNCHANGED cacheVars

SocksRelayEnds(s) ==
    /\ At(s, "socks5", "relay")
    /\ \E error \in RelayResults : Fails(s, error)
    /\ Untouched /\ UNCHANGED cacheVars

\* error_outcome and relay_outcome.
SocksOutcome(error) ==
    CASE error = "policy_denied" -> "PolicyDenied"
      [] error = "detour_loop" -> "DetourLoop"
      [] error = "authentication" -> "AuthenticationFailed"
      [] error = "socks" -> "SocksProtocolError"
      [] error = "connect_timeout" -> "ConnectTimeout"
      [] error = "connect_failed" -> "ConnectFailure"
      [] error = "dns" -> "DnsFailure"
      [] error = "dns_timeout" -> "DnsTimeout"
      [] error = "shutdown" -> "Shutdown"
      [] error = "completed" -> "Completed"
      [] error = "idle" -> "IdleTimeout"
      [] error = "blocked" -> "InspectionBlocked"
      [] OTHER -> "RuntimeFailure"

-----------------------------------------------------------------------------
(* The leaf certificate cache: tls/cache.rs and downstream_acceptor *)

\* LeafCache::get moves the key to the back of recency. (retain, push_back)
Used(host) == Append(SelectSeq(recency, LAMBDA h : h # host), host)

\* LeafCache::insert: nothing at capacity 0; at capacity the oldest key goes.
Evicts == IF Len(recency) = CacheCapacity THEN {Head(recency)} ELSE {}

Insert(host, leaf) ==
    IF CacheCapacity = 0
    THEN UNCHANGED cacheVars
    ELSE LET kept == (DOMAIN entries) \ Evicts IN
         /\ entries' = [h \in kept \cup {host} |-> IF h = host THEN leaf ELSE entries[h]]
         /\ recency' = Append(IF Evicts = {} THEN recency ELSE Tail(recency), host)

\* The acceptor holds this leaf; TlsCertificateGenerated comes next.
Accepts(s, leaf) ==
    session' = [session EXCEPT ![s].leaf = leaf, ![s].pc = "certificate"]

\* The first critical section: a hit, or the lock is released for generation.
LookupLeaf(s) ==
    LET host == flow[s].host IN
    /\ At(s, "intercept", "none")
    /\ IF host \in DOMAIN entries
       THEN /\ recency' = Used(host)
            /\ Accepts(s, entries[host])
       ELSE /\ Goto(s, "generate")
            /\ UNCHANGED recency
    /\ Untouched /\ UNCHANGED entries

\* generate_server_config, without the lock.
GenerateLeaf(s) ==
    /\ At(s, "intercept", "generate")
    /\ \/ Goto(s, "insert")
       \/ Goto(s, "refused")
    /\ Untouched /\ UNCHANGED cacheVars

\* Fault: the cache is not looked up again after the lock was released.
InsertLeaf_Blind(s) ==
    LET host == flow[s].host IN
    /\ At(s, "intercept", "insert")
    /\ Accepts(s, s)
    /\ Insert(host, s)
    /\ Untouched

\* The second critical section: another tunnel's leaf wins over this one.
InsertLeaf(s) ==
    LET host == flow[s].host IN
    /\ At(s, "intercept", "insert")
    /\ IF host \in DOMAIN entries
       THEN /\ recency' = Used(host)
            /\ Accepts(s, entries[host])
            /\ UNCHANGED entries
       ELSE /\ Accepts(s, s)
            /\ Insert(host, s)
    /\ Untouched

\* start_connect_tunnel publishes TlsCertificateGenerated before it spawns the
\* tunnel; an audit error refuses the CONNECT.
RecordLeaf(s) ==
    /\ At(s, "intercept", "certificate")
    /\ IF audit = "open" THEN Publish(s, "TlsCertificateGenerated", "register")
                         ELSE Goto(s, "refused")
    /\ Untouched /\ UNCHANGED cacheVars

-----------------------------------------------------------------------------
(* CONNECT: http/service/connect.rs and http/service/intercept.rs *)

\* run_tunnel is spawned at once for a host that is not intercepted.
SpawnBlind(s) ==
    /\ At(s, "connect", "none")
    /\ Goto(s, "register")
    /\ Untouched /\ UNCHANGED cacheVars

\* register_task aborts the tunnel when the connection's tracker is gone; else
\* handle records the 200 and hands it to hyper. Without the record the response
\* is an error, the connection ends, and the upgrade the task awaits fails.
Register(s) ==
    /\ session[s].pc = "register"
    /\ \/ Goto(s, "refused")
       \/ session' = [session EXCEPT ![s].pc = "upgrade",
                                     ![s].committed = (audit = "open")]
    /\ Untouched /\ UNCHANGED cacheVars

\* on_upgrade resolves; run_tunnel returns its error before it records anything.
UpgradeBlind(s) ==
    /\ At(s, "connect", "upgrade")
    /\ \/ session[s].committed /\ Goto(s, "relay")
       \/ session' = [session EXCEPT ![s].pc = "ended", ![s].error = "upgrade"]
    /\ Untouched /\ UNCHANGED cacheVars

\* Fault: the intercepted tunnel returns the error as run_tunnel does.
UpgradeIntercepted_Returns(s) ==
    /\ At(s, "intercept", "upgrade")
    /\ \/ session[s].committed /\ Goto(s, "accept")
       \/ session' = [session EXCEPT ![s].pc = "ended", ![s].error = "upgrade"]
    /\ Untouched /\ UNCHANGED cacheVars

\* In run_intercepted_tunnel the same error reaches the TunnelClosed record.
UpgradeIntercepted(s) ==
    /\ At(s, "intercept", "upgrade")
    /\ \/ session[s].committed /\ Goto(s, "accept")
       \/ Fails(s, "upgrade")
    /\ Untouched /\ UNCHANGED cacheVars

RelayEnds(s) ==
    /\ At(s, "connect", "relay")
    /\ \E error \in RelayResults : Fails(s, error)
    /\ Untouched /\ UNCHANGED cacheVars

\* The client's handshake: the acceptor offers h2 and http/1.1.
AcceptClient(s) ==
    /\ At(s, "intercept", "accept")
    /\ \/ \E alpn \in {"h2", "http/1.1", "none"} :
            session' = [session EXCEPT ![s].pc = "upstream", ![s].downstream = alpn]
       \/ Fails(s, "downstream_handshake")
    /\ Untouched /\ UNCHANGED cacheVars

\* connect_upstream offers what the client negotiated, http/1.1 for nothing.
Offered(alpn) == IF alpn = "h2" THEN "h2" ELSE "http/1.1"

ConnectUpstream(s) ==
    /\ At(s, "intercept", "upstream")
    /\ \/ \E alpn \in {Offered(session[s].downstream), "none"} :
            session' = [session EXCEPT ![s].pc = "validate", ![s].upstream = alpn]
       \/ Fails(s, "upstream_handshake")
    /\ Untouched /\ UNCHANGED cacheVars

\* Fault: any pair of protocols passes.
Compatible_Any(downstream, upstream) == TRUE

\* validate_intercepted_alpn
Compatible(downstream, upstream) ==
    \/ downstream = "h2" /\ upstream = "h2"
    \/ downstream \in {"http/1.1", "none"} /\ upstream \in {"http/1.1", "none"}

Establish(s) ==
    /\ At(s, "intercept", "validate")
    /\ IF Compatible(session[s].downstream, session[s].upstream)
       THEN Publish(s, "TlsInterceptionEstablished", "serve")
       ELSE Fails(s, "alpn_mismatch")
    /\ Untouched /\ UNCHANGED cacheVars

\* Whichever connection ends first ends the other; an HTTP handshake may fail.
ServeResults == {"completed", "http_connection", "upstream_http"}

ServeHttp1Ends(s) ==
    /\ At(s, "intercept", "serve") /\ session[s].downstream # "h2"
    /\ \E error \in ServeResults : Fails(s, error)
    /\ Untouched /\ UNCHANGED cacheVars

ServeHttp2Ends(s) ==
    /\ At(s, "intercept", "serve") /\ session[s].downstream = "h2"
    /\ \E error \in ServeResults : Fails(s, error)
    /\ Untouched /\ UNCHANGED cacheVars

\* tunnel_outcome and tunnel_error_outcome
TunnelOutcome(error) ==
    CASE error = "completed" -> "Completed"
      [] error = "idle" -> "IdleTimeout"
      [] error = "blocked" -> "InspectionBlocked"
      [] error = "shutdown" -> "Shutdown"
      [] error = "relay_io" -> "RelayFailure"
      [] OTHER -> "TunnelFailure"

intercepted_tunnel_error_outcome(error) ==
    CASE error = "downstream_handshake" -> "TlsClientRejected"
      [] error = "downstream_timeout" -> "TlsClientTimeout"
      [] error = "upstream_handshake" -> "TlsUpstreamRejected"
      [] error = "upstream_timeout" -> "TlsUpstreamTimeout"
      [] error = "alpn_mismatch" -> "TlsAlpnRejected"
      [] OTHER -> TunnelOutcome(error)

-----------------------------------------------------------------------------
(* Timers, and the closing record *)

\* Fault: only the client's TLS handshake has a deadline.
TimedOut_OneSided ==
    [socks5 |-> [greeting |-> "socks", credentials |-> "socks", request |-> "socks"],
     connect |-> << >>, absent |-> << >>,
     intercept |-> [accept |-> "downstream_timeout"]]

\* The waits that a timeout bounds, and the error it ends them with.
TimedOut ==
    [socks5 |-> [greeting |-> "socks", credentials |-> "socks", request |-> "socks"],
     connect |-> << >>, absent |-> << >>,
     intercept |-> [accept |-> "downstream_timeout", upstream |-> "upstream_timeout"]]

TimeoutArm(s) ==
    LET timed == TimedOut[flow[s].kind] IN
    /\ session[s].pc \in DOMAIN timed
    /\ Fails(s, timed[session[s].pc])
    /\ Untouched /\ UNCHANGED cacheVars

\* The closing record is published whatever the session ended with.
Records(s, event, outcome) ==
    IF audit = "open"
    THEN session' = [session EXCEPT ![s].pc = "ended", ![s].log = Append(@, event),
                                    ![s].outcome = outcome]
    ELSE Goto(s, "ended")

\* serve_session, run_tunnel and run_intercepted_tunnel end.
SocksCloses(s) ==
    /\ At(s, "socks5", "closing")
    /\ Records(s, "FlowClosed", SocksOutcome(session[s].error))
    /\ Untouched /\ UNCHANGED cacheVars

TunnelCloses(s) ==
    /\ At(s, "connect", "closing")
    /\ Records(s, "TunnelClosed", TunnelOutcome(session[s].error))
    /\ Untouched /\ UNCHANGED cacheVars

InterceptedCloses(s) ==
    /\ At(s, "intercept", "closing")
    /\ Records(s, "TunnelClosed", intercepted_tunnel_error_outcome(session[s].error))
    /\ Untouched /\ UNCHANGED cacheVars

-----------------------------------------------------------------------------
(* Specification *)

\* What a peer does, when it pleases.
Peer(s) ==
    \/ SocksOpens(s) \/ SocksGreeting(s) \/ SocksCredentials(s) \/ SocksRequest(s)
    \/ SpawnBlind(s) \/ LookupLeaf(s)
    \/ UpgradeBlind(s) \/ UpgradeIntercepted(s) \/ AcceptClient(s) \/ ConnectUpstream(s)
    \/ SocksRelayEnds(s) \/ RelayEnds(s) \/ ServeHttp1Ends(s) \/ ServeHttp2Ends(s)

\* What the proxy does by itself, or within a timeout of its own.
Proxy(s) ==
    \/ SocksAuthorize(s) \/ SocksConnect(s) \/ SocksReply(s)
    \/ GenerateLeaf(s) \/ InsertLeaf(s) \/ RecordLeaf(s) \/ Register(s) \/ Establish(s)
    \/ ShutdownArm(s) \/ TimeoutArm(s)
    \/ SocksCloses(s) \/ TunnelCloses(s) \/ InterceptedCloses(s)

Next ==
    \/ Shutdown
    \/ AuditFails
    \/ \E s \in Sessions : Peer(s) \/ Proxy(s)

Spec == Init /\ [][Next]_vars

\* A runnable task is polled, a timer fires, and the shutdown branch of a select
\* is taken once the signal is up; no peer is assumed to do anything.
FairSpec == Spec /\ \A s \in Sessions : WF_vars(Proxy(s))

-----------------------------------------------------------------------------
(* Properties *)

Coherent ==
    /\ Len(recency) <= CacheCapacity
    /\ Len(recency) = Cardinality(DOMAIN entries)
    /\ Range(recency) = DOMAIN entries
    /\ \A h \in DOMAIN entries : flow[entries[h]].host = h

KeepsLeaves ==
    \A h \in DOMAIN entries :
        \/ h \in DOMAIN entries' /\ entries'[h] = entries[h]
        \/ /\ h \notin DOMAIN entries'
           /\ h = Head(recency)
           /\ Cardinality(DOMAIN entries) = CacheCapacity

\* downstream_acceptor releases the cache's lock while it generates a leaf
\* (tls/interceptor.rs:182), so several tunnels can generate one for the same
\* host. However they interleave, the recency queue lists each cached host once,
\* the cache stays within its capacity, a cached leaf is never exchanged for
\* another, only the least recently used one leaves, and only when the cache is
\* full.
LeafCacheIsCoherent == [][Coherent' /\ KeepsLeaves]_vars

\* Plaintext HTTP is served in an intercepted tunnel only after the 200, after
\* both TLS handshakes with protocols that agree (h2 on both sides or on
\* neither), and after TlsInterceptionEstablished was recorded behind
\* TlsCertificateGenerated (run_intercepted_tunnel, intercept.rs:199).
PlaintextNeedsBothPeers ==
    \A s \in Sessions :
        LET t == session[s] IN
        t.pc = "serve" =>
            /\ t.committed
            /\ flow[t.leaf].host = flow[s].host
            /\ {t.downstream, t.upstream} \in
                   {{"h2"}, {"http/1.1"}, {"none"}, {"http/1.1", "none"}}
            /\ t.log = <<"TlsCertificateGenerated", "TlsInterceptionEstablished">>

\* The reply a SOCKS5 client was sent and the outcome FlowClosed records tell the
\* same story: Succeeded goes out only to a client that passed authentication
\* (when configured), authorization and connection; a flow recorded as relayed
\* was told Succeeded, and one recorded as denied or unreachable was told so
\* (run_socks_session, socks/session.rs:69).
ReplyAgreesWithRecord ==
    \A s \in Sessions :
        LET t == session[s] IN
        /\ t.reply = "Succeeded" =>
              t.granted = {"authorization", "connection"}
                             \cup (IF authentication THEN {"authentication"} ELSE {})
        /\ flow[s].kind = "socks5" /\ t.outcome # "none" =>
              /\ t.outcome \in {"Completed", "IdleTimeout", "InspectionBlocked"} =>
                    t.reply = "Succeeded"
              /\ t.reply = "Succeeded" =>
                    t.outcome \in {"Completed", "IdleTimeout", "InspectionBlocked",
                                   "Shutdown", "RuntimeFailure"}
              /\ t.outcome \in {"PolicyDenied", "DetourLoop", "DnsFailure", "DnsTimeout"} =>
                    t.reply = "ConnectionNotAllowed"
              /\ t.outcome = "ConnectTimeout" => t.reply = "TtlExpired"
              /\ t.outcome = "ConnectFailure" => t.reply = "ConnectionRefused"
              /\ t.outcome = "AuthenticationFailed" =>
                    t.reply = "none" /\ "AuthenticationRejected" \in Range(t.log)

Closings(t) == Cardinality({i \in DOMAIN t.log : t.log[i] \in {"FlowClosed", "TunnelClosed"}})

\* While the audit writer works, an intercepted tunnel that was spawned, and a
\* blind one that reached its relay, leave exactly one TunnelClosed, their last
\* record, and its outcome names the stage that failed: a client-side TLS outcome
\* only without a client session, an upstream-side one only before plaintext,
\* Completed only after it. A refused CONNECT was never answered 200.
TunnelIsRecorded ==
    \A s \in Sessions :
        LET t == session[s] IN
        /\ t.pc = "refused" => ~t.committed /\ Closings(t) = 0
        /\ /\ t.pc = "ended" /\ audit = "open"
           /\ flow[s].kind = "intercept" \/ flow[s].kind = "socks5"
                \/ t.error \notin {"upgrade", "shutdown"}
           => /\ Closings(t) = 1
              /\ t.log[Len(t.log)] \in {"FlowClosed", "TunnelClosed"}
        /\ flow[s].kind = "intercept" =>
              /\ t.outcome \in {"TlsClientRejected", "TlsClientTimeout"} =>
                    t.downstream = "unset"
              /\ t.outcome \in {"TlsUpstreamRejected", "TlsUpstreamTimeout", "TlsAlpnRejected"} =>
                    /\ t.downstream # "unset"
                    /\ "TlsInterceptionEstablished" \notin Range(t.log)
              /\ t.outcome = "Completed" => "TlsInterceptionEstablished" \in Range(t.log)

\* docs/src/content/docs/developer/engine-boundary.md says of a tunnel after its
\* 200: "Failures close and audit the tunnel." Every committed tunnel that ended
\* while the audit writer worked would leave a TunnelClosed record; run_tunnel
\* returns early when the upgrade fails (connect.rs:230) and leaves none.
CommittedTunnelIsRecorded ==
    \A s \in Sessions :
        session[s].committed /\ session[s].pc = "ended" /\ audit = "open"
            => "TunnelClosed" \in Range(session[s].log)

\* Whatever the peers do or leave undone, a started session ends once shutdown is
\* signalled, because each of its waits selects on the signal or has a timeout; and
\* a SOCKS5 handshake or a TLS handshake ends even without it.
NothingWaitsForever ==
    \A s \in Sessions :
        /\ shutdown ~> session[s].pc \in {"none", "refused", "ended"}
        /\ session[s].pc \in {"greeting", "credentials", "request", "reply"}
               ~> session[s].pc \notin {"greeting", "credentials", "request", "reply"}
        /\ session[s].pc \in {"accept", "upstream", "validate"}
               ~> session[s].pc \notin {"accept", "upstream", "validate"}

=============================================================================
