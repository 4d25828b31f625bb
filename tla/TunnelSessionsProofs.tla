------------------------ MODULE TunnelSessionsProofs ------------------------
(***************************************************************************)
(* Proofs about TunnelSessions for every set of sessions and hosts, every  *)
(* capacity of the leaf cache and every initial situation.                 *)
(***************************************************************************)
EXTENDS TunnelSessions, SequenceTheorems, FiniteSetTheorems, TLAPS

Fields == {"pc", "error", "pending", "reply", "granted", "committed", "leaf",
           "downstream", "upstream", "log", "outcome"}

\* Where the task of a session of each kind can be.
Places ==
    [socks5 |-> {"none", "greeting", "credentials", "request", "authorize", "connect",
                 "reply", "relay", "closing", "ended"},
     connect |-> {"none", "register", "refused", "upgrade", "relay", "closing", "ended"},
     intercept |-> {"none", "generate", "insert", "certificate", "refused", "register",
                    "upgrade", "accept", "upstream", "validate", "serve", "closing", "ended"},
     absent |-> {"none"}]

Events == {"ConnectionAccepted", "AuthenticationAccepted", "AuthenticationRejected",
           "TlsCertificateGenerated", "TlsInterceptionEstablished", "FlowClosed",
           "TunnelClosed"}

ClosingEvents == {"FlowClosed", "TunnelClosed"}

NoClosing(log) == \A i \in 1..Len(log) : log[i] \notin ClosingEvents

\* What holds of a session of any kind.
CommonInv(s) ==
    LET t == session[s] IN
    /\ DOMAIN t = Fields
    /\ t.log \in Seq(Events)
    /\ flow[s].kind \in {"socks5", "connect", "intercept", "absent"}
    /\ t.pc \in Places[flow[s].kind]
    /\ t.pc # "ended" => t.outcome = "none" /\ NoClosing(t.log)
    /\ t.pc \in {"none", "generate", "insert", "certificate", "register", "refused"} =>
          ~t.committed
    /\ flow[s].kind # "socks5" => t.reply = "none"
    /\ /\ t.pc = "ended" /\ audit = "open"
       /\ flow[s].kind \in {"intercept", "socks5"} \/ t.error \notin {"upgrade", "shutdown"}
       => Closings(t) = 1 /\ t.log[Len(t.log)] \in ClosingEvents

Authenticated == IF authentication THEN {"authentication"} ELSE {}
AllGranted == {"authorization", "connection"} \cup Authenticated

Denials == {"policy_denied", "detour_loop", "dns", "dns_timeout"}
Relayed == {"completed", "idle", "blocked", "relay_io", "runtime", "shutdown"}
SocksErrors ==
    Relayed \cup Denials \cup
    {"socks", "audit", "authentication", "connect_timeout", "connect_failed"}

\* The reply and the recorded outcome tell the same story.
ToldAs(t) ==
    /\ t.outcome \in {"Completed", "IdleTimeout", "InspectionBlocked"} => t.reply = "Succeeded"
    /\ t.reply = "Succeeded" =>
          t.outcome \in {"Completed", "IdleTimeout", "InspectionBlocked",
                         "Shutdown", "RuntimeFailure"}
    /\ t.outcome \in {"PolicyDenied", "DetourLoop", "DnsFailure", "DnsTimeout"} =>
          t.reply = "ConnectionNotAllowed"
    /\ t.outcome = "ConnectTimeout" => t.reply = "TtlExpired"
    /\ t.outcome = "ConnectFailure" => t.reply = "ConnectionRefused"
    /\ t.outcome = "AuthenticationFailed" =>
          t.reply = "none" /\ "AuthenticationRejected" \in Range(t.log)

\* The error, once known, and the reply, once sent, are of the same stage.
SocksInv(s) ==
    LET t == session[s] IN
    flow[s].kind = "socks5" =>
        /\ t.pc \notin {"relay", "closing", "ended"} => t.reply = "none"
        /\ t.reply = "Succeeded" => t.granted = AllGranted
        /\ t.pc \in {"none", "greeting"} => t.granted = {} /\ t.error = "none"
        /\ t.pc = "credentials" => t.granted = {} /\ authentication
        /\ t.pc \in {"request", "authorize"} => t.granted = Authenticated
        /\ t.pc = "connect" => t.granted = {"authorization"} \cup Authenticated
        /\ t.pc \notin {"reply", "closing", "ended"} => t.error = "none"
        /\ t.pc = "reply" =>
              /\ t.error \in Denials => t.pending = "ConnectionNotAllowed"
              /\ t.error = "connect_timeout" => t.pending = "TtlExpired"
              /\ t.error = "connect_failed" => t.pending = "ConnectionRefused"
              /\ t.error \in Denials \cup {"none", "connect_timeout", "connect_failed",
                                           "socks", "shutdown", "audit"}
              /\ t.pending = "Succeeded" <=> t.error = "none"
              /\ t.pending = "Succeeded" => t.granted = AllGranted
        /\ t.pc = "relay" => t.reply = "Succeeded"
        /\ t.pc = "closing" =>
              /\ t.error \in SocksErrors
              /\ t.error \in {"completed", "idle", "blocked"} => t.reply = "Succeeded"
              /\ t.reply = "Succeeded" => t.error \in Relayed
              /\ t.error \in Denials => t.reply = "ConnectionNotAllowed"
              /\ t.error = "connect_timeout" => t.reply = "TtlExpired"
              /\ t.error = "connect_failed" => t.reply = "ConnectionRefused"
              /\ t.error = "authentication" =>
                    t.reply = "none" /\ "AuthenticationRejected" \in Range(t.log)
        /\ t.outcome # "none" => ToldAs(t)

\* A session that goes on, and records no closing, keeps what holds of all.
LEMMA CommonGoesOn ==
    ASSUME NEW s, UNCHANGED flow, CommonInv(s), session[s].pc # "ended",
           DOMAIN session'[s] = Fields, session'[s].log \in Seq(Events), NoClosing(session'[s].log),
           session'[s].outcome = session[s].outcome,
           session'[s].pc # "ended", session'[s].pc \in Places[flow[s].kind],
           session'[s].pc \in {"none", "generate", "insert", "certificate", "register",
                               "refused"} =>
              ~session'[s].committed,
           flow[s].kind # "socks5" => session'[s].reply = session[s].reply
    PROVE  CommonInv(s)'
<1>1. /\ session'[s].outcome = "none"
      /\ flow[s].kind # "socks5" => session'[s].reply = "none"
  BY DEF CommonInv
<1>2. flow[s].kind \in {"socks5", "connect", "intercept", "absent"}
  BY DEF CommonInv
<1> QED
  BY <1>1, <1>2 DEF CommonInv

\* So does one that ends with its one closing record.
LEMMA CommonEnds ==
    ASSUME NEW s, UNCHANGED flow, CommonInv(s),
           DOMAIN session'[s] = Fields, session'[s].log \in Seq(Events), session'[s].pc = "ended",
           Closings(session'[s]) = 1, session'[s].log[Len(session'[s].log)] \in ClosingEvents,
           session'[s].reply = session[s].reply, "ended" \in Places[flow[s].kind]
    PROVE  CommonInv(s)'
BY DEF CommonInv

\* So does one that ends where no closing record is owed.
LEMMA CommonStops ==
    ASSUME NEW s, UNCHANGED <<flow, audit>>, CommonInv(s),
           DOMAIN session'[s] = Fields, session'[s].log \in Seq(Events), session'[s].pc = "ended",
           \/ audit = "failed"
           \/ flow[s].kind = "connect" /\ session'[s].error \in {"upgrade", "shutdown"},
           session'[s].reply = session[s].reply, "ended" \in Places[flow[s].kind]
    PROVE  CommonInv(s)'
BY DEF CommonInv

\* Logs: appending.
LEMMA LogAppend ==
    ASSUME NEW S, NEW log \in Seq(S), NEW e \in S
    PROVE  /\ Append(log, e) \in Seq(S)
           /\ NoClosing(log) /\ e \notin ClosingEvents => NoClosing(Append(log, e))
           /\ Range(log) \subseteq Range(Append(log, e)) /\ e \in Range(Append(log, e))
           /\ Append(log, e)[Len(Append(log, e))] = e
<1> DEFINE m == Append(log, e)
<1>1. /\ m \in Seq(S) /\ Len(log) \in Nat /\ Len(m) = Len(log) + 1
      /\ \A i \in 1..Len(log) : m[i] = log[i]
      /\ m[Len(log) + 1] = e
  BY AppendProperties, LenProperties
<1>2. DOMAIN log = 1..Len(log) /\ DOMAIN m = 1..(Len(log) + 1)
  BY <1>1, LenProperties
<1> HIDE DEF m
<1>3. Range(log) \subseteq Range(m) /\ e \in Range(m)
  BY <1>1, <1>2 DEF Range
<1>4. m[Len(m)] = e
  BY <1>1, Zenon
<1>5. NoClosing(log) /\ e \notin ClosingEvents => NoClosing(m)
  BY <1>1 DEF NoClosing
<1> QED
  BY <1>1, <1>3, <1>4, <1>5 DEF m

\* A first closing record is the only one, and the last record.
LEMMA ClosingsCount ==
    ASSUME NEW t, t.log \in Seq(Events), NoClosing(t.log)
    PROVE  /\ Closings(t) = 0
           /\ \A u, e : e \in ClosingEvents /\ u.log = Append(t.log, e) =>
                 Closings(u) = 1 /\ u.log[Len(u.log)] \in ClosingEvents
<1>1. DOMAIN t.log = 1..Len(t.log) /\ Len(t.log) \in Nat
  BY LenProperties
<1>2. {i \in DOMAIN t.log : t.log[i] \in {"FlowClosed", "TunnelClosed"}} = {}
  BY <1>1 DEF NoClosing, ClosingEvents
<1>3. Closings(t) = 0
  BY <1>2, FS_EmptySet DEF Closings
<1>4. ASSUME NEW u, NEW e, e \in ClosingEvents, u.log = Append(t.log, e)
      PROVE  Closings(u) = 1 /\ u.log[Len(u.log)] \in ClosingEvents
  <2>1. e \in Events
    BY <1>4 DEF ClosingEvents, Events
  <2>2. /\ u.log \in Seq(Events) /\ Len(u.log) = Len(t.log) + 1
        /\ \A i \in 1..Len(t.log) : u.log[i] = t.log[i]
        /\ u.log[Len(t.log) + 1] = e
    BY <1>4, <2>1, AppendProperties
  <2>3. DOMAIN u.log = 1..(Len(t.log) + 1)
    BY <2>2, LenProperties
  <2>4. {i \in DOMAIN u.log : u.log[i] \in {"FlowClosed", "TunnelClosed"}} = {Len(t.log) + 1}
    BY <1>1, <1>4, <2>2, <2>3 DEF NoClosing, ClosingEvents
  <2>5. Closings(u) = 1
    BY <2>4, FS_Singleton DEF Closings
  <2> QED
    BY <1>4, <2>1, <2>5, LogAppend
<1> QED
  BY <1>3, <1>4

\* A session keeps every field but its place and its error.
KeepsRest(t, u) ==
    /\ DOMAIN u = Fields
    /\ u.reply = t.reply /\ u.granted = t.granted /\ u.committed = t.committed
    /\ u.leaf = t.leaf /\ u.downstream = t.downstream /\ u.upstream = t.upstream
    /\ u.log = t.log /\ u.outcome = t.outcome

\* What Goto and Fails do to the session, and to no other.
LEMMA Moves ==
    ASSUME NEW s \in Sessions, DOMAIN session = Sessions, DOMAIN session[s] = Fields, NEW e
    PROVE  /\ Goto(s, e) => /\ session'[s].pc = e
                            /\ session'[s].error = session[s].error
                            /\ KeepsRest(session[s], session'[s])
           /\ Fails(s, e) => /\ session'[s].pc = "closing"
                             /\ session'[s].error = e
                             /\ KeepsRest(session[s], session'[s])
BY DEF Goto, Fails, KeepsRest, Fields

SocksAction(s) ==
    \/ SocksOpens(s) \/ SocksGreeting(s) \/ SocksCredentials(s) \/ SocksRequest(s)
    \/ SocksAuthorize(s) \/ SocksConnect(s) \/ SocksReply(s) \/ SocksRelayEnds(s)
    \/ SocksCloses(s)

\* What error_outcome and relay_outcome tell of the error they are given.
LEMMA SocksOutcomes ==
    ASSUME NEW e \in SocksErrors
    PROVE  /\ SocksOutcome(e) \in {"Completed", "IdleTimeout", "InspectionBlocked"} =>
                 e \in {"completed", "idle", "blocked"}
           /\ e \in Relayed =>
                 SocksOutcome(e) \in {"Completed", "IdleTimeout", "InspectionBlocked",
                                      "Shutdown", "RuntimeFailure"}
           /\ SocksOutcome(e) \in {"PolicyDenied", "DetourLoop", "DnsFailure", "DnsTimeout"} =>
                 e \in Denials
           /\ SocksOutcome(e) = "ConnectTimeout" => e = "connect_timeout"
           /\ SocksOutcome(e) = "ConnectFailure" => e = "connect_failed"
           /\ SocksOutcome(e) = "AuthenticationFailed" => e = "authentication"
BY DEF SocksOutcome, SocksErrors, Relayed, Denials

\* Each step of a SOCKS5 session keeps its invariant.
LEMMA SocksSteps ==
    ASSUME NEW s \in Sessions, DOMAIN session = Sessions, audit \in {"open", "failed"},
           CommonInv(s), SocksInv(s), flow[s].kind = "socks5", SocksAction(s)
    PROVE  CommonInv(s)' /\ SocksInv(s)'
<1> DEFINE t == session[s]
           u == session'[s]
<1>1. /\ DOMAIN t = Fields /\ t.log \in Seq(Events)
      /\ t.pc # "ended" => t.outcome = "none" /\ NoClosing(t.log)
  BY DEF CommonInv
<1>2. /\ UNCHANGED <<flow, authentication, audit>>
      /\ AllGranted' = AllGranted /\ Authenticated' = Authenticated
  <2>1. UNCHANGED <<flow, authentication, audit>>
    BY DEF SocksAction, SocksOpens, SocksGreeting, SocksCredentials, SocksRequest, SocksAuthorize,
         SocksConnect, SocksReply, SocksRelayEnds, SocksCloses, Untouched
  <2> QED
    BY <2>1 DEF AllGranted, Authenticated
<1>3. \A e \in Events :
         /\ Append(t.log, e) \in Seq(Events)
         /\ NoClosing(t.log) /\ e \notin ClosingEvents => NoClosing(Append(t.log, e))
         /\ e \in Range(Append(t.log, e))
  BY <1>1, LogAppend
<1>4. CASE SocksOpens(s)
  <2>1. CASE audit = "open"
    <3>1. u.log = Append(t.log, "ConnectionAccepted")
      BY <1>1, <1>4, <2>1 DEF SocksOpens, Publish, Fields
    <3>2. /\ u.reply = t.reply /\ u.granted = t.granted /\ u.error = t.error
          /\ u.outcome = t.outcome /\ t.pc = "none" /\ DOMAIN u = Fields /\ u.pc = "greeting"
      BY <1>1, <1>4, <2>1 DEF SocksOpens, Publish, At, Fields
    <3>3. u.log \in Seq(Events) /\ NoClosing(u.log)
      BY <1>1, <1>3, <3>1, <3>2 DEF Events, ClosingEvents
    <3>4. CommonInv(s)'
      BY <1>2, <3>2, <3>3, CommonGoesOn DEF Places
    <3>5. SocksInv(s)'
      BY <1>1, <1>2, <3>2 DEF SocksInv
    <3> QED
      BY <3>4, <3>5
  <2>2. CASE audit = "failed"
    <3>1. /\ DOMAIN u = Fields /\ u.log = t.log /\ u.pc = "ended" /\ u.reply = t.reply
          /\ u.granted = t.granted /\ t.pc = "none" /\ u.outcome = t.outcome
      BY <1>1, <1>4, <2>2 DEF SocksOpens, Goto, At, Fields
    <3>2. CommonInv(s)'
      BY <1>1, <1>2, <2>2, <3>1, CommonStops DEF Places
    <3>3. SocksInv(s)'
      BY <1>1, <1>2, <3>1 DEF SocksInv
    <3> QED
      BY <3>2, <3>3
  <2> QED
    BY <2>1, <2>2
<1>5. CASE SocksGreeting(s)
  <2>1. /\ t.pc = "greeting" /\ KeepsRest(t, u)
        /\ \/ u.pc = (IF authentication THEN "credentials" ELSE "request") /\ u.error = t.error
           \/ u.pc = "closing" /\ u.error = "socks"
    BY <1>1, <1>5, Moves DEF SocksGreeting, At
  <2> QED
    <3>1. CommonInv(s)'
      BY <1>1, <1>2, <2>1, CommonGoesOn DEF KeepsRest, Places
    <3>2. SocksInv(s)'
      BY <1>1, <1>2, <2>1 DEF KeepsRest, SocksInv, Authenticated, Denials, Relayed, SocksErrors
    <3> QED
      BY <3>1, <3>2
<1>6. CASE SocksRequest(s)
  <2>1. /\ t.pc = "request" /\ KeepsRest(t, u)
        /\ \/ u.pc = "authorize" /\ u.error = t.error
           \/ u.pc = "closing" /\ u.error = "socks"
           \/ u.pc = "reply" /\ u.error = "socks" /\ u.pending # "Succeeded"
    BY <1>1, <1>6, Moves DEF SocksRequest, At, KeepsRest, Fields
  <2> QED
    <3>1. CommonInv(s)'
      BY <1>1, <1>2, <2>1, CommonGoesOn DEF KeepsRest, Places
    <3>2. SocksInv(s)'
      BY <1>1, <1>2, <2>1 DEF KeepsRest, SocksInv, Denials, Relayed, SocksErrors
    <3> QED
      BY <3>1, <3>2
<1>7. CASE SocksAuthorize(s)
  <2>1. CASE session' = [session EXCEPT ![s].pc = "connect", ![s].granted = @ \cup {"authorization"}]
    <3>1. /\ t.pc = "authorize" /\ DOMAIN u = Fields /\ u.pc = "connect"
          /\ u.granted = t.granted \cup {"authorization"}
          /\ u.error = t.error /\ u.reply = t.reply /\ u.log = t.log /\ u.outcome = t.outcome
      BY <1>1, <1>7, <2>1 DEF SocksAuthorize, At, Fields
    <3>2. CommonInv(s)'
      BY <1>1, <1>2, <3>1, CommonGoesOn DEF Places
    <3>3. SocksInv(s)'
      BY <1>1, <1>2, <3>1 DEF SocksInv
    <3> QED
      BY <3>2, <3>3
  <2>2. ASSUME NEW e \in Denials \cup {"audit"},
               session' = [session EXCEPT ![s].pc = "reply", ![s].error = e,
                                          ![s].pending = "ConnectionNotAllowed"]
        PROVE  CommonInv(s)' /\ SocksInv(s)'
    <3>1. /\ t.pc = "authorize" /\ DOMAIN u = Fields /\ u.pc = "reply"
          /\ u.error = e /\ u.pending = "ConnectionNotAllowed"
          /\ u.granted = t.granted /\ u.reply = t.reply /\ u.log = t.log
          /\ u.outcome = t.outcome
      BY <1>1, <1>7, <2>2 DEF SocksAuthorize, At, Fields
    <3>2. CommonInv(s)'
      BY <1>1, <1>2, <3>1, CommonGoesOn DEF Places
    <3>3. SocksInv(s)'
      BY <1>1, <1>2, <2>2, <3>1 DEF SocksInv, Denials
    <3> QED
      BY <3>2, <3>3
  <2> QED
    BY <1>7, <2>1, <2>2 DEF SocksAuthorize, Denials
<1>8. CASE SocksConnect(s)
  <2>1. CASE session' = [session EXCEPT ![s].pc = "reply", ![s].pending = "Succeeded",
                                        ![s].granted = @ \cup {"connection"}]
    <3>1. /\ t.pc = "connect" /\ DOMAIN u = Fields /\ u.pc = "reply"
          /\ u.granted = t.granted \cup {"connection"} /\ u.pending = "Succeeded"
          /\ u.error = t.error /\ u.reply = t.reply /\ u.log = t.log /\ u.outcome = t.outcome
      BY <1>1, <1>8, <2>1 DEF SocksConnect, At, Fields
    <3>2. u.granted = AllGranted /\ u.error = "none" /\ u.reply = "none"
      BY <3>1 DEF SocksInv, AllGranted
    <3>3. CommonInv(s)'
      BY <1>1, <1>2, <3>1, CommonGoesOn DEF Places
    <3>4. SocksInv(s)'
      BY <1>1, <1>2, <3>1, <3>2 DEF SocksInv, Denials
    <3> QED
      BY <3>3, <3>4
  <2>2. ASSUME NEW e \in {"connect_timeout", "connect_failed"},
               session' = [session EXCEPT ![s].pc = "reply", ![s].error = e,
                                          ![s].pending = reply_for_proxy_error(e)]
        PROVE  CommonInv(s)' /\ SocksInv(s)'
    <3>1. /\ t.pc = "connect" /\ DOMAIN u = Fields /\ u.pc = "reply"
          /\ u.error = e /\ u.pending = reply_for_proxy_error(e)
          /\ u.granted = t.granted /\ u.reply = t.reply /\ u.log = t.log
          /\ u.outcome = t.outcome
      BY <1>1, <1>8, <2>2 DEF SocksConnect, At, Fields
    <3>2. u.pending = (IF e = "connect_timeout" THEN "TtlExpired" ELSE "ConnectionRefused")
      BY <2>2, <3>1 DEF reply_for_proxy_error
    <3>3. CommonInv(s)'
      BY <1>1, <1>2, <3>1, CommonGoesOn DEF Places
    <3>4. SocksInv(s)'
      BY <1>1, <1>2, <2>2, <3>1, <3>2 DEF SocksInv, Denials
    <3> QED
      BY <3>3, <3>4
  <2> QED
    BY <1>8, <2>1, <2>2 DEF SocksConnect
<1>9. CASE SocksReply(s)
  <2>1. CASE session' = [session EXCEPT
                ![s].reply = session[s].pending,
                ![s].pc = IF session[s].pending = "Succeeded" THEN "relay" ELSE "closing"]
    <3>1. /\ t.pc = "reply" /\ DOMAIN u = Fields /\ u.reply = t.pending
          /\ u.pc = (IF t.pending = "Succeeded" THEN "relay" ELSE "closing")
          /\ u.error = t.error /\ u.granted = t.granted /\ u.log = t.log
          /\ u.outcome = t.outcome
      BY <1>1, <1>9, <2>1 DEF SocksReply, At, Fields
    <3>2. CommonInv(s)'
      BY <1>1, <1>2, <3>1, CommonGoesOn DEF Places
    <3>3. SocksInv(s)'
      BY <1>1, <1>2, <3>1 DEF SocksInv, Denials, Relayed, SocksErrors
    <3> QED
      BY <3>2, <3>3
  <2>2. CASE Fails(s, "socks")
    <3>1. t.pc = "reply" /\ KeepsRest(t, u) /\ u.pc = "closing" /\ u.error = "socks"
      BY <1>1, <1>9, <2>2, Moves DEF SocksReply, At
    <3>2. CommonInv(s)'
      BY <1>1, <1>2, <3>1, CommonGoesOn DEF KeepsRest, Places
    <3>3. SocksInv(s)'
      BY <1>1, <1>2, <3>1 DEF KeepsRest, SocksInv, Denials, Relayed, SocksErrors
    <3> QED
      BY <3>2, <3>3
  <2> QED
    BY <1>9, <2>1, <2>2 DEF SocksReply
<1>10. CASE SocksRelayEnds(s)
  <2>1. PICK e \in RelayResults : Fails(s, e)
    BY <1>10 DEF SocksRelayEnds
  <2>2. t.pc = "relay" /\ KeepsRest(t, u) /\ u.pc = "closing" /\ u.error = e
    BY <1>1, <1>10, <2>1, Moves DEF SocksRelayEnds, At
  <2>3. CommonInv(s)'
    BY <1>1, <1>2, <2>2, CommonGoesOn DEF KeepsRest, Places
  <2>4. SocksInv(s)'
    BY <1>1, <1>2, <2>1, <2>2 DEF KeepsRest, SocksInv, RelayResults, Denials, Relayed, SocksErrors
  <2> QED
    BY <2>3, <2>4
<1>11. CASE SocksCredentials(s)
  <2>1. t.pc = "credentials"
    BY <1>11 DEF SocksCredentials, At
  <2>2. ASSUME NEW e \in {"socks", "audit"}, Fails(s, e)
        PROVE  CommonInv(s)' /\ SocksInv(s)'
    <3>1. KeepsRest(t, u) /\ u.pc = "closing" /\ u.error = e
      BY <1>1, <2>2, Moves
    <3>2. CommonInv(s)'
      BY <1>1, <1>2, <2>1, <3>1, CommonGoesOn DEF KeepsRest, Places
    <3>3. SocksInv(s)'
      BY <1>1, <1>2, <2>1, <2>2, <3>1 DEF KeepsRest, SocksInv, Denials, Relayed, SocksErrors
    <3> QED
      BY <3>2, <3>3
  <2>3. ASSUME NEW result \in {"AuthenticationAccepted", "AuthenticationRejected"},
               NEW written \in BOOLEAN,
               LET authenticated == result = "AuthenticationAccepted" IN
               session' = [session EXCEPT
                   ![s].log = Append(@, result),
                   ![s].granted = IF authenticated THEN @ \cup {"authentication"} ELSE @,
                   ![s].pc = IF written /\ authenticated THEN "request" ELSE "closing",
                   ![s].error = CASE ~written -> "socks"
                                  [] written /\ ~authenticated -> "authentication"
                                  [] OTHER -> @]
        PROVE  CommonInv(s)' /\ SocksInv(s)'
    <3>0. u.log = Append(t.log, result)
      BY <1>1, <2>3 DEF Fields
    <3>1. /\ DOMAIN u = Fields /\ u.reply = t.reply
          /\ u.outcome = t.outcome
      BY <1>1, <2>3 DEF Fields
    <3>2. result \in Events \ ClosingEvents
      BY <2>3 DEF Events, ClosingEvents
    <3>3. u.log \in Seq(Events) /\ NoClosing(u.log) /\ result \in Range(u.log)
      BY <1>1, <1>3, <2>1, <3>0, <3>2
    <3>4. /\ u.pc = "request" => u.granted = t.granted \cup {"authentication"} /\ u.error = t.error
          /\ u.pc \in {"request", "closing"}
          /\ u.pc = "closing" => u.error \in {"socks", "authentication"}
          /\ u.error = "authentication" => result = "AuthenticationRejected"
      BY <1>1, <2>1, <2>3 DEF SocksInv, Fields
    <3>5. t.granted = {} /\ authentication /\ t.reply = "none" /\ t.error = "none"
      BY <2>1 DEF SocksInv
    <3>6. CommonInv(s)'
      <4>1. u.pc \in Places["socks5"] /\ u.pc \in {"request", "closing"}
        BY <3>4 DEF Places
      <4> QED
        BY <1>2, <2>1, <3>1, <3>3, <4>1, CommonGoesOn
    <3>7. CASE u.pc = "request"
      <4>1. u.granted = Authenticated /\ u.error = "none" /\ u.reply = "none"
        BY <3>1, <3>4, <3>5, <3>7 DEF Authenticated
      <4> QED
        BY <1>1, <1>2, <2>1, <3>1, <3>6, <3>7, <4>1 DEF SocksInv
    <3>8. CASE u.pc = "closing"
      <4>1. u.error = "authentication" => "AuthenticationRejected" \in Range(u.log)
        BY <3>3, <3>4
      <4>2. u.reply = "none" /\ u.outcome = "none" /\ u.error \in {"socks", "authentication"}
        BY <1>1, <2>1, <3>1, <3>4, <3>5, <3>8
      <4> QED
        BY <1>2, <3>6, <3>8, <4>1, <4>2 DEF SocksInv, Denials, Relayed, SocksErrors
    <3> QED
      BY <3>4, <3>7, <3>8
  <2>4. PICK result \in authenticate_username_password, written \in BOOLEAN :
           CASE result = "io" -> Fails(s, "socks")
             [] result # "io" /\ audit = "failed" -> Fails(s, "audit")
             [] result # "io" /\ audit = "open" ->
                LET authenticated == result = "AuthenticationAccepted" IN
                session' = [session EXCEPT
                   ![s].log = Append(@, result),
                   ![s].granted = IF authenticated THEN @ \cup {"authentication"} ELSE @,
                   ![s].pc = IF written /\ authenticated THEN "request" ELSE "closing",
                   ![s].error = CASE ~written -> "socks"
                                  [] written /\ ~authenticated -> "authentication"
                                  [] OTHER -> @]
    BY <1>11, Zenon DEF SocksCredentials
  <2>5. CASE result = "io"
      BY <2>2, <2>4, <2>5
  <2>6. CASE result # "io" /\ audit = "failed"
      BY <2>2, <2>4, <2>6
  <2>7. CASE result # "io" /\ audit = "open"
    <3>1. result \in {"AuthenticationAccepted", "AuthenticationRejected"}
      BY <2>4, <2>7, Zenon DEF authenticate_username_password
    <3>2. LET authenticated == result = "AuthenticationAccepted" IN
          session' = [session EXCEPT
             ![s].log = Append(@, result),
             ![s].granted = IF authenticated THEN @ \cup {"authentication"} ELSE @,
             ![s].pc = IF written /\ authenticated THEN "request" ELSE "closing",
             ![s].error = CASE ~written -> "socks"
                            [] written /\ ~authenticated -> "authentication"
                            [] OTHER -> @]
      BY <2>4, <2>7, Zenon
    <3> QED
      BY <2>3, <3>1, <3>2, Zenon
  <2> QED
    BY <2>5, <2>6, <2>7
<1>12. CASE SocksCloses(s)
  <2>1. CASE audit = "open"
    <3>1. /\ t.pc = "closing" /\ DOMAIN u = Fields /\ u.pc = "ended"
          /\ u.log = Append(t.log, "FlowClosed") /\ u.outcome = SocksOutcome(t.error)
          /\ u.reply = t.reply /\ u.granted = t.granted /\ u.error = t.error
      BY <1>1, <1>12, <2>1 DEF SocksCloses, Records, At, Fields
    <3>2. u.log \in Seq(Events) /\ Closings(u) = 1 /\ u.log[Len(u.log)] \in ClosingEvents
      <4>1. "FlowClosed" \in Events /\ "FlowClosed" \in ClosingEvents
        BY DEF Events, ClosingEvents
      <4>2. t.log \in Seq(Events) /\ NoClosing(t.log)
        BY <1>1, <3>1
      <4>3. \A v, e : e \in ClosingEvents /\ v.log = Append(t.log, e) =>
               Closings(v) = 1 /\ v.log[Len(v.log)] \in ClosingEvents
        <5> HIDE DEF t
        <5> QED
          BY <4>2, ClosingsCount
      <4> HIDE DEF t, u
      <4> QED
        BY <1>3, <3>1, <4>1, <4>3
    <3>3. ToldAs(u)
      <4>1. Range(t.log) \subseteq Range(u.log)
        BY <1>1, <3>1, LogAppend DEF Events
      <4>2. /\ t.error \in SocksErrors
            /\ t.error \in {"completed", "idle", "blocked"} => t.reply = "Succeeded"
            /\ t.reply = "Succeeded" => t.error \in Relayed
            /\ t.error \in Denials => t.reply = "ConnectionNotAllowed"
            /\ t.error = "connect_timeout" => t.reply = "TtlExpired"
            /\ t.error = "connect_failed" => t.reply = "ConnectionRefused"
            /\ t.error = "authentication" =>
                  t.reply = "none" /\ "AuthenticationRejected" \in Range(t.log)
        BY <3>1 DEF SocksInv, SocksErrors
      <4> QED
        BY <3>1, <4>1, <4>2, SocksOutcomes DEF ToldAs
    <3>4. CommonInv(s)'
      <4>1. DOMAIN u = Fields /\ u.pc = "ended" /\ u.reply = t.reply /\ "ended" \in Places["socks5"]
        BY <3>1 DEF Places
      <4> QED
        BY <1>2, <3>2, <4>1, CommonEnds
    <3> QED
      BY <1>2, <3>1, <3>3, <3>4 DEF SocksInv
  <2>2. CASE audit = "failed"
    <3>1. /\ t.pc = "closing" /\ u.pc = "ended" /\ KeepsRest(t, u)
      BY <1>1, <1>12, <2>2, Moves DEF SocksCloses, Records, At
    <3>2. CommonInv(s)'
      BY <1>1, <1>2, <2>2, <3>1, CommonStops DEF KeepsRest, Places
    <3>3. SocksInv(s)'
      BY <1>1, <1>2, <3>1 DEF KeepsRest, SocksInv
    <3> QED
      BY <3>2, <3>3
  <2> QED
    BY <2>1, <2>2
<1> QED
  BY <1>4, <1>5, <1>6, <1>7, <1>8, <1>9, <1>10, <1>11, <1>12 DEF SocksAction

\* The timers and the shutdown signal end a SOCKS5 session's waits.
LEMMA SocksEnds ==
    ASSUME NEW s \in Sessions, DOMAIN session = Sessions, audit \in {"open", "failed"},
           CommonInv(s), SocksInv(s), flow[s].kind = "socks5",
           ShutdownArm(s) \/ TimeoutArm(s)
    PROVE  CommonInv(s)' /\ SocksInv(s)'
<1> DEFINE t == session[s]
           u == session'[s]
<1>1. /\ DOMAIN t = Fields /\ t.log \in Seq(Events)
      /\ t.pc # "ended" => t.outcome = "none" /\ NoClosing(t.log)
  BY DEF CommonInv
<1>2. /\ UNCHANGED <<flow, authentication, audit>>
      /\ AllGranted' = AllGranted /\ Authenticated' = Authenticated
  BY DEF ShutdownArm, TimeoutArm, Untouched, AllGranted, Authenticated
<1>3. \/ /\ t.pc \in {"greeting", "credentials", "request"}
         /\ Fails(s, "socks")
      \/ t.pc = "relay" /\ Fails(s, "shutdown")
      \/ /\ t.pc \in {"authorize", "connect"}
         /\ DOMAIN u = Fields /\ u.pc = "reply" /\ u.error = "shutdown"
         /\ u.pending \in {"ConnectionNotAllowed", "GeneralFailure"}
         /\ u.reply = t.reply /\ u.granted = t.granted /\ u.log = t.log
         /\ u.outcome = t.outcome
  <2>1. CASE TimeoutArm(s)
    BY <2>1 DEF TimeoutArm, TimedOut
  <2>2. CASE ShutdownArm(s)
    <3>1. t.pc \in {"authorize", "connect", "relay"}
      BY <2>2 DEF ShutdownArm, Selects
    <3>2. CASE t.pc = "relay"
      BY <2>2, <3>2 DEF ShutdownArm
    <3>3. CASE t.pc \in {"authorize", "connect"}
      <4>1. \E code \in {"ConnectionNotAllowed", "GeneralFailure"} :
               session' = [session EXCEPT ![s].pc = "reply", ![s].error = "shutdown",
                                          ![s].pending = code]
        BY <2>2, <3>3 DEF ShutdownArm
      <4> QED
        BY <1>1, <3>3, <4>1 DEF Fields
    <3> QED
      BY <3>1, <3>2, <3>3
  <2> QED
    BY <2>1, <2>2
<1>4. ASSUME NEW e \in {"socks", "shutdown"}, Fails(s, e),
             e = "socks" => t.pc \in {"greeting", "credentials", "request"},
             e = "shutdown" => t.pc = "relay"
      PROVE  CommonInv(s)' /\ SocksInv(s)'
  <2>1. KeepsRest(t, u) /\ u.pc = "closing" /\ u.error = e
    BY <1>1, <1>4, Moves
  <2>2. CommonInv(s)'
    BY <1>1, <1>2, <1>4, <2>1, CommonGoesOn DEF KeepsRest, Places
  <2>3. SocksInv(s)'
    BY <1>1, <1>2, <1>4, <2>1 DEF KeepsRest, SocksInv, Denials, Relayed, SocksErrors
  <2> QED
    BY <2>2, <2>3
<1>5. CASE /\ t.pc \in {"authorize", "connect"}
           /\ DOMAIN u = Fields /\ u.pc = "reply" /\ u.error = "shutdown"
           /\ u.pending \in {"ConnectionNotAllowed", "GeneralFailure"}
           /\ u.reply = t.reply /\ u.granted = t.granted /\ u.log = t.log
           /\ u.outcome = t.outcome
  <2>1. CommonInv(s)'
    BY <1>1, <1>2, <1>5, CommonGoesOn DEF Places
  <2>2. SocksInv(s)'
    BY <1>1, <1>2, <1>5 DEF SocksInv, Denials
  <2> QED
    BY <2>1, <2>2
<1> QED
  BY <1>3, <1>4, <1>5

-----------------------------------------------------------------------------
(* CONNECT without interception *)

BlindAction(s) ==
    \/ SpawnBlind(s) \/ Register(s) \/ UpgradeBlind(s) \/ RelayEnds(s) \/ TunnelCloses(s)
    \/ ShutdownArm(s) \/ TimeoutArm(s)

\* Records adds one closing record, the only one.
LEMMA RecordsCloses ==
    ASSUME NEW s \in Sessions, DOMAIN session = Sessions, DOMAIN session[s] = Fields,
           session[s].log \in Seq(Events), NoClosing(session[s].log),
           NEW event \in ClosingEvents, NEW outcome, audit = "open", Records(s, event, outcome)
    PROVE  LET t == session[s] u == session'[s] IN
           /\ DOMAIN u = Fields /\ u.pc = "ended" /\ u.error = t.error /\ u.outcome = outcome
           /\ u.log = Append(t.log, event) /\ u.log \in Seq(Events)
           /\ Closings(u) = 1 /\ u.log[Len(u.log)] \in ClosingEvents
           /\ u.reply = t.reply /\ u.committed = t.committed /\ u.downstream = t.downstream
<1> DEFINE t == session[s]
           u == session'[s]
<1>1. /\ DOMAIN u = Fields /\ u.pc = "ended" /\ u.error = t.error /\ u.outcome = outcome
      /\ u.log = Append(t.log, event)
      /\ u.reply = t.reply /\ u.committed = t.committed /\ u.downstream = t.downstream
  BY DEF Records, Fields
<1>2. event \in Events /\ t.log \in Seq(Events) /\ NoClosing(t.log)
  BY DEF ClosingEvents, Events
<1> HIDE DEF t, u
<1>3. u.log \in Seq(Events)
  BY <1>1, <1>2, LogAppend
<1>4. Closings(u) = 1 /\ u.log[Len(u.log)] \in ClosingEvents
  BY <1>1, <1>2, ClosingsCount
<1> QED
  BY <1>1, <1>3, <1>4 DEF t, u

\* Each step of a tunnel that is not intercepted keeps its invariant.
LEMMA BlindSteps ==
    ASSUME NEW s \in Sessions, DOMAIN session = Sessions, audit \in {"open", "failed"},
           CommonInv(s), flow[s].kind = "connect", BlindAction(s)
    PROVE  CommonInv(s)'
<1> DEFINE t == session[s]
           u == session'[s]
<1>1. /\ DOMAIN t = Fields /\ t.log \in Seq(Events)
      /\ t.pc # "ended" => t.outcome = "none" /\ NoClosing(t.log)
  BY DEF CommonInv
<1>2. UNCHANGED <<flow, audit>>
  BY DEF BlindAction, SpawnBlind, Register, UpgradeBlind, RelayEnds, TunnelCloses, ShutdownArm,
         TimeoutArm, Untouched
<1>3. CASE /\ DOMAIN u = Fields /\ u.log = t.log /\ u.outcome = t.outcome
           /\ u.reply = t.reply /\ t.pc # "ended"
           /\ \/ u.pc \in {"register", "refused"} /\ ~u.committed
              \/ u.pc \in {"upgrade", "relay", "closing"}
              \/ u.pc = "ended" /\ u.error \in {"upgrade", "shutdown"}
              \/ u.pc = "ended" /\ audit = "failed"
  <2>1. u.log \in Seq(Events) /\ t.outcome = "none" /\ NoClosing(u.log)
    BY <1>1, <1>3
  <2>2. CASE u.pc # "ended"
    BY <1>2, <1>3, <2>1, <2>2, CommonGoesOn DEF Places
  <2>3. CASE u.pc = "ended"
    BY <1>2, <1>3, <2>1, <2>3, CommonStops DEF Places
  <2> QED
    BY <2>2, <2>3
<1>4. CASE TunnelCloses(s) /\ audit = "open"
  <2>1. t.pc = "closing" /\ Records(s, "TunnelClosed", TunnelOutcome(t.error))
    BY <1>4 DEF TunnelCloses, At
  <2>2. /\ DOMAIN u = Fields /\ u.pc = "ended" /\ u.log \in Seq(Events)
        /\ Closings(u) = 1 /\ u.log[Len(u.log)] \in ClosingEvents /\ u.reply = t.reply
    BY <1>1, <1>4, <2>1, RecordsCloses DEF ClosingEvents
  <2> QED
    BY <1>2, <2>2, CommonEnds DEF Places
<1>5. CASE TunnelCloses(s) /\ audit = "failed"
  <2>1. KeepsRest(t, u) /\ t.pc = "closing" /\ u.pc = "ended"
    BY <1>1, <1>5, Moves DEF TunnelCloses, Records, At
  <2> QED
    BY <1>3, <1>5, <2>1 DEF KeepsRest
<1>6. CASE SpawnBlind(s)
  <2>1. KeepsRest(t, u) /\ t.pc = "none" /\ u.pc = "register"
    BY <1>1, <1>6, Moves DEF SpawnBlind, At
  <2>2. ~t.committed
    BY <2>1 DEF CommonInv
  <2> QED
    BY <1>3, <2>1, <2>2 DEF KeepsRest
<1>7. CASE Register(s)
  <2>1. t.pc = "register" /\ ~t.committed
    BY <1>7 DEF Register, CommonInv
  <2>2. CASE Goto(s, "refused")
    BY <1>1, <1>3, <2>1, <2>2, Moves DEF KeepsRest
  <2>3. CASE session' = [session EXCEPT ![s].pc = "upgrade", ![s].committed = (audit = "open")]
    <3>1. /\ DOMAIN u = Fields /\ u.log = t.log /\ u.outcome = t.outcome /\ u.reply = t.reply
          /\ u.pc = "upgrade"
      BY <1>1, <2>3 DEF Fields
    <3> QED
      BY <1>3, <2>1, <3>1
  <2> QED
    BY <1>7, <2>2, <2>3 DEF Register
<1>8. ASSUME NEW e, Fails(s, e), t.pc # "ended"
      PROVE  CommonInv(s)'
  BY <1>1, <1>3, <1>8, Moves DEF KeepsRest
<1>9. ASSUME NEW e \in {"upgrade", "shutdown"}, t.pc # "ended",
             session' = [session EXCEPT ![s].pc = "ended", ![s].error = e]
      PROVE  CommonInv(s)'
  <2>1. /\ DOMAIN u = Fields /\ u.log = t.log /\ u.outcome = t.outcome /\ u.reply = t.reply
        /\ u.pc = "ended" /\ u.error = e
    BY <1>1, <1>9 DEF Fields
  <2> QED
    BY <1>3, <1>9, <2>1
<1>10. CASE UpgradeBlind(s)
  <2>1. t.pc = "upgrade"
    BY <1>10 DEF UpgradeBlind, At
  <2>2. CASE Goto(s, "relay")
    BY <1>1, <1>3, <2>1, <2>2, Moves DEF KeepsRest
  <2> QED
    BY <1>9, <1>10, <2>1, <2>2 DEF UpgradeBlind
<1>11. CASE RelayEnds(s)
  BY <1>8, <1>11 DEF RelayEnds, At
<1>12. CASE ShutdownArm(s)
  <2>1. t.pc \in {"upgrade", "relay"}
    BY <1>12 DEF ShutdownArm, Selects
  <2>2. CASE t.pc = "upgrade"
    BY <1>9, <1>12, <2>2 DEF ShutdownArm
  <2>3. CASE t.pc = "relay"
    BY <1>8, <1>12, <2>3 DEF ShutdownArm
  <2> QED
    BY <2>1, <2>2, <2>3
<1>13. ~TimeoutArm(s)
  BY DEF TimeoutArm, TimedOut
<1> QED
  BY <1>4, <1>5, <1>6, <1>7, <1>10, <1>11, <1>12, <1>13 DEF BlindAction

-----------------------------------------------------------------------------
(* Intercepted tunnels *)

Generated == <<"TlsCertificateGenerated">>
Established == <<"TlsCertificateGenerated", "TlsInterceptionEstablished">>

DownstreamErrors == {"downstream_handshake", "downstream_timeout"}
UpstreamErrors == {"upstream_handshake", "upstream_timeout", "alpn_mismatch"}
InterceptErrors ==
    DownstreamErrors \cup UpstreamErrors \cup
    {"audit", "upgrade", "shutdown", "completed", "http_connection", "upstream_http"}

\* The recorded outcome names the stage that failed.
NamesTheStage(t) ==
    /\ t.outcome \in {"TlsClientRejected", "TlsClientTimeout"} => t.downstream = "unset"
    /\ t.outcome \in {"TlsUpstreamRejected", "TlsUpstreamTimeout", "TlsAlpnRejected"} =>
          /\ t.downstream # "unset"
          /\ "TlsInterceptionEstablished" \notin Range(t.log)
    /\ t.outcome = "Completed" => "TlsInterceptionEstablished" \in Range(t.log)

\* What each stage of run_intercepted_tunnel has behind it.
InterceptInv(s) ==
    LET t == session[s] IN
    flow[s].kind = "intercept" =>
        /\ t.pc \in {"none", "generate", "insert", "certificate"} => t.log = << >>
        /\ t.pc \in {"register", "upgrade", "accept", "upstream", "validate"} =>
              t.log = Generated
        /\ t.pc \in {"none", "generate", "insert", "certificate", "register", "upgrade",
                     "accept"} => t.downstream = "unset"
        /\ t.pc \in {"upstream", "validate", "serve"} =>
              t.downstream \in {"h2", "http/1.1", "none"}
        /\ t.pc \in {"certificate", "register", "upgrade", "accept", "upstream", "validate",
                     "serve"} => t.leaf \in Sessions /\ flow[t.leaf].host = flow[s].host
        /\ t.pc \in {"accept", "upstream", "validate", "serve"} => t.committed
        /\ t.pc = "serve" => t.log = Established /\ Compatible(t.downstream, t.upstream)
        /\ t.pc = "closing" =>
              /\ t.error \in InterceptErrors
              /\ t.log \in {Generated, Established}
              /\ t.error \in DownstreamErrors => t.downstream = "unset"
              /\ t.error \in UpstreamErrors => t.downstream # "unset" /\ t.log = Generated
              /\ t.error = "completed" => t.log = Established
        /\ t.outcome # "none" => NamesTheStage(t)

\* A cached leaf is of the host it is cached for.
CacheInv ==
    \A h \in DOMAIN entries : entries[h] \in Sessions /\ flow[entries[h]].host = h

\* The steps of a tunnel that change only its place and its error.
InterceptMoves(t, u) ==
    \/ t.pc = "none" /\ u.pc = "generate"
    \/ t.pc = "generate" /\ u.pc = "insert"
    \/ t.pc \in {"generate", "certificate", "register"} /\ u.pc = "refused"
    \/ t.pc = "upgrade" /\ t.committed /\ u.pc = "accept"
    \/ /\ u.pc = "closing"
       /\ \/ t.pc = "upgrade" /\ u.error \in {"upgrade", "shutdown"}
          \/ t.pc = "accept" /\ u.error \in DownstreamErrors \cup {"shutdown"}
          \/ t.pc = "upstream" /\ u.error \in UpstreamErrors
          \/ t.pc = "validate" /\ u.error \in {"alpn_mismatch", "audit"}
          \/ t.pc = "serve" /\ u.error \in {"completed", "http_connection", "upstream_http",
                                            "shutdown"}
    \/ t.pc = "closing" /\ u.pc = "ended" /\ audit = "failed"

\* They keep the invariant.
LEMMA InterceptMoved ==
    ASSUME NEW s \in Sessions, CommonInv(s), InterceptInv(s), flow[s].kind = "intercept",
           UNCHANGED <<flow, audit>>, KeepsRest(session[s], session'[s]),
           InterceptMoves(session[s], session'[s])
    PROVE  CommonInv(s)' /\ InterceptInv(s)'
<1> DEFINE t == session[s]
           u == session'[s]
<1>1. /\ t.outcome = "none" /\ NoClosing(t.log) /\ t.log \in Seq(Events)
      /\ t.pc \in Places["intercept"] /\ t.pc # "ended"
      /\ t.pc \in {"none", "generate", "insert", "certificate", "register", "refused"} =>
            ~t.committed
  BY DEF CommonInv, InterceptMoves
<1>2. CommonInv(s)'
  <2>1. CASE u.pc = "ended"
    <3>1. audit = "failed"
      BY <2>1 DEF InterceptMoves
    <3> QED
      BY <1>1, <2>1, <3>1, CommonStops DEF KeepsRest, Places
  <2>2. CASE u.pc # "ended"
    <3>1. u.pc \in Places["intercept"]
      BY <2>2 DEF InterceptMoves, Places
    <3>2. u.pc \in {"none", "generate", "insert", "certificate", "register", "refused"} =>
             ~u.committed
      BY <1>1 DEF InterceptMoves, KeepsRest
    <3> QED
      BY <1>1, <2>2, <3>1, <3>2, CommonGoesOn DEF KeepsRest
  <2> QED
    BY <2>1, <2>2
<1>3. InterceptInv(s)'
  BY <1>1 DEF InterceptInv, KeepsRest, InterceptMoves, InterceptErrors, DownstreamErrors,
              UpstreamErrors
<1> QED
  BY <1>2, <1>3

\* downstream_acceptor: the leaf is of the host the client named.
LEMMA LeafSteps ==
    ASSUME NEW s \in Sessions, DOMAIN session = Sessions, CommonInv(s), InterceptInv(s),
           CacheInv, flow[s].kind = "intercept", LookupLeaf(s) \/ InsertLeaf(s)
    PROVE  CommonInv(s)' /\ InterceptInv(s)' /\ CacheInv'
<1> DEFINE t == session[s]
           u == session'[s]
           host == flow[s].host
<1>1. DOMAIN t = Fields /\ UNCHANGED <<flow, audit>> /\ t.pc \in {"none", "insert"}
  BY DEF CommonInv, LookupLeaf, InsertLeaf, Untouched, At
<1>2. ASSUME NEW leaf \in Sessions, flow[leaf].host = host, Accepts(s, leaf)
      PROVE  CommonInv(s)' /\ InterceptInv(s)'
  <2>1. /\ DOMAIN u = Fields /\ u.pc = "certificate" /\ u.leaf = leaf
        /\ u.log = t.log /\ u.outcome = t.outcome /\ u.reply = t.reply
        /\ u.committed = t.committed /\ u.downstream = t.downstream
    BY <1>1, <1>2 DEF Accepts, Fields
  <2>2. t.outcome = "none" /\ t.log \in Seq(Events) /\ NoClosing(t.log) /\ ~t.committed
    BY <1>1 DEF CommonInv
  <2>3. CommonInv(s)'
    BY <1>1, <2>1, <2>2, CommonGoesOn DEF Places
  <2>4. InterceptInv(s)'
    BY <1>1, <1>2, <2>1, <2>2 DEF InterceptInv
  <2> QED
    BY <2>3, <2>4
<1>3. CASE LookupLeaf(s)
  <2>1. CacheInv'
    BY <1>1, <1>3 DEF LookupLeaf, CacheInv
  <2>2. CASE host \in DOMAIN entries
    BY <1>2, <1>3, <2>1, <2>2 DEF LookupLeaf, CacheInv
  <2>3. CASE host \notin DOMAIN entries
    <3>1. KeepsRest(t, u) /\ u.pc = "generate" /\ t.pc = "none"
      BY <1>1, <1>3, <2>3, Moves DEF LookupLeaf, At
    <3> QED
      BY <1>1, <2>1, <3>1, InterceptMoved DEF InterceptMoves
  <2> QED
    BY <2>2, <2>3
<1>4. CASE InsertLeaf(s)
  <2>1. CASE host \in DOMAIN entries
    <3>1. CacheInv' /\ Accepts(s, entries[host])
      BY <1>1, <1>4, <2>1 DEF InsertLeaf, CacheInv
    <3> QED
      BY <1>2, <2>1, <3>1 DEF CacheInv
  <2>2. CASE host \notin DOMAIN entries
    <3>1. Accepts(s, s) /\ Insert(host, s)
      BY <1>4, <2>2 DEF InsertLeaf
    <3>2. CacheInv'
      <4>1. CASE CacheCapacity = 0
        BY <1>1, <3>1, <4>1 DEF Insert, cacheVars, CacheInv
      <4>2. CASE CacheCapacity # 0
        <5>1. entries' = [h \in ((DOMAIN entries) \ Evicts) \cup {host} |->
                             IF h = host THEN s ELSE entries[h]]
          BY <3>1, <4>2 DEF Insert
        <5>2. \A h \in DOMAIN entries' :
                 \/ h = host /\ entries'[h] = s
                 \/ h \in DOMAIN entries /\ entries'[h] = entries[h]
          BY <5>1
        <5> QED
          BY <1>1, <5>2 DEF CacheInv
      <4> QED
        BY <4>1, <4>2
    <3> QED
      BY <1>2, <3>1, <3>2
  <2> QED
    BY <2>1, <2>2
<1> QED
  BY <1>3, <1>4

InterceptAction(s) ==
    \/ GenerateLeaf(s) \/ RecordLeaf(s) \/ Register(s) \/ UpgradeIntercepted(s)
    \/ AcceptClient(s) \/ ConnectUpstream(s) \/ Establish(s) \/ ServeHttp1Ends(s)
    \/ ServeHttp2Ends(s) \/ InterceptedCloses(s) \/ ShutdownArm(s) \/ TimeoutArm(s)

\* What intercepted_tunnel_error_outcome tells of the error it is given.
LEMMA InterceptOutcomes ==
    ASSUME NEW e \in InterceptErrors
    PROVE  LET outcome == intercepted_tunnel_error_outcome(e) IN
           /\ outcome \in {"TlsClientRejected", "TlsClientTimeout"} => e \in DownstreamErrors
           /\ outcome \in {"TlsUpstreamRejected", "TlsUpstreamTimeout", "TlsAlpnRejected"} =>
                 e \in UpstreamErrors
           /\ outcome = "Completed" => e = "completed"
BY DEF intercepted_tunnel_error_outcome, TunnelOutcome, InterceptErrors, DownstreamErrors,
       UpstreamErrors

\* The records of an intercepted tunnel, element by element.
LEMMA InterceptLogs ==
    /\ << >> \in Seq(Events) /\ Generated \in Seq(Events) /\ Established \in Seq(Events)
    /\ Append(<< >>, "TlsCertificateGenerated") = Generated
    /\ Append(Generated, "TlsInterceptionEstablished") = Established
    /\ NoClosing(Generated) /\ NoClosing(Established)
    /\ "TlsInterceptionEstablished" \in Range(Append(Established, "TunnelClosed"))
    /\ "TlsInterceptionEstablished" \notin Range(Append(Generated, "TunnelClosed"))
<1>1. /\ << >> \in Seq(Events) /\ Generated \in Seq(Events) /\ Established \in Seq(Events)
  BY DEF Generated, Established, Events
<1>2. /\ Append(<< >>, "TlsCertificateGenerated") = Generated
      /\ Append(Generated, "TlsInterceptionEstablished") = Established
  <2>1. Append(<< >>, "TlsCertificateGenerated") = Generated
    BY DEF Generated
  <2> DEFINE log == Append(Generated, "TlsInterceptionEstablished")
  <2>2. Len(Generated) = 1 /\ Generated[1] = "TlsCertificateGenerated"
    BY DEF Generated
  <2>3. /\ log \in Seq(Events) /\ Len(log) = 2
        /\ log[1] = "TlsCertificateGenerated" /\ log[2] = "TlsInterceptionEstablished"
    <3>1. "TlsInterceptionEstablished" \in Events
      BY DEF Events
    <3>2. /\ log \in Seq(Events) /\ Len(log) = Len(Generated) + 1
          /\ \A i \in 1..Len(Generated) : log[i] = Generated[i]
          /\ log[Len(Generated) + 1] = "TlsInterceptionEstablished"
      BY <1>1, <3>1, AppendProperties
    <3> HIDE DEF log
    <3> QED
      BY <2>2, <3>2
  <2>4. /\ Len(Established) = 2
        /\ Established[1] = "TlsCertificateGenerated"
        /\ Established[2] = "TlsInterceptionEstablished"
    BY DEF Established
  <2> HIDE DEF log
  <2>5. \A i \in 1..Len(log) : log[i] = Established[i]
    <3>1. \A i \in 1..2 : i = 1 \/ i = 2
      OBVIOUS
    <3> QED
      BY <2>3, <2>4, <3>1
  <2>6. log = Established
    BY <1>1, <2>3, <2>4, <2>5, SeqEqual
  <2> QED
    BY <2>1, <2>6 DEF log
<1>3. NoClosing(Generated) /\ NoClosing(Established)
  BY DEF Generated, Established, NoClosing, ClosingEvents
<1>4. "TlsInterceptionEstablished" \in Range(Append(Established, "TunnelClosed"))
  BY DEF Established, Range
<1>5. "TlsInterceptionEstablished" \notin Range(Append(Generated, "TunnelClosed"))
  BY DEF Generated, Range
<1> QED
  BY <1>1, <1>2, <1>3, <1>4, <1>5

\* Each step of an intercepted tunnel keeps its invariant.
LEMMA InterceptSteps ==
    ASSUME NEW s \in Sessions, DOMAIN session = Sessions, audit \in {"open", "failed"},
           CommonInv(s), InterceptInv(s), flow[s].kind = "intercept", InterceptAction(s)
    PROVE  CommonInv(s)' /\ InterceptInv(s)'
<1> DEFINE t == session[s]
           u == session'[s]
<1>1. /\ DOMAIN t = Fields /\ t.log \in Seq(Events)
      /\ t.pc # "ended" => t.outcome = "none" /\ NoClosing(t.log)
      /\ t.reply = "none"
  BY DEF CommonInv
<1>2. UNCHANGED <<flow, audit>>
  BY DEF InterceptAction, GenerateLeaf, RecordLeaf, Register, UpgradeIntercepted, AcceptClient,
         ConnectUpstream, Establish, ServeHttp1Ends, ServeHttp2Ends, InterceptedCloses,
         ShutdownArm, TimeoutArm, Untouched
<1>3. ASSUME NEW pc, Goto(s, pc), InterceptMoves(t, [t EXCEPT !.pc = pc])
      PROVE  CommonInv(s)' /\ InterceptInv(s)'
  <2>1. KeepsRest(t, u) /\ u.pc = pc /\ u.error = t.error
    BY <1>1, <1>3, Moves
  <2>2. InterceptMoves(t, u)
    BY <1>1, <1>3, <2>1 DEF InterceptMoves, Fields
  <2> QED
    BY <1>2, <2>1, <2>2, InterceptMoved
<1>4. ASSUME NEW e, Fails(s, e), InterceptMoves(t, [t EXCEPT !.pc = "closing", !.error = e])
      PROVE  CommonInv(s)' /\ InterceptInv(s)'
  <2>1. KeepsRest(t, u) /\ u.pc = "closing" /\ u.error = e
    BY <1>1, <1>4, Moves
  <2>2. InterceptMoves(t, u)
    BY <1>1, <1>4, <2>1 DEF InterceptMoves, Fields
  <2> QED
    BY <1>2, <2>1, <2>2, InterceptMoved
<1>5. CASE GenerateLeaf(s)
  BY <1>1, <1>3, <1>5 DEF GenerateLeaf, At, InterceptMoves, Fields
<1>6. CASE UpgradeIntercepted(s)
  BY <1>1, <1>3, <1>4, <1>6 DEF UpgradeIntercepted, At, InterceptMoves, Fields
<1>7. CASE ServeHttp1Ends(s) \/ ServeHttp2Ends(s)
  BY <1>1, <1>4, <1>7 DEF ServeHttp1Ends, ServeHttp2Ends, ServeResults, At, InterceptMoves,
         Fields
<1>8. CASE TimeoutArm(s)
  BY <1>1, <1>4, <1>8 DEF TimeoutArm, TimedOut, InterceptMoves, Fields,
         DownstreamErrors, UpstreamErrors
<1>9. CASE ShutdownArm(s)
  BY <1>1, <1>4, <1>9 DEF ShutdownArm, Selects, InterceptMoves, Fields
<1>10. CASE RecordLeaf(s)
  <2>1. t.pc = "certificate" /\ t.log = << >> /\ t.downstream = "unset" /\ ~t.committed
    BY <1>10 DEF RecordLeaf, At, InterceptInv, CommonInv
  <2>2. CASE audit = "open"
    <3>1. /\ DOMAIN u = Fields /\ u.pc = "register" /\ u.leaf = t.leaf
          /\ u.outcome = t.outcome
          /\ u.reply = t.reply /\ u.committed = t.committed /\ u.downstream = t.downstream
      BY <1>1, <1>10, <2>2 DEF RecordLeaf, Publish, Fields
    <3>2. u.log = Generated /\ u.log \in Seq(Events) /\ NoClosing(u.log)
      <4>1. u.log = Append(t.log, "TlsCertificateGenerated")
        BY <1>1, <1>10, <2>2 DEF RecordLeaf, Publish, Fields
      <4> QED
        BY <2>1, <4>1, InterceptLogs
    <3>3. CommonInv(s)'
      <4>1. "register" \in Places["intercept"] /\ ~u.committed /\ t.pc # "ended"
        BY <2>1, <3>1 DEF Places
      <4> QED
        BY <1>2, <3>1, <3>2, <4>1, CommonGoesOn
    <3>4. InterceptInv(s)'
      BY <1>1, <1>2, <2>1, <3>1, <3>2 DEF InterceptInv
    <3> QED
      BY <3>3, <3>4
  <2>3. CASE audit = "failed"
    BY <1>1, <1>3, <1>10, <2>1, <2>3 DEF RecordLeaf, InterceptMoves, Fields
  <2> QED
    BY <2>2, <2>3
<1>11. CASE Register(s)
  <2>1. t.pc = "register"
    BY <1>11 DEF Register
  <2>2. CASE Goto(s, "refused")
    BY <1>1, <1>3, <2>1, <2>2 DEF InterceptMoves, Fields
  <2>3. CASE session' = [session EXCEPT ![s].pc = "upgrade", ![s].committed = (audit = "open")]
    <3>1. /\ DOMAIN u = Fields /\ u.pc = "upgrade" /\ u.leaf = t.leaf /\ u.log = t.log
          /\ u.outcome = t.outcome /\ u.reply = t.reply /\ u.downstream = t.downstream
      BY <1>1, <2>3 DEF Fields
    <3>2. CommonInv(s)'
      BY <1>1, <1>2, <2>1, <3>1, CommonGoesOn DEF Places
    <3>3. InterceptInv(s)'
      BY <1>1, <1>2, <2>1, <3>1 DEF InterceptInv
    <3> QED
      BY <3>2, <3>3
  <2> QED
    BY <1>11, <2>2, <2>3 DEF Register
<1>12. CASE AcceptClient(s)
  <2>1. t.pc = "accept"
    BY <1>12 DEF AcceptClient, At
  <2>2. ASSUME NEW alpn \in {"h2", "http/1.1", "none"},
               session' = [session EXCEPT ![s].pc = "upstream", ![s].downstream = alpn]
        PROVE  CommonInv(s)' /\ InterceptInv(s)'
    <3>1. /\ DOMAIN u = Fields /\ u.pc = "upstream" /\ u.leaf = t.leaf /\ u.log = t.log
          /\ u.outcome = t.outcome /\ u.reply = t.reply /\ u.downstream = alpn
          /\ u.committed = t.committed
      BY <1>1, <2>2 DEF Fields
    <3>2. CommonInv(s)'
      BY <1>1, <1>2, <2>1, <3>1, CommonGoesOn DEF Places
    <3>3. InterceptInv(s)'
      BY <1>1, <1>2, <2>1, <3>1 DEF InterceptInv
    <3> QED
      BY <3>2, <3>3
  <2> QED
    BY <1>1, <1>4, <1>12, <2>1, <2>2 DEF AcceptClient, InterceptMoves, Fields,
           DownstreamErrors, UpstreamErrors
<1>13. CASE ConnectUpstream(s)
  <2>1. t.pc = "upstream"
    BY <1>13 DEF ConnectUpstream, At
  <2>2. ASSUME NEW alpn,
               session' = [session EXCEPT ![s].pc = "validate", ![s].upstream = alpn]
        PROVE  CommonInv(s)' /\ InterceptInv(s)'
    <3>1. /\ DOMAIN u = Fields /\ u.pc = "validate" /\ u.leaf = t.leaf /\ u.log = t.log
          /\ u.outcome = t.outcome /\ u.reply = t.reply /\ u.downstream = t.downstream
          /\ u.committed = t.committed
      BY <1>1, <2>2 DEF Fields
    <3>2. CommonInv(s)'
      BY <1>1, <1>2, <2>1, <3>1, CommonGoesOn DEF Places
    <3>3. InterceptInv(s)'
      BY <1>1, <1>2, <2>1, <3>1 DEF InterceptInv
    <3> QED
      BY <3>2, <3>3
  <2> QED
    BY <1>1, <1>4, <1>13, <2>1, <2>2 DEF ConnectUpstream, InterceptMoves, Fields,
           DownstreamErrors, UpstreamErrors
<1>14. CASE Establish(s)
  <2>1. t.pc = "validate" /\ t.log = Generated
    BY <1>14 DEF Establish, At, InterceptInv
  <2>2. CASE Compatible(t.downstream, t.upstream) /\ audit = "open"
    <3>1. /\ DOMAIN u = Fields /\ u.pc = "serve" /\ u.leaf = t.leaf
          /\ u.outcome = t.outcome
          /\ u.reply = t.reply /\ u.committed = t.committed /\ u.downstream = t.downstream
          /\ u.upstream = t.upstream
      BY <1>1, <1>14, <2>2 DEF Establish, Publish, Fields
    <3>2. u.log = Established /\ u.log \in Seq(Events) /\ NoClosing(u.log)
      <4>1. u.log = Append(t.log, "TlsInterceptionEstablished")
        BY <1>1, <1>14, <2>2 DEF Establish, Publish, Fields
      <4> QED
        BY <2>1, <4>1, InterceptLogs
    <3>3. CommonInv(s)'
      <4>1. "serve" \in Places["intercept"] /\ t.pc # "ended"
        BY <2>1 DEF Places
      <4> QED
        BY <1>2, <3>1, <3>2, <4>1, CommonGoesOn
    <3>4. Compatible(u.downstream, u.upstream)
      BY <2>2, <3>1
    <3>5. InterceptInv(s)'
      BY <1>1, <1>2, <2>1, <3>1, <3>2, <3>4 DEF InterceptInv
    <3> QED
      BY <3>3, <3>5
  <2>3. CASE Compatible(t.downstream, t.upstream) /\ audit = "failed"
    BY <1>1, <1>4, <1>14, <2>1, <2>3 DEF Establish, Publish, InterceptMoves, Fields
  <2>4. CASE ~Compatible(t.downstream, t.upstream)
    BY <1>1, <1>4, <1>14, <2>1, <2>4 DEF Establish, InterceptMoves, Fields
  <2> QED
    BY <2>2, <2>3, <2>4
<1>15. CASE InterceptedCloses(s)
  <2>1. t.pc = "closing"
    BY <1>15 DEF InterceptedCloses, At
  <2>2. CASE audit = "open"
    <3>1. Records(s, "TunnelClosed", intercepted_tunnel_error_outcome(t.error))
      BY <1>15 DEF InterceptedCloses
    <3>2. /\ DOMAIN u = Fields /\ u.pc = "ended" /\ u.log \in Seq(Events)
          /\ u.outcome = intercepted_tunnel_error_outcome(t.error)
          /\ u.log = Append(t.log, "TunnelClosed")
          /\ Closings(u) = 1 /\ u.log[Len(u.log)] \in ClosingEvents /\ u.reply = t.reply
          /\ u.downstream = t.downstream
      BY <1>1, <2>1, <2>2, <3>1, RecordsCloses DEF ClosingEvents
    <3>3. CommonInv(s)'
      <4>1. /\ DOMAIN u = Fields /\ u.pc = "ended" /\ u.log \in Seq(Events)
            /\ Closings(u) = 1 /\ u.log[Len(u.log)] \in ClosingEvents /\ u.reply = t.reply
        BY <3>2
      <4>2. "ended" \in Places["intercept"]
        BY DEF Places
      <4> QED
        BY <1>2, <4>1, <4>2, CommonEnds
    <3>4. /\ t.error \in InterceptErrors
          /\ t.error \in DownstreamErrors => t.downstream = "unset"
          /\ t.error \in UpstreamErrors => t.downstream # "unset" /\ t.log = Generated
          /\ t.error = "completed" => t.log = Established
      BY <2>1 DEF InterceptInv
    <3>5. NamesTheStage(u)
      BY <3>2, <3>4, InterceptOutcomes, InterceptLogs DEF NamesTheStage
    <3>6. InterceptInv(s)'
      BY <1>2, <3>2, <3>5 DEF InterceptInv
    <3> QED
      BY <3>3, <3>6
  <2>3. CASE audit = "failed"
    BY <1>1, <1>3, <1>15, <2>1, <2>3 DEF InterceptedCloses, Records, InterceptMoves, Fields
  <2> QED
    BY <2>2, <2>3
<1> QED
  BY <1>5, <1>6, <1>7, <1>8, <1>9, <1>10, <1>11, <1>12, <1>13, <1>14, <1>15
  DEF InterceptAction

-----------------------------------------------------------------------------
(* All sessions together *)

SessionInv(s) == CommonInv(s) /\ SocksInv(s) /\ InterceptInv(s)

TunnelInv ==
    /\ DOMAIN session = Sessions
    /\ audit \in {"open", "failed"}
    /\ \A s \in Sessions : SessionInv(s)
    /\ CacheInv

\* The initial states satisfy the invariant.
LEMMA InitTunnelInv == Init => TunnelInv
<1> SUFFICES ASSUME Init PROVE TunnelInv
  OBVIOUS
<1>1. /\ DOMAIN session = Sessions /\ audit \in {"open", "failed"}
      /\ \A s \in Sessions :
            flow[s].kind \in {"socks5", "connect", "intercept", "absent"}
  BY StartsAssumption DEF Init
<1>2. ASSUME NEW s \in Sessions
      PROVE  SessionInv(s)
  <2> DEFINE t == session[s]
  <2>1. /\ DOMAIN t = Fields /\ t.pc = "none" /\ t.error = "none" /\ t.reply = "none"
        /\ t.granted = {} /\ t.committed = FALSE /\ t.downstream = "unset"
        /\ t.log = << >> /\ t.outcome = "none"
    BY DEF Init, NewSession, Fields
  <2>2. t.log \in Seq(Events) /\ NoClosing(t.log)
    BY <2>1 DEF NoClosing
  <2>3. CommonInv(s)
    BY <1>1, <2>1, <2>2 DEF CommonInv, Places
  <2>4. SocksInv(s)
    BY <2>1 DEF SocksInv
  <2>5. InterceptInv(s)
    BY <2>1 DEF InterceptInv
  <2> QED
    BY <2>3, <2>4, <2>5 DEF SessionInv
<1>3. CacheInv
  BY DEF Init, CacheInv
<1> QED
  BY <1>1, <1>2, <1>3 DEF TunnelInv

\* A session that does not move keeps its invariant.
LEMMA SessionAtRest ==
    ASSUME NEW s \in Sessions, SessionInv(s), session'[s] = session[s],
           UNCHANGED <<flow, authentication>>, audit' \in {audit, "failed"}
    PROVE  SessionInv(s)'
<1>1. CommonInv(s)'
  BY DEF SessionInv, CommonInv
<1>2. AllGranted' = AllGranted /\ Authenticated' = Authenticated
  BY DEF AllGranted, Authenticated
<1>3. SocksInv(s)'
  BY <1>2 DEF SessionInv, SocksInv
<1>4. InterceptInv(s)'
  BY DEF SessionInv, InterceptInv
<1> QED
  BY <1>1, <1>3, <1>4 DEF SessionInv

\* A session's step changes its own record and nothing of the environment.
LEMMA StepIsLocal ==
    ASSUME NEW s \in Sessions, DOMAIN session = Sessions, audit \in {"open", "failed"},
           Peer(s) \/ Proxy(s)
    PROVE  /\ UNCHANGED <<flow, authentication, audit>>
           /\ DOMAIN session' = Sessions
           /\ \A r \in Sessions \ {s} : session'[r] = session[r]
<1>1. UNCHANGED <<flow, authentication, audit>>
  BY DEF Peer, Proxy, SocksOpens, SocksGreeting, SocksCredentials, SocksRequest, SpawnBlind,
         LookupLeaf, UpgradeBlind, UpgradeIntercepted, AcceptClient, ConnectUpstream,
         SocksRelayEnds, RelayEnds, ServeHttp1Ends, ServeHttp2Ends, SocksAuthorize,
         SocksConnect, SocksReply, GenerateLeaf, InsertLeaf, RecordLeaf, Register, Establish,
         ShutdownArm, TimeoutArm, SocksCloses, TunnelCloses, InterceptedCloses, Untouched
<1>2. \E t : session' = [session EXCEPT ![s] = t]
  <2>1. ASSUME NEW pc, NEW e, NEW event, NEW outcome, NEW leaf,
               \/ Goto(s, pc) \/ Fails(s, e) \/ Publish(s, event, pc)
               \/ Records(s, event, outcome) \/ Accepts(s, leaf)
        PROVE  \E t : session' = [session EXCEPT ![s] = t]
    BY <2>1 DEF Goto, Fails, Publish, Records, Accepts
  <2>2. CASE SocksOpens(s) \/ SocksGreeting(s) \/ SocksRelayEnds(s) \/ SocksCloses(s)
    BY <2>1, <2>2 DEF SocksOpens, SocksGreeting, SocksRelayEnds, SocksCloses
  <2>3. CASE SocksCredentials(s)
    <3>1. PICK result \in authenticate_username_password, written \in BOOLEAN :
             CASE result = "io" -> Fails(s, "socks")
               [] result # "io" /\ audit = "failed" -> Fails(s, "audit")
               [] result # "io" /\ audit = "open" ->
                  LET authenticated == result = "AuthenticationAccepted" IN
                  session' = [session EXCEPT
                     ![s].log = Append(@, result),
                     ![s].granted = IF authenticated THEN @ \cup {"authentication"} ELSE @,
                     ![s].pc = IF written /\ authenticated THEN "request" ELSE "closing",
                     ![s].error = CASE ~written -> "socks"
                                    [] written /\ ~authenticated -> "authentication"
                                    [] OTHER -> @]
      BY <2>3, Zenon DEF SocksCredentials
    <3>2. CASE result = "io"
      BY <2>1, <3>1, <3>2
    <3>3. CASE result # "io" /\ audit = "failed"
      BY <2>1, <3>1, <3>3
    <3>4. CASE result # "io" /\ audit = "open"
      BY <3>1, <3>4
    <3> QED
      BY <3>2, <3>3, <3>4
  <2>4. CASE SocksRequest(s) \/ SocksAuthorize(s) \/ SocksConnect(s) \/ SocksReply(s)
    BY <2>1, <2>4 DEF SocksRequest, SocksAuthorize, SocksConnect, SocksReply
  <2>5. CASE LookupLeaf(s) \/ GenerateLeaf(s) \/ InsertLeaf(s) \/ RecordLeaf(s)
    BY <2>1, <2>5 DEF LookupLeaf, GenerateLeaf, InsertLeaf, RecordLeaf
  <2>6. CASE SpawnBlind(s) \/ Register(s) \/ UpgradeBlind(s) \/ RelayEnds(s) \/ TunnelCloses(s)
    BY <2>1, <2>6 DEF SpawnBlind, Register, UpgradeBlind, RelayEnds, TunnelCloses
  <2>7. CASE UpgradeIntercepted(s) \/ AcceptClient(s) \/ ConnectUpstream(s) \/ Establish(s)
    BY <2>1, <2>7 DEF UpgradeIntercepted, AcceptClient, ConnectUpstream, Establish
  <2>8. CASE ServeHttp1Ends(s) \/ ServeHttp2Ends(s) \/ InterceptedCloses(s)
    BY <2>1, <2>8 DEF ServeHttp1Ends, ServeHttp2Ends, InterceptedCloses
  <2>9. CASE ShutdownArm(s) \/ TimeoutArm(s)
    BY <2>1, <2>9 DEF ShutdownArm, TimeoutArm
  <2> QED
    BY <2>2, <2>3, <2>4, <2>5, <2>6, <2>7, <2>8, <2>9 DEF Peer, Proxy
<1> QED
  BY <1>1, <1>2

\* A step of one session keeps the invariant of them all.
LEMMA StepKeepsInv ==
    ASSUME TunnelInv, NEW s \in Sessions, Peer(s) \/ Proxy(s)
    PROVE  TunnelInv'
<1>1. /\ DOMAIN session = Sessions /\ audit \in {"open", "failed"}
      /\ CommonInv(s) /\ SocksInv(s) /\ InterceptInv(s) /\ CacheInv
  BY DEF TunnelInv, SessionInv
<1>2. /\ UNCHANGED <<flow, authentication, audit>> /\ DOMAIN session' = Sessions
      /\ \A r \in Sessions \ {s} : session'[r] = session[r]
  BY <1>1, StepIsLocal
<1>3. \A r \in Sessions \ {s} : SessionInv(r)'
  BY <1>1, <1>2, SessionAtRest DEF TunnelInv
<1>4. SessionInv(s)' /\ CacheInv'
  <2>1. CASE LookupLeaf(s) \/ InsertLeaf(s)
    <3>1. flow[s].kind = "intercept"
      BY <2>1 DEF LookupLeaf, InsertLeaf, At
    <3>2. CommonInv(s)' /\ InterceptInv(s)' /\ CacheInv'
      BY <1>1, <2>1, <3>1, LeafSteps
    <3>3. SocksInv(s)'
      BY <1>2, <3>1 DEF SocksInv
    <3> QED
      BY <3>2, <3>3 DEF SessionInv
  <2>2. CASE ~(LookupLeaf(s) \/ InsertLeaf(s))
    <3>1. UNCHANGED entries
      BY <2>2 DEF Peer, Proxy, SocksOpens, SocksGreeting, SocksCredentials, SocksRequest,
         SpawnBlind, UpgradeBlind, UpgradeIntercepted, AcceptClient, ConnectUpstream,
         SocksRelayEnds, RelayEnds, ServeHttp1Ends, ServeHttp2Ends, SocksAuthorize,
         SocksConnect, SocksReply, GenerateLeaf, RecordLeaf, Register, Establish,
         ShutdownArm, TimeoutArm, SocksCloses, TunnelCloses, InterceptedCloses, cacheVars
    <3>2. CacheInv'
      BY <1>1, <1>2, <3>1 DEF CacheInv
    <3>3. CASE flow[s].kind = "socks5"
      <4>1. SocksAction(s) \/ ShutdownArm(s) \/ TimeoutArm(s)
        BY <1>1, <2>2, <3>3 DEF Peer, Proxy, SocksAction, SpawnBlind, UpgradeBlind, UpgradeIntercepted,
           AcceptClient, ConnectUpstream, RelayEnds, ServeHttp1Ends, ServeHttp2Ends,
           GenerateLeaf, RecordLeaf, Register, Establish, TunnelCloses, InterceptedCloses, At,
           CommonInv, Places
      <4>2. CommonInv(s)' /\ SocksInv(s)'
        BY <1>1, <3>3, <4>1, SocksSteps, SocksEnds
      <4>3. InterceptInv(s)'
        BY <1>2, <3>3 DEF InterceptInv
      <4> QED
        BY <3>2, <4>2, <4>3 DEF SessionInv
    <3>4. CASE flow[s].kind = "connect"
      <4>1. BlindAction(s)
        BY <2>2, <3>4 DEF Peer, Proxy, BlindAction, SocksOpens, SocksGreeting, SocksCredentials,
           SocksRequest, SocksAuthorize, SocksConnect, SocksReply, SocksRelayEnds, SocksCloses,
           UpgradeIntercepted, AcceptClient, ConnectUpstream, ServeHttp1Ends, ServeHttp2Ends,
           GenerateLeaf, RecordLeaf, Establish, InterceptedCloses, At
      <4>2. CommonInv(s)'
        BY <1>1, <3>4, <4>1, BlindSteps
      <4>3. SocksInv(s)' /\ InterceptInv(s)'
        BY <1>2, <3>4 DEF SocksInv, InterceptInv
      <4> QED
        BY <3>2, <4>2, <4>3 DEF SessionInv
    <3>5. CASE flow[s].kind = "intercept"
      <4>1. InterceptAction(s)
        BY <2>2, <3>5 DEF Peer, Proxy, InterceptAction, SocksOpens, SocksGreeting, SocksCredentials,
           SocksRequest, SocksAuthorize, SocksConnect, SocksReply, SocksRelayEnds, SocksCloses,
           SpawnBlind, UpgradeBlind, RelayEnds, TunnelCloses, At
      <4>2. CommonInv(s)' /\ InterceptInv(s)'
        BY <1>1, <3>5, <4>1, InterceptSteps
      <4>3. SocksInv(s)'
        BY <1>2, <3>5 DEF SocksInv
      <4> QED
        BY <3>2, <4>2, <4>3 DEF SessionInv
    <3>6. CASE flow[s].kind = "absent"
      <4>1. session[s].pc = "none"
        BY <1>1, <3>6 DEF CommonInv, Places
      <4> QED
        BY <2>2, <3>6, <4>1 DEF Peer, Proxy, SocksOpens, SocksGreeting, SocksCredentials,
           SocksRequest, SpawnBlind, UpgradeBlind, UpgradeIntercepted, AcceptClient,
           ConnectUpstream, SocksRelayEnds, RelayEnds, ServeHttp1Ends, ServeHttp2Ends,
           SocksAuthorize, SocksConnect, SocksReply, GenerateLeaf, RecordLeaf, Register,
           Establish, ShutdownArm, TimeoutArm, SocksCloses, TunnelCloses, InterceptedCloses,
           At, Selects, TimedOut
    <3> QED
      BY <1>1, <3>3, <3>4, <3>5, <3>6 DEF CommonInv
  <2> QED
    BY <2>1, <2>2
<1> QED
  BY <1>1, <1>2, <1>3, <1>4 DEF TunnelInv

\* TunnelInv is inductive.
LEMMA TunnelInvariance == Spec => []TunnelInv
<1>1. TunnelInv /\ [Next]_vars => TunnelInv'
  <2> SUFFICES ASSUME TunnelInv, [Next]_vars PROVE TunnelInv'
    OBVIOUS
  <2>1. CASE \E s \in Sessions : Peer(s) \/ Proxy(s)
    BY <2>1, StepKeepsInv
  <2>2. CASE Shutdown \/ AuditFails \/ UNCHANGED vars
    <3>1. /\ UNCHANGED <<flow, authentication, session, entries>>
          /\ audit' \in {audit, "failed"}
      BY <2>2 DEF Shutdown, AuditFails, vars, cacheVars
    <3>2. \A s \in Sessions : SessionInv(s)'
      BY <3>1, SessionAtRest DEF TunnelInv
    <3>3. CacheInv'
      BY <3>1 DEF TunnelInv, CacheInv
    <3> QED
      BY <3>1, <3>2, <3>3 DEF TunnelInv
  <2> QED
    BY <2>1, <2>2 DEF Next
<1> QED
  BY <1>1, InitTunnelInv, PTL DEF Spec

\* For every number of tunnels: plaintext is served in an intercepted tunnel only
\* behind the 200, both handshakes with protocols that agree, and the two records,
\* with a leaf made for the very host the client named.
THEOREM PlaintextIsEarned == Spec => []PlaintextNeedsBothPeers
<1>1. TunnelInv => PlaintextNeedsBothPeers
  <2> SUFFICES ASSUME TunnelInv, NEW s \in Sessions, session[s].pc = "serve"
               PROVE  LET t == session[s] IN
                      /\ t.committed
                      /\ flow[t.leaf].host = flow[s].host
                      /\ {t.downstream, t.upstream} \in
                             {{"h2"}, {"http/1.1"}, {"none"}, {"http/1.1", "none"}}
                      /\ t.log = <<"TlsCertificateGenerated", "TlsInterceptionEstablished">>
    BY DEF PlaintextNeedsBothPeers
  <2>1. CommonInv(s) /\ InterceptInv(s)
    BY DEF TunnelInv, SessionInv
  <2>2. flow[s].kind = "intercept"
    BY <2>1 DEF CommonInv, Places
  <2>3. /\ session[s].committed
        /\ flow[session[s].leaf].host = flow[s].host
        /\ session[s].log = Established
        /\ Compatible(session[s].downstream, session[s].upstream)
    BY <2>1, <2>2 DEF InterceptInv
  <2>4. {session[s].downstream, session[s].upstream} \in
            {{"h2"}, {"http/1.1"}, {"none"}, {"http/1.1", "none"}}
    BY <2>3 DEF Compatible
  <2> QED
    BY <2>3, <2>4 DEF Established
<1> QED
  BY <1>1, TunnelInvariance, PTL

\* For every number of SOCKS5 sessions: the reply the client was sent and the
\* outcome in FlowClosed agree, and Succeeded follows every check.
THEOREM ReplyIsHonest == Spec => []ReplyAgreesWithRecord
<1>1. TunnelInv => ReplyAgreesWithRecord
  <2> SUFFICES ASSUME TunnelInv, NEW s \in Sessions
               PROVE  LET t == session[s] IN
                      /\ t.reply = "Succeeded" => t.granted = AllGranted
                      /\ flow[s].kind = "socks5" /\ t.outcome # "none" => ToldAs(t)
    BY DEF ReplyAgreesWithRecord, AllGranted, Authenticated, ToldAs
  <2>1. CommonInv(s) /\ SocksInv(s)
    BY DEF TunnelInv, SessionInv
  <2> QED
    BY <2>1 DEF CommonInv, SocksInv
<1> QED
  BY <1>1, TunnelInvariance, PTL

\* For every number of tunnels, while the audit writer works: each that was
\* spawned and answered leaves exactly one closing record, its last, and its
\* outcome names the stage that failed; a refused CONNECT leaves none.
THEOREM TunnelsAreRecorded == Spec => []TunnelIsRecorded
<1>1. TunnelInv => TunnelIsRecorded
  <2> SUFFICES ASSUME TunnelInv, NEW s \in Sessions
               PROVE  LET t == session[s] IN
                      /\ t.pc = "refused" => ~t.committed /\ Closings(t) = 0
                      /\ /\ t.pc = "ended" /\ audit = "open"
                         /\ flow[s].kind = "intercept" \/ flow[s].kind = "socks5"
                              \/ t.error \notin {"upgrade", "shutdown"}
                         => /\ Closings(t) = 1
                            /\ t.log[Len(t.log)] \in ClosingEvents
                      /\ flow[s].kind = "intercept" => NamesTheStage(t)
    BY DEF TunnelIsRecorded, ClosingEvents, NamesTheStage
  <2>1. CommonInv(s) /\ InterceptInv(s)
    BY DEF TunnelInv, SessionInv
  <2>2. session[s].pc = "refused" => ~session[s].committed /\ Closings(session[s]) = 0
    BY <2>1, ClosingsCount DEF CommonInv
  <2>3. flow[s].kind = "intercept" => NamesTheStage(session[s])
    BY <2>1 DEF InterceptInv, NamesTheStage
  <2> QED
    BY <2>1, <2>2, <2>3 DEF CommonInv
<1> QED
  BY <1>1, TunnelInvariance, PTL
=============================================================================
