--------------------------- MODULE MCRepeatWorkspaces -------------------------
EXTENDS RepeatWorkspaces

Message(kind, target, form, tokens, headers, body) ==
    [kind |-> kind, target |-> target, form |-> form, tokens |-> tokens,
     headers |-> headers, body |-> body]

Configuration(via, mode, failure, inspection, hooks, enforcement, credential) ==
    [via |-> via, mode |-> mode, failure |-> failure, inspection |-> inspection,
     hooks |-> hooks, enforcement |-> enforcement, credential |-> credential]

MCConfigurations ==
    { Configuration("forward", "automatic", "fail-open", "streaming", 1, "enforce", "none"),
      Configuration("forward", "automatic", "fail-closed", "preflight", 2, "observe", "none"),
      Configuration("forward", "disabled", "fail-open", "streaming", 0, "enforce", "none"),
      Configuration("forward", "disabled", "fail-open", "preflight", 0, "enforce", "rejected"),
      Configuration("intercepted", "interactive", "fail-closed", "preflight", 1, "observe", "none"),
      Configuration("connect", "interactive", "fail-closed", "preflight", 1, "enforce", "none"),
      Configuration("connect", "automatic", "fail-closed", "preflight", 0, "observe", "none"),
      Configuration("repeat", "interactive", "fail-closed", "streaming", 1, "enforce", "none"),
      Configuration("repeat", "interactive", "fail-closed", "preflight", 1, "enforce", "none") }

MCRequests ==
    { Message("POST", "http", "ok", {"etag"}, {"connection", "content-length", "etag"}, <<"a", "b">>),
      Message("POST", "http", "ok", {}, {"transfer-encoding"}, <<"b", "x", "b">>),
      Message("POST", "https", "ok", {}, {"content-length"}, <<"a", "x">>),
      Message("HEAD", "http", "ok", {}, {}, <<>>),
      Message("GET", "bad", "ok", {}, {}, <<>>),
      Message("GET", "http", "malformed", {}, {}, <<>>),
      Message("GET", "http", "bad-token", {}, {"connection"}, <<>>),
      Message("CONNECT", "http", "ok", {}, {}, <<>>),
      Message("CONNECT", "bad", "ok", {}, {}, <<>>) }

MCResponses ==
    { Message("200", none, "ok", {}, {"content-length", "etag"}, <<"a", "b">>),
      Message("200", none, "ok", {}, {"transfer-encoding", "content-encoding"}, <<"b", "b", "x">>),
      Message("205", none, "ok", {}, {"content-length"}, <<"a">>),
      Message("304", none, "ok", {}, {"content-length"}, <<"a">>),
      Message("500", none, "ok", {}, {}, <<"a">>),
      Message("200", none, "malformed", {}, {}, <<>>),
      Message("200", none, "bad-token", {}, {"connection"}, <<>>) }

MCSources ==
    <<Message("POST", "http", "ok", {}, {"content-length"}, <<"a", "b">>),
      Message("HEAD", "https", "ok", {}, {}, <<>>)>>

\* A draft that inspection denies.
MCEdits == {[form |-> "ok", headers |-> {}, body |-> <<"x">>]}

MCResolutions == {<<"p", "q">>}

MCPolicies == {{}, {"q"}}

MCReplacements == {<<"r">>, <<"r", "r", "r">>}
=============================================================================
