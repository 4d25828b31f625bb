----------------------------- MODULE MCTcpRelay -----------------------------
(* A client that sends up to three bytes, an upstream that sends one, and a     *)
(* denied two-byte pattern that reads of one or two bytes cut anywhere.        *)
EXTENDS TcpRelay

MCProgram ==
    <<[detector_id |-> "pair", bytes |-> <<1, 1>>, directions |-> Directions,
       action |-> "deny"]>>

Sent(n) == [d \in Directions |-> IF d = "client-to-upstream" THEN n ELSE 1]

MCProfiles ==
    [mode : Modes, enforcement : {"enforce"}, hooks : {{"keep"}}, sent : {Sent(3)}]
      \cup [mode : Modes, enforcement : {"observe"}, hooks : {{"keep"}}, sent : {Sent(2)}]
      \cup [mode : Modes, enforcement : {"enforce"},
            hooks : {{"keep", "drop", "replace", "fail"}}, sent : {Sent(2)}]
=============================================================================
