-------------------------- MODULE MCFlowInspector --------------------------
(* A program with overlapping patterns of different lengths, one of them for  *)
(* the other direction only, so that the carry is longer than any pattern     *)
(* this direction looks for.                                                  *)
EXTENDS FlowInspector

Pattern(id, bytes, directions, action) ==
    [detector_id |-> id, bytes |-> bytes, directions |-> directions, action |-> action]

MCProgram ==
    <<Pattern("pair", <<1, 1>>, {"client-to-upstream"}, "allow"),
      Pattern("marker", <<1, 0, 1>>, {"client-to-upstream", "upstream-to-client"}, "deny"),
      Pattern("other", <<0, 0, 0, 0>>, {"upstream-to-client"}, "deny")>>
=============================================================================
