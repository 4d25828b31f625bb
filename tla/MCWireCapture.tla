---------------------------- MODULE MCWireCapture ----------------------------
(***************************************************************************)
(* Pipelines of up to four requests and sequences of responses, built from  *)
(* messages that exercise each framing. The expected framing is stated with *)
(* the message, not computed.                                              *)
(***************************************************************************)
EXTENDS WireCapture

Build(lines, body, end) ==
    LET head == FlattenSeq([i \in DOMAIN lines |-> <<lines[i]>> \o CrLf]) \o CrLf
    IN  [text |-> head \o body, head |-> Len(head), end |-> end, informational |-> FALSE]

Interim == [Build(<<"s100">>, << >>, "ends") EXCEPT !.informational = TRUE]

Chunk(size, data) == <<size>> \o CrLf \o data \o CrLf
LastChunk == <<"z0">> \o CrLf

Requests ==
    {Build(<<"request", "field">>, << >>, "ends"),
     \* a body that looks like the end of a head
     Build(<<"request", "cl2">>, CrLf, "ends"),
     \* an extension, a chunk that holds a line end, a trailer
     Build(<<"request", "chunked">>,
           <<"z2", "ext">> \o CrLf \o CrLf \o CrLf \o LastChunk \o <<"field">> \o CrLf \o CrLf,
           "ends"),
     Build(<<"request", "chunked", "cl1">>, << >>, "malformed"),
     Build(<<"request", "chunked">>, <<"z1">> \o CrLf \o <<"d", "d">>, "malformed")}

Responses ==
    {Build(<<"s200", "cl1", "cl1">>, <<"d">>, "ends"),
     Build(<<"s204", "cl1">>, << >>, "ends"),
     Build(<<"s200", "chunked">>, Chunk("z1", <<"lf">>) \o Chunk("z1", <<"d">>)
                                     \o LastChunk \o CrLf, "ends"),
     Build(<<"s200">>, <<"d", "cr", "lf">>, "close"),
     Build(<<"s200", "cl1", "cl2">>, << >>, "malformed"),
     Build(<<"s304", "field", "field", "field">>, << >>, "malformed")}

HeadResponses == {Build(<<"s200", "cl3">>, << >>, "ends"), Build(<<"s200", "chunked">>, << >>, "ends")}

\* Two records, one dropped start, and a start behind it once a record is free;
\* the two last requests differ, so that a capture of the wrong one shows.
LongPipeline ==
    [k \in 1..4 |-> IF k = 4 THEN Build(<<"request", "field">>, << >>, "ends")
                             ELSE Build(<<"request">>, << >>, "ends")]

MCExchanges ==
    [role : {"request"}, messages : UNION {[1..n -> Requests] : n \in 1..3} \cup {LongPipeline}]
    \cup [role : {"get"}, messages : {<<r>> : r \in Responses}
                                     \cup {<<Interim, r>> : r \in Responses}
                                     \cup {<<Interim, Interim, r>> : r \in Responses}]
    \cup [role : {"head"}, messages : {<<r>> : r \in HeadResponses}]
    \cup [role : {"connect"}, messages : {<<Build(<<"s200", "chunked">>, << >>, "ends")>>}]

=============================================================================
