----------------------------- MODULE WireFraming -----------------------------
(***************************************************************************)
(* The capture-only HTTP/1 framer: Http1Framer of                          *)
(* crates/freja-proxy/src/http/wire/framing.rs, as operators on a record.  *)
(*                                                                         *)
(* A stream is a sequence of symbols. "cr" and "lf" are the bytes; every   *)
(* other symbol stands for a run of bytes the framer treats alike: a start *)
(* line ("request", or a status), a header line, a chunk size, a body      *)
(* byte. A body may hold any symbol, "cr" and "lf" included.               *)
(***************************************************************************)
EXTENDS Integers, Sequences, SequencesExt

CONSTANTS
    MaxHead,         \* maximum_head_bytes, in symbols
    MaxCapture       \* maximum_capture_bytes: header_bytes + ui_content_bytes

ASSUME FramerBounds == MaxHead \in Nat /\ MaxCapture \in Nat

Status == [s100 |-> 100, s101 |-> 101, s200 |-> 200, s204 |-> 204, s304 |-> 304]
ContentLength == [cl0 |-> 0, cl1 |-> 1, cl2 |-> 2, cl3 |-> 3]
ChunkSize == [z0 |-> 0, z1 |-> 1, z2 |-> 2]
\* Header lines split_header accepts: a length, chunked or another coding, the rest.
HeaderLines == DOMAIN ContentLength \cup {"clbad", "chunked", "gzip", "field"}

NewFramer(role) ==
    [role |-> role,            \* "request", or what the response answers:
                               \* "get", "head" or "connect"
     state |-> "Head", remaining |-> 0, line |-> << >>, trailers |-> 0,
     sequence |-> 0, active |-> FALSE,
     head |-> << >>, retained |-> << >>, observed |-> 0, truncated |-> FALSE]

-----------------------------------------------------------------------------
(* parse_head *)

CrLf == <<"cr", "lf">>
EndsWith(s, suffix) == IsSuffix(suffix, s)
DropLast(s, n) == SubSeq(s, 1, Len(s) - n)

\* content.split(lf), each line with trim_cr.
Lines(content) ==
    LET split == FoldLeft(LAMBDA lines, c :
                     IF c = "lf" THEN Append(lines, << >>)
                     ELSE [lines EXCEPT ![Len(lines)] = Append(@, c)],
                     << << >> >>, content)
    IN  [i \in DOMAIN split |-> IF EndsWith(split[i], <<"cr">>)
                                THEN DropLast(split[i], 1) ELSE split[i]]

\* split_header: the line is one header line.
IsHeader(line) == Len(line) = 1 /\ line[1] \in HeaderLines

Framing(kind, n) == [kind |-> kind, length |-> n]

\* The status codes whose response has no body, and what the request was.
NoBody(role, status) ==
    \/ role = "head"
    \/ status \in 100..199
    \/ status \in {204, 205, 304}
    \/ role = "connect" /\ status \in 200..299

Informational(status) == status \in 100..199 /\ status # 101

HeadFraming(start, headers, role) ==
    LET fields == {h[1] : h \in {h \in headers : IsHeader(h)}}
        lengths == fields \cap (DOMAIN ContentLength \cup {"clbad"})
        codings == fields \cap {"chunked", "gzip"}
        malformed ==
            \/ start = << >>
            \/ \E h \in headers : ~IsHeader(h)
            \/ lengths # {} /\ codings # {}
            \/ codings \notin {{}, {"chunked"}}
            \/ "clbad" \in lengths \/ Cardinality(lengths) > 1
            \/ role # "request" /\ start \notin {<<s>> : s \in DOMAIN Status}
        status == Status[start[1]]
    IN  IF malformed THEN Framing("error", 0)
        ELSE IF role # "request" /\ NoBody(role, status)
        THEN Framing(IF Informational(status) THEN "informational" ELSE "none", 0)
        ELSE IF codings # {} THEN Framing("chunked", 0)
        ELSE IF lengths # {} THEN Framing("fixed", ContentLength[CHOOSE f \in lengths : TRUE])
        ELSE Framing(IF role = "request" THEN "none" ELSE "close", 0)

SplitHead(lines, role) == HeadFraming(lines[1], {lines[i] : i \in 2..Len(lines)}, role)

parse_head(head, role) == SplitHead(Lines(DropLast(head, 4)), role)

\* parse_chunk_size reads the digits before an extension; -1 is its error.
parse_chunk_size(line) ==
    IF line # << >> /\ line[1] \in DOMAIN ChunkSize THEN ChunkSize[line[1]] ELSE -1

-----------------------------------------------------------------------------
(* push, eof and discard *)

\* append_bytes
Retain(f, bytes) ==
    LET count == LET room == MaxCapture - Len(f.retained) IN
                 IF room < Len(bytes) THEN room ELSE Len(bytes)
    IN  [f EXCEPT !.observed = @ + Len(bytes),
                  !.retained = @ \o SubSeq(bytes, 1, count),
                  !.truncated = @ \/ count < Len(bytes)]

Event(f, kind) == [kind |-> kind, sequence |-> f.sequence]

Message(f, informational) ==
    [kind |-> "Complete", sequence |-> f.sequence, bytes |-> f.retained,
     observed |-> f.observed, truncated |-> f.truncated, informational |-> informational]

\* One turn of the loop returns the framer, the input it used and its events.
Turn(f, used, events) == [framer |-> f, used |-> used, events |-> events]

\* complete and reset
Complete(f, used, informational) ==
    Turn([NewFramer(f.role) EXCEPT !.sequence = f.sequence + 1], used,
         <<Message(f, informational)>>)

Fail(f, used) == Turn([f EXCEPT !.state = "Failed"], used, <<Event(f, "Failed")>>)

Goes(f, state, used) == Turn([f EXCEPT !.state = state, !.line = << >>], used, << >>)

\* finish_head
HeadDone(g, framing) ==
    CASE framing.kind = "error" -> Fail(g, 1)
      [] framing.kind \in {"none", "informational"} ->
           Complete(g, 1, framing.kind = "informational")
      [] framing.kind = "fixed" /\ framing.length = 0 -> Complete(g, 1, FALSE)
      [] framing.kind = "fixed" /\ framing.length > 0 ->
           Turn([g EXCEPT !.state = "FixedBody", !.remaining = framing.length], 1, << >>)
      [] framing.kind = "chunked" -> Goes(g, "ChunkSize", 1)
      [] framing.kind = "close" -> Goes(g, "CloseDelimited", 1)

HeadByte(f, byte) ==
    LET g == [Retain(f, <<byte>>) EXCEPT !.head = Append(@, byte)]
    IN  CASE Len(g.head) > MaxHead -> Fail(g, 1)
          [] Len(g.head) <= MaxHead /\ ~EndsWith(g.head, CrLf \o CrLf) -> Turn(g, 1, << >>)
          [] OTHER -> HeadDone(g, parse_head(g.head, g.role))

\* FixedBody and ChunkData take as much of the input as remains of the body.
Counted(f, input) ==
    LET count == IF Len(input) < f.remaining THEN Len(input) ELSE f.remaining
        g == [Retain(f, SubSeq(input, 1, count)) EXCEPT !.remaining = @ - count]
    IN  CASE g.remaining > 0 -> Turn(g, count, << >>)
          [] g.remaining = 0 /\ f.state = "FixedBody" -> Complete(g, count, FALSE)
          [] OTHER -> Goes(g, "ChunkDataTerminator", count)

ChunkSizeByte(f, byte) ==
    LET g == [Retain(f, <<byte>>) EXCEPT !.line = Append(@, byte)]
        size == parse_chunk_size(DropLast(g.line, 2))
    IN  CASE Len(g.line) > MaxHead -> Fail(g, 1)
          [] Len(g.line) <= MaxHead /\ ~EndsWith(g.line, CrLf) -> Turn(g, 1, << >>)
          [] OTHER -> CASE size = -1 -> Fail(g, 1)
                        [] size = 0 -> Goes([g EXCEPT !.trailers = 0], "Trailers", 1)
                        [] OTHER -> Goes([g EXCEPT !.remaining = size], "ChunkData", 1)

\* Fault: the chunk's end is not compared with CRLF.
TerminatorByte_Loose(f, byte) ==
    LET g == Retain(f, <<byte>>) IN
    IF byte = "lf" THEN Goes(g, "ChunkSize", 1)
                   ELSE Turn([g EXCEPT !.line = Append(@, byte)], 1, << >>)

\* ChunkDataTerminator { matched }: the line holds what has matched.
TerminatorByte(f, byte) ==
    LET g == Retain(f, <<byte>>) IN
    CASE byte # CrLf[Len(f.line) + 1] -> Fail(g, 1)
      [] byte = CrLf[Len(f.line) + 1] /\ f.line = << >> ->
            Turn([g EXCEPT !.line = <<byte>>], 1, << >>)
      [] OTHER -> Goes(g, "ChunkSize", 1)

TrailerByte(f, byte) ==
    LET g == [Retain(f, <<byte>>) EXCEPT !.line = Append(@, byte), !.trailers = @ + 1]
    IN  CASE g.trailers > MaxHead -> Fail(g, 1)
          [] g.trailers <= MaxHead /\ ~EndsWith(g.line, CrLf) -> Turn(g, 1, << >>)
          [] OTHER -> CASE Len(g.line) = 2 -> Complete(g, 1, FALSE)
                        [] Len(g.line) # 2 /\ IsHeader(DropLast(g.line, 2)) ->
                              Goes(g, "Trailers", 1)
                        [] OTHER -> Fail(g, 1)

Loop(f, input) ==
    CASE f.state = "Head" -> HeadByte(f, input[1])
      [] f.state \in {"FixedBody", "ChunkData"} -> Counted(f, input)
      [] f.state = "ChunkSize" -> ChunkSizeByte(f, input[1])
      [] f.state = "ChunkDataTerminator" -> TerminatorByte(f, input[1])
      [] f.state = "Trailers" -> TrailerByte(f, input[1])
      [] f.state = "CloseDelimited" -> Turn(Retain(f, input), Len(input), << >>)

Prepend(events, pushed) == [framer |-> pushed.framer, events |-> events \o pushed.events]

RECURSIVE push(_, _)
Continue(f, turn, input) ==
    Prepend((IF f.active THEN << >> ELSE <<Event(f, "Started")>>) \o turn.events,
            push(turn.framer, SubSeq(input, turn.used + 1, Len(input))))

push(f, input) ==
    IF input = << >> \/ f.state = "Failed"
    THEN [framer |-> f, events |-> << >>]
    ELSE Continue(f, Loop([f EXCEPT !.active = TRUE], input), input)

eof(f) ==
    CASE f.state = "Failed" \/ (f.state = "Head" /\ ~f.active) -> Turn(f, 0, << >>)
      [] f.state = "CloseDelimited" -> Complete(f, 0, FALSE)
      [] OTHER -> Fail(f, 0)

discard(f) == [NewFramer(f.role) EXCEPT !.state = "Failed", !.sequence = f.sequence]

=============================================================================
