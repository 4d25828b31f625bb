----------------------------- MODULE WireCapture -----------------------------
(***************************************************************************)
(* Raw HTTP/1 capture for the terminal UI:                                 *)
(* crates/freja-proxy/src/http/wire/capture.rs over the framer of          *)
(* WireFraming. A request connection is read by hyper through              *)
(* RequestCaptureIo, in cuts of any size; hyper hands each parsed request  *)
(* to HttpService::handle, which binds its transaction to a capture; a     *)
(* CONNECT disables the capture and closing the connection aborts it. A    *)
(* response connection is read through ResponseCaptureIo for one           *)
(* transaction.                                                            *)
(***************************************************************************)
EXTENDS WireFraming, FiniteSets

CONSTANTS
    Exchanges,       \* what the peer sends: [role, messages] records; a message is
                     \* [text, head, end, informational], where head is the
                     \* length of its head and end says how it must be framed
    MaxRecords,      \* maximum_records: ui_retained_rows
    MaxRead          \* bound: symbols one poll_read returns

ASSUME RecordsAssumption == MaxRecords \in Nat \ {0} /\ MaxRead \in Nat \ {0}

VARIABLES
    peer,            \* the member of Exchanges on this connection
    read,            \* how many symbols were read
    bound,           \* how many requests hyper handed to the service
    connection,      \* "open", "eof" or "dropped"
    capture,         \* RequestCaptureState or ResponseCapture
    published        \* what reached the UI, by transaction

vars == <<peer, read, bound, connection, capture, published>>

Texts == [k \in DOMAIN peer.messages |-> peer.messages[k].text]
Stream == FlattenSeq(Texts)

\* RequestCaptureState
NewRequestCapture ==
    [framer |-> NewFramer("request"), records |-> << >>, dropped_tail |-> 0, enabled |-> TRUE]

\* ResponseCapture
NewResponseCapture(role) ==
    [framer |-> NewFramer(role), retained |-> << >>, observed |-> 0, truncated |-> FALSE,
     terminal |-> FALSE]

Init ==
    /\ peer \in Exchanges
    /\ read = 0
    /\ bound = IF peer.role = "request" THEN 0 ELSE 1
    /\ connection = "open"
    /\ capture = IF peer.role = "request" THEN NewRequestCapture
                 ELSE NewResponseCapture(peer.role)
    /\ published = << >>

Failed(transaction) == [transaction |-> transaction, kind |-> "Failed"]

Captured(transaction, message) ==
    [transaction |-> transaction, kind |-> "Complete", bytes |-> message.bytes,
     observed |-> message.observed, truncated |-> message.truncated]

\* bound_record
BoundRecord(record) ==
    IF record.result.kind = "Complete" THEN Captured(record.transaction, record.result)
                                       ELSE Failed(record.transaction)

-----------------------------------------------------------------------------
(* RequestCaptureState *)

Pending == [kind |-> "None"]

\* Fault: a start after a dropped one gets a record as soon as there is room.
Started_Refill(c, event) ==
    IF Len(c.records) = MaxRecords
    THEN [c EXCEPT !.dropped_tail = @ + 1]
    ELSE [c EXCEPT !.records = Append(@, [sequence |-> event.sequence, transaction |-> 0,
                                          result |-> Pending])]

\* A Started event: records never grow past MaxRecords, and once one start was
\* dropped so are the later ones until a bind has used the dropped ones up.
Started(c, event) ==
    IF c.dropped_tail > 0 \/ Len(c.records) = MaxRecords
    THEN [c EXCEPT !.dropped_tail = @ + 1]
    ELSE [c EXCEPT !.records = Append(@, [sequence |-> event.sequence, transaction |-> 0,
                                          result |-> Pending])]

\* set_result: a bound record is published and removed, an unbound one waits.
set_result(c, event) ==
    LET i == SelectInSeq(c.records, LAMBDA r : r.sequence = event.sequence) IN
    CASE i = 0 -> [capture |-> c, out |-> << >>]
      [] i # 0 /\ c.records[i].transaction = 0 ->
           [capture |-> [c EXCEPT !.records[i].result = event], out |-> << >>]
      [] OTHER ->
           [capture |-> [c EXCEPT !.records = RemoveAt(@, i)],
            out |-> <<BoundRecord([c.records[i] EXCEPT !.result = event])>>]

apply_events(c, events) ==
    FoldLeft(LAMBDA acc, event :
                 IF event.kind = "Started"
                 THEN [acc EXCEPT !.capture = Started(@, event)]
                 ELSE LET set == set_result(acc.capture, event) IN
                      [capture |-> set.capture, out |-> acc.out \o set.out],
             [capture |-> c, out |-> << >>], events)

Feed(bytes, atEof) ==
    LET pushed == push(capture.framer, bytes)
    IN  IF atEof THEN Prepend(pushed.events, eof(pushed.framer)) ELSE pushed

Apply(fed) == apply_events([capture EXCEPT !.framer = fed.framer], fed.events)

Publish(applied) == capture' = applied.capture /\ published' = published \o applied.out

\* observe: nothing once disabled or past the end of the stream.
RequestObserve(bytes, atEof) ==
    IF ~capture.enabled \/ connection # "open"
    THEN UNCHANGED <<capture, published>>
    ELSE Publish(Apply(Feed(bytes, atEof)))

\* bind: the oldest record without a transaction, or a failure for the UI.
bind(transaction) ==
    LET i == SelectInSeq(capture.records, LAMBDA r : r.transaction = 0) IN
    \/ /\ i # 0
       /\ IF capture.records[i].result = Pending
          THEN /\ capture' = [capture EXCEPT !.records[i].transaction = transaction]
               /\ UNCHANGED published
          ELSE /\ capture' = [capture EXCEPT !.records = RemoveAt(@, i)]
               /\ published' = Append(published,
                      BoundRecord([capture.records[i] EXCEPT !.transaction = transaction]))
    \/ /\ i = 0
       /\ published' = Append(published, Failed(transaction))
       /\ capture' = [capture EXCEPT !.dropped_tail = IF @ > 0 THEN @ - 1 ELSE 0]

\* Fault: the bound records are forgotten too.
abort_Silent ==
    /\ capture' = [capture EXCEPT !.enabled = FALSE, !.framer = discard(@), !.records = << >>]
    /\ UNCHANGED published

\* abort: every bound record fails, the unbound ones are forgotten.
abort ==
    LET left == SelectSeq(capture.records, LAMBDA r : r.transaction # 0) IN
    /\ capture' = [capture EXCEPT !.enabled = FALSE, !.framer = discard(@), !.records = << >>]
    /\ published' = published \o [i \in DOMAIN left |-> Failed(left[i].transaction)]

-----------------------------------------------------------------------------
(* ResponseCapture *)

\* append joins the informational messages and the final one under one bound.
JoinMessage(c, message) ==
    LET room == MaxCapture - Len(c.retained)
        count == IF room < Len(message.bytes) THEN room ELSE Len(message.bytes)
    IN  [c EXCEPT !.observed = @ + message.observed,
                  !.retained = @ \o SubSeq(message.bytes, 1, count),
                  !.truncated = @ \/ message.truncated \/ count < Len(message.bytes)]

ResponseEvent(acc, event) ==
    LET joined == JoinMessage(acc.capture, event) IN
    CASE event.kind = "Started" -> acc
      [] event.kind = "Failed" ->
           [capture |-> [acc.capture EXCEPT !.terminal = TRUE], out |-> Append(acc.out, Failed(1))]
      [] event.kind = "Complete" /\ event.informational -> [acc EXCEPT !.capture = joined]
      [] event.kind = "Complete" /\ ~event.informational ->
           [capture |-> [joined EXCEPT !.terminal = TRUE, !.retained = << >>],
            out |-> Append(acc.out, Captured(1, [bytes |-> joined.retained,
                                                 observed |-> joined.observed,
                                                 truncated |-> joined.truncated]))]

ApplyResponse(fed) ==
    FoldLeft(ResponseEvent, [capture |-> [capture EXCEPT !.framer = fed.framer], out |-> << >>],
             fed.events)

ResponseObserve(bytes, atEof) ==
    IF capture.terminal
    THEN UNCHANGED <<capture, published>>
    ELSE Publish(ApplyResponse(Feed(bytes, atEof)))

ResponseAbort ==
    IF capture.terminal
    THEN UNCHANGED <<capture, published>>
    ELSE /\ published' = Append(published, Failed(1))
         /\ capture' = [capture EXCEPT !.terminal = TRUE]

-----------------------------------------------------------------------------
(* The connection *)

Observe(bytes, atEof) ==
    IF peer.role = "request" THEN RequestObserve(bytes, atEof) ELSE ResponseObserve(bytes, atEof)

\* poll_read returns n symbols, whatever the cut.
Read(n) ==
    /\ connection = "open"
    /\ n \in 1..(Len(Stream) - read)
    /\ read' = read + n
    /\ Observe(SubSeq(Stream, read + 1, read + n), FALSE)
    /\ UNCHANGED <<peer, bound, connection>>

\* poll_read returns nothing: the peer closed its side, perhaps mid-message.
ReadEof ==
    /\ connection = "open"
    /\ connection' = "eof"
    /\ Observe(<< >>, TRUE)
    /\ UNCHANGED <<peer, read, bound>>

HeadEnd(k) == Len(FlattenSeq(SubSeq(Texts, 1, k - 1))) + peer.messages[k].head
End(k) == Len(FlattenSeq(SubSeq(Texts, 1, k)))

\* HttpService::handle: hyper has parsed the next request's head.
Bind ==
    /\ peer.role = "request"
    /\ connection # "dropped"
    /\ bound < Len(peer.messages)
    /\ HeadEnd(bound + 1) <= read
    /\ bound' = bound + 1
    /\ bind(bound + 1)
    /\ UNCHANGED <<peer, read, connection>>

\* RequestCaptureHandle::disable, once a CONNECT is answered.
Disable ==
    /\ peer.role = "request"
    /\ connection # "dropped"
    /\ bound > 0
    /\ capture.enabled
    /\ abort
    /\ UNCHANGED <<peer, read, bound, connection>>

\* Drop of RequestCaptureIo and of ResponseCaptureIo.
DropConnection ==
    /\ connection # "dropped"
    /\ connection' = "dropped"
    /\ IF peer.role = "request" THEN abort ELSE ResponseAbort
    /\ UNCHANGED <<peer, read, bound>>

Next ==
    \/ \E n \in 1..MaxRead : Read(n)
    \/ ReadEof \/ Bind \/ Disable \/ DropConnection

Spec == Init /\ [][Next]_vars

-----------------------------------------------------------------------------
(* Properties *)

Messages == DOMAIN peer.messages
Whole(k) == /\ \A j \in 1..k : peer.messages[j].end # "malformed"
            /\ IF peer.messages[k].end = "close" THEN connection = "eof" /\ HeadEnd(k) <= read
                                                ELSE End(k) <= read

\* The capture still feeds its framer.
Watching == IF peer.role = "request" THEN capture.enabled ELSE ~capture.terminal

\* Http1Framer::push finds the same message boundaries wherever the reads were
\* cut, bodies that contain line ends included: it has counted as many messages
\* as were read to their end, is inside a message exactly when one was begun, and
\* is in Failed only at or behind a malformed message or a truncated stream.
FramesExactly ==
    LET f == capture.framer
        whole == {k \in Messages : Whole(k)}
        open == connection = "open"
    IN
    Watching =>
        /\ f.sequence = Cardinality(whole)
        /\ f.state # "Failed" /\ open =>
              (f.active <=> read > 0 /\ \A k \in Messages : Whole(k) => End(k) # read)
        /\ f.state = "Failed" =>
              \/ peer.messages[Cardinality(whole) + 1].end = "malformed"
              \/ connection = "eof"
        /\ \A k \in Messages : peer.messages[k].end = "malformed" /\ End(k) <= read =>
              f.state = "Failed"

Prefix(text) == IF Len(text) > MaxCapture THEN SubSeq(text, 1, MaxCapture) ELSE text

\* The final response, with the informational ones before it; one that the end of
\* the stream delimits is what was read.
FinalText ==
    LET final == SelectInSeq(peer.messages, LAMBDA m : ~m.informational)
    IN  IF peer.messages[final].end = "close" THEN SubSeq(Stream, 1, read)
                                              ELSE SubSeq(Stream, 1, End(final))

\* ADR 0006 promises that Raw content is exact within its bound and marked beyond
\* it. A capture published as complete for a transaction holds the bytes of that
\* very message, in a pipeline of requests and past dropped correlations too, or
\* of the informational responses and the final one; its count is their length
\* and its flag says whether the bound cut it.
CapturesAreExact ==
    \A i \in DOMAIN published :
        LET p == published[i]
            text == IF peer.role = "request" THEN Texts[p.transaction] ELSE FinalText
        IN  p.kind = "Complete" =>
                /\ p.bytes = Prefix(text)
                /\ p.observed = Len(text)
                /\ p.truncated = (Len(text) > MaxCapture)

Answers(k) == {i \in DOMAIN published : published[i].transaction = k}

\* No transaction gets a second capture; when the connection is gone each bound
\* one has its answer; and a request that was read to its end behind well-formed
\* ones, with capture enabled and the correlation limit never reached, was captured.
EveryBindAnswered ==
    /\ peer.role = "request" => Len(capture.records) <= MaxRecords
    /\ \A k \in 1..bound :
          /\ Cardinality(Answers(k)) <= 1
          /\ connection = "dropped" => Cardinality(Answers(k)) = 1
          /\ peer.role = "request" /\ capture.enabled /\ Whole(k) /\ Len(peer.messages) <= MaxRecords =>
                \E i \in Answers(k) : published[i].kind = "Complete"

=============================================================================
