------------------------------ MODULE TcpRelay ------------------------------
(***************************************************************************)
(* The bidirectional relay that static TCP, SOCKS5 and CONNECT tunnels     *)
(* share (crates/freja-proxy/src/tcp/relay.rs), run between two            *)
(* independent peers, with the closing audit record of a static TCP        *)
(* session (tcp/session.rs).                                               *)
(*                                                                         *)
(* The relay is one task: while it inspects or writes a chunk it reads     *)
(* nothing.  Timers are abstracted to choices: a deadline that is armed    *)
(* may fire at any moment.                                                 *)
(***************************************************************************)
EXTENDS InspectionProgram

CONSTANTS
    Alphabet,     \* byte values
    ReadBuffer,   \* RELAY_READ_BUFFER_BYTES
    Profiles      \* [mode, enforcement, hooks, sent]: a relay's settings, with what
                  \* its chunk hooks may return ("keep", "drop", "fail", or "replace"
                  \* by one byte) and the bytes each direction's source sends

Directions == {"client-to-upstream", "upstream-to-client"}

ASSUME ReadBufferAssumption == ReadBuffer \in Nat \ {0}
ASSUME ProfileAssumption ==
    \A p \in Profiles :
        /\ p.mode \in Modes /\ p.enforcement \in Enforcements
        /\ p.hooks \subseteq {"keep", "drop", "replace", "fail"}
        /\ p.sent \in [Directions -> Nat]

VARIABLES
    sent,         \* history: bytes the source peer has sent
    unread,       \* the part of them the relay has not read
    eof,          \* the source peer has closed its sending side
    out,          \* bytes written to the destination peer
    fin,          \* the destination peer has been shut down for writing
    shutdown,     \* the latched ShutdownSignal
    open,         \* client_open, upstream_open
    preflight,    \* client_preflight, upstream_preflight
    inspector,    \* FlowInspector, per direction
    released,     \* history: length of the preflight batch, once released
    stats,        \* RelayStats
    phase,        \* where the relay task is
    chunk,        \* the chunk forward_chunk works on
    termination,  \* RelayTermination, or "error"
    audited,      \* the byte counts of the FlowClosed record
    profile       \* the relay's settings

peerVars == <<sent, unread, eof>>
flowVars == <<open, preflight, inspector, released>>
vars == <<peerVars, flowVars, out, fin, shutdown, stats, phase, chunk, termination, audited, profile>>

-----------------------------------------------------------------------------
(* PreflightBuffer *)

Pending == [state |-> "pending", bytes |-> <<>>, deadline |-> FALSE]

Released == [state |-> "released", bytes |-> <<>>, deadline |-> FALSE]

\* PreflightBuffer::new
NewPreflight(mode) == IF mode = "preflight" THEN Pending ELSE Released

read_size(p) ==
    IF p.state = "pending" THEN Smaller(Minus(Maximum, Len(p.bytes)), ReadBuffer)
    ELSE ReadBuffer

\* push returns None: the bytes stay in the buffer.
Holds(p, input) == p.state = "pending" /\ Len(p.bytes \o input) < Maximum

-----------------------------------------------------------------------------
(* Peers and the shutdown signal *)

NoChunk == [direction |-> "none", bytes |-> <<>>, eof |-> FALSE]

Init ==
    /\ sent = [d \in Directions |-> <<>>]
    /\ unread = [d \in Directions |-> <<>>]
    /\ eof = [d \in Directions |-> FALSE]
    /\ out = [d \in Directions |-> <<>>]
    /\ fin = [d \in Directions |-> FALSE]
    /\ shutdown = FALSE
    /\ open = [d \in Directions |-> TRUE]
    /\ profile \in Profiles
    /\ preflight = [d \in Directions |-> NewPreflight(profile.mode)]
    /\ inspector = [d \in Directions |-> NewInspector(profile.mode, profile.enforcement)]
    /\ released = [d \in Directions |-> 0]
    /\ stats = [d \in Directions |-> 0]
    /\ phase = "select"
    /\ chunk = NoChunk
    /\ termination = "none"
    /\ audited = [d \in Directions |-> 0]

Running == termination = "none"

PeerSends(d) ==
    /\ Running
    /\ ~eof[d]
    /\ Len(sent[d]) < profile.sent[d]
    /\ \E b \in Alphabet : /\ sent' = [sent EXCEPT ![d] = Append(@, b)]
                           /\ unread' = [unread EXCEPT ![d] = Append(@, b)]
    /\ UNCHANGED <<eof, flowVars, out, fin, shutdown, stats, phase, chunk, termination, audited, profile>>

PeerCloses(d) ==
    /\ Running
    /\ ~eof[d]
    /\ eof' = [eof EXCEPT ![d] = TRUE]
    /\ UNCHANGED <<sent, unread, flowVars, out, fin, shutdown, stats, phase, chunk,
                   termination, audited, profile>>

\* ShutdownSender::shutdown
SignalShutdown ==
    /\ Running
    /\ ~shutdown
    /\ shutdown' = TRUE
    /\ UNCHANGED <<peerVars, flowVars, out, fin, stats, phase, chunk, termination, audited, profile>>

-----------------------------------------------------------------------------
(* The select loop *)

Return(t) ==
    /\ termination' = t
    /\ phase' = "returned"
    /\ chunk' = NoChunk

\* Top of the loop: both directions have ended.
Completed ==
    /\ phase = "select"
    /\ \A d \in Directions : ~open[d]
    /\ Return("completed")
    /\ UNCHANGED <<peerVars, flowVars, out, fin, shutdown, stats, audited, profile>>

Selecting == phase = "select" /\ \E d \in Directions : open[d]

SelectShutdown ==
    /\ Selecting
    /\ shutdown
    /\ Return("shutdown")
    /\ UNCHANGED <<peerVars, flowVars, out, fin, shutdown, stats, audited, profile>>

SelectIdle ==
    /\ Selecting
    /\ Return("idle-timeout")
    /\ UNCHANGED <<peerVars, flowVars, out, fin, shutdown, stats, audited, profile>>

\* Enter forward_chunk with the bytes that leave the preflight buffer.
Forward(d, bytes, at_eof) ==
    /\ preflight' = [preflight EXCEPT ![d] = Released]
    /\ released' = [released EXCEPT ![d] =
                      IF preflight[d].state = "pending" THEN Len(bytes) ELSE @]
    /\ chunk' = [direction |-> d, bytes |-> bytes, eof |-> at_eof]
    /\ phase' = "process"

\* The preflight deadline fires: a short prefix is released.
PreflightExpires(d) ==
    /\ Selecting
    /\ preflight[d].deadline
    /\ Forward(d, preflight[d].bytes, FALSE)
    /\ UNCHANGED <<peerVars, open, inspector, out, fin, shutdown, stats, termination, audited, profile>>

\* A read returns data: push it, forward what push releases.
Read(d) ==
    /\ Selecting
    /\ open[d]
    /\ \E n \in 1..Smaller(read_size(preflight[d]), Len(unread[d])) :
         LET input == Take(unread[d], n)
         IN  /\ unread' = [unread EXCEPT ![d] = SubSeq(@, n + 1, Len(@))]
             /\ IF Holds(preflight[d], input)
                THEN /\ preflight' = [preflight EXCEPT ![d].bytes = @ \o input,
                                                       ![d].deadline = TRUE]
                     /\ UNCHANGED <<released, chunk, phase>>
                ELSE Forward(d, preflight[d].bytes \o input, FALSE)
    /\ UNCHANGED <<sent, eof, open, inspector, out, fin, shutdown, stats, termination, audited, profile>>

\* Fault: the other stream is shut down before the preflight buffer is released.
ReadEof_ClosesFirst(d) ==
    /\ Selecting
    /\ open[d]
    /\ unread[d] = <<>> /\ eof[d]
    /\ fin' = [fin EXCEPT ![d] = TRUE]
    /\ Forward(d, preflight[d].bytes, TRUE)
    /\ UNCHANGED <<peerVars, open, inspector, out, shutdown, stats, termination, audited, profile>>

\* A read returns 0: release the preflight buffer, then half-close.  A read into
\* a buffer of size 0 returns 0 as well.
ReadEof(d) ==
    /\ Selecting
    /\ open[d]
    /\ (unread[d] = <<>> /\ eof[d]) \/ read_size(preflight[d]) = 0
    /\ IF preflight[d].bytes # <<>>
       THEN Forward(d, preflight[d].bytes, TRUE)
       ELSE /\ preflight' = [preflight EXCEPT ![d] = Released]
            /\ chunk' = [direction |-> d, bytes |-> <<>>, eof |-> TRUE]
            /\ phase' = "half_close"
            /\ UNCHANGED released
    /\ UNCHANGED <<peerVars, open, inspector, out, fin, shutdown, stats, termination, audited, profile>>

ReadFails(d) ==
    /\ Selecting
    /\ open[d]
    /\ Return("error")
    /\ UNCHANGED <<peerVars, flowVars, out, fin, shutdown, stats, audited, profile>>

-----------------------------------------------------------------------------
(* forward_chunk *)

\* The branch that called forward_chunk goes on: half-close after an EOF, the
\* next turn of the loop otherwise.
Resume ==
    IF chunk.eof THEN phase' = "half_close" /\ chunk' = [chunk EXCEPT !.bytes = <<>>]
    ELSE phase' = "select" /\ chunk' = NoChunk

\* run_tcp_hook: the plan that the hooks come to and the bytes it leaves; with
\* hooks disabled it keeps the chunk.
run_tcp_hook(bytes) ==
    [plan : profile.hooks \ {"replace"}, bytes : {bytes}]
        \cup [plan : profile.hooks \cap {"replace"}, bytes : {<<b>> : b \in Alphabet}]

\* process_chunk: inspection, then the chunk hooks.
Process ==
    LET d == chunk.direction
        step == permits(d, inspector[d], chunk.bytes)
    IN  /\ phase = "process"
        /\ inspector' = [inspector EXCEPT ![d] = step.inspector]
        /\ \/ /\ ~step.permitted
              /\ Return("inspection-blocked")
           \/ /\ step.permitted
              /\ \E hooked \in run_tcp_hook(chunk.bytes) :
                    CASE hooked.plan = "fail" -> Return("error")
                      [] hooked.plan = "drop" -> Resume /\ UNCHANGED termination
                      [] hooked.plan \in {"keep", "replace"} ->
                           /\ chunk' = [chunk EXCEPT !.bytes = hooked.bytes]
                           /\ phase' = "write"
                           /\ UNCHANGED termination
        /\ UNCHANGED <<peerVars, open, preflight, released, out, fin, shutdown, stats, audited, profile>>

\* A fail-closed audit publication inside process_chunk fails.
AuditFails ==
    /\ phase = "process"
    /\ Return("error")
    /\ UNCHANGED <<peerVars, flowVars, out, fin, shutdown, stats, audited, profile>>

WriteOut(n) ==
    out' = [out EXCEPT ![chunk.direction] = @ \o Take(chunk.bytes, n)]

\* write_all completes.
WriteCompletes ==
    /\ phase = "write"
    /\ WriteOut(Len(chunk.bytes))
    /\ stats' = [stats EXCEPT ![chunk.direction] = @ + Len(chunk.bytes)]
    /\ Resume
    /\ UNCHANGED <<peerVars, flowVars, fin, shutdown, termination, audited, profile>>

\* Fault: a chunk is counted before it is written.
WriteStops_Counted(t) ==
    /\ phase = "write"
    /\ \E n \in 0..(Len(chunk.bytes) - 1) : WriteOut(n)
    /\ stats' = [stats EXCEPT ![chunk.direction] = @ + Len(chunk.bytes)]
    /\ Return(t)
    /\ UNCHANGED <<peerVars, flowVars, fin, shutdown, audited, profile>>

\* write_with_controls gives up on write_all, part of which may be done.
WriteStops(t) ==
    /\ phase = "write"
    /\ \E n \in 0..(Len(chunk.bytes) - 1) : WriteOut(n)
    /\ Return(t)
    /\ UNCHANGED <<peerVars, flowVars, fin, shutdown, stats, audited, profile>>

WriteShutdown == shutdown /\ WriteStops("shutdown")

\* Fault: the write does not race the idle deadline.
WriteIdle_Missing == FALSE

WriteIdle == WriteStops("idle-timeout")

WriteFails == WriteStops("error")

\* After an EOF: mark the direction closed and shut the other stream down.
HalfClose ==
    LET d == chunk.direction
    IN  /\ phase = "half_close"
        /\ open' = [open EXCEPT ![d] = FALSE]
        /\ \/ /\ fin' = [fin EXCEPT ![d] = TRUE]
              /\ phase' = "select"
              /\ chunk' = NoChunk
              /\ UNCHANGED termination
           \/ Return("error") /\ UNCHANGED fin
        /\ UNCHANGED <<peerVars, preflight, inspector, released, out, shutdown, stats, audited, profile>>

\* run_static_session: the FlowClosed record, with RelayStats::default() when
\* the relay returned an error.
PublishFlowClosed ==
    /\ phase = "returned"
    /\ phase' = "closed"
    /\ audited' = IF termination = "error" THEN [d \in Directions |-> 0] ELSE stats
    /\ UNCHANGED <<peerVars, flowVars, out, fin, shutdown, stats, chunk, termination, profile>>

Stop == SelectShutdown \/ WriteShutdown

IdleFires == SelectIdle \/ WriteIdle

Task == Process \/ HalfClose \/ Completed \/ PublishFlowClosed

Ended == phase = "closed" /\ UNCHANGED vars

Next ==
    \/ \E d \in Directions : PeerSends(d) \/ PeerCloses(d)
    \/ SignalShutdown
    \/ \E d \in Directions : PreflightExpires(d) \/ Read(d) \/ ReadEof(d) \/ ReadFails(d)
    \/ AuditFails \/ WriteCompletes \/ WriteFails
    \/ Stop \/ IdleFires \/ Task
    \/ Ended

Spec == Init /\ [][Next]_vars

\* The task is polled whenever it is ready.  Nothing makes a peer send, read or
\* close, and each property adds the one wake-up it is about.
FairSpec == Spec /\ WF_vars(Task)

-----------------------------------------------------------------------------
(* Properties *)

InFlight(d) == IF chunk.direction = d THEN chunk.bytes ELSE <<>>

\* Without mutating hooks the relay is a pipe: while it runs, what was written,
\* the chunk being forwarded, the preflight buffer and the socket add up to what
\* the peer sent, in order; nothing is lost, duplicated or overtaken, and what a
\* stopped relay has written is a prefix of it.  A peer sees end-of-stream only
\* after every byte sent before it: an EOF flushes a half-filled preflight buffer.
RelaysInOrder ==
    profile.hooks \subseteq {"keep", "fail"} =>
        \A d \in Directions :
            /\ IsPrefix(out[d], sent[d])
            /\ fin[d] => eof[d] /\ out[d] = sent[d]
            /\ Running => out[d] \o InFlight(d) \o preflight[d].bytes \o unread[d] = sent[d]

\* In enforce mode no peer ever receives a complete denied pattern from the part
\* of the stream that is inspected: the first Maximum bytes when streaming, the
\* first batch in preflight.  There, nothing leaves Freja before the batch was
\* inspected, and a batch with a denied pattern leaves nothing at all.
DeniedIsHeldBack ==
    \A d \in Directions :
        LET preflighted == inspector[d].mode = "preflight"
            prefix == Take(out[d], Smaller(IF preflighted THEN released[d] ELSE Maximum, Len(out[d])))
            Clean(bytes) == \A f \in Occurrences(d, bytes) : ~Denied(inspector[d].enforcement, f)
        IN  /\ profile.hooks \subseteq {"keep", "fail"} => Clean(prefix)
            /\ preflighted /\ out[d] # <<>> =>
                  /\ preflight[d].state = "released"
                  /\ inspector[d].inspected_bytes = Maximum
                  /\ Clean(Take(sent[d], released[d]))

\* The byte counts of a FlowClosed record never claim more than was written, fall
\* short only of a write that was cut off, and are exact for a completed flow.
CountsAreHonest ==
    phase = "closed" /\ termination # "error" =>
        \A d \in Directions :
            /\ audited[d] <= Len(out[d])
            /\ Len(out[d]) - audited[d] < Max({ReadBuffer, Maximum})
            /\ termination = "completed" => audited[d] = Len(out[d])

\* The relay stops once shutdown is signalled, also when the destination peer
\* never reads and the write never completes; and the idle deadline alone ends
\* it when peers stall, in the select loop and inside a blocked write.  Neither
\* shutdown nor a closed relay is ever taken back.
RelayEnds ==
    /\ WF_vars(Stop) => []<>(shutdown => phase = "closed")
    /\ WF_vars(IdleFires) => []<>(phase = "closed")
=============================================================================
