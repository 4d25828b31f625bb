--------------------------- MODULE FlowInspector ---------------------------
(***************************************************************************)
(* One direction of a FlowInspector (crates/freja-proxy/src/inspection.rs):*)
(* the chunks of one stream pass through permits in order, which captures  *)
(* a bounded prefix for the audit, copies a bounded prefix to the UI, and  *)
(* scans a bounded prefix for patterns, however the stream was cut into    *)
(* chunks.                                                                 *)
(***************************************************************************)
EXTENDS InspectionProgram

CONSTANTS
    Alphabet,       \* byte values
    Direction,      \* the direction this inspector scans
    CapturePrefix,  \* capture.max_bytes; 0: metadata only
    UiContent,      \* limits.ui_content_bytes
    MaxStream,      \* bound: bytes in the stream
    MaxChunk        \* bound: bytes in a chunk

ASSUME CaptureAssumption == CapturePrefix \in Nat
ASSUME UiAssumption == UiContent \in Nat \ {0}

VARIABLES
    stream,      \* history: every byte passed to permits
    first_chunk, \* history: length of the first chunk that is not empty
    inspector,   \* scanner and budget of this direction
    blocked,     \* permits returned false; the flow sends no more
    reported,    \* history: findings published, in order
    captured,    \* history: bytes published as PayloadPrefixCaptured
    captured_bytes,
    ui_events,   \* history: BodyPrefix events
    ui_observed_bytes, ui_retained_bytes, ui_truncation_reported

scanVars == <<stream, first_chunk, inspector, blocked, reported>>
captureVars == <<captured, captured_bytes>>
uiVars == <<ui_events, ui_observed_bytes, ui_retained_bytes, ui_truncation_reported>>
vars == <<scanVars, captureVars, uiVars>>

Init ==
    /\ stream = <<>>
    /\ first_chunk = 0
    /\ \E mode \in Modes, enforcement \in Enforcements :
          inspector = NewInspector(mode, enforcement)
    /\ blocked = FALSE
    /\ reported = <<>>
    /\ captured = <<>>
    /\ captured_bytes = 0
    /\ ui_events = <<>>
    /\ ui_observed_bytes = 0
    /\ ui_retained_bytes = 0
    /\ ui_truncation_reported = FALSE

\* Fault: the offset is read after the counter was advanced.
publish_ui_prefix_LateOffset(bytes) ==
    LET retained == Smaller(Minus(UiContent, ui_retained_bytes), Len(bytes))
        truncated == retained < Len(bytes)
        silent == retained = 0 /\ (~truncated \/ ui_truncation_reported)
    IN  /\ ui_observed_bytes' = ui_observed_bytes + Len(bytes)
        /\ ui_retained_bytes' = ui_retained_bytes + retained
        /\ ui_truncation_reported' = (ui_truncation_reported \/ (truncated /\ ~silent))
        /\ ui_events' = IF silent THEN ui_events
                        ELSE Append(ui_events, [bytes |-> Take(bytes, retained),
                                                offset |-> ui_observed_bytes',
                                                observed |-> ui_observed_bytes',
                                                truncated |-> truncated])

\* FlowInspector::publish_ui_prefix
publish_ui_prefix(bytes) ==
    LET retained == Smaller(Minus(UiContent, ui_retained_bytes), Len(bytes))
        truncated == retained < Len(bytes)
        silent == retained = 0 /\ (~truncated \/ ui_truncation_reported)
    IN  /\ ui_observed_bytes' = ui_observed_bytes + Len(bytes)
        /\ ui_retained_bytes' = ui_retained_bytes + retained
        /\ ui_truncation_reported' = (ui_truncation_reported \/ (truncated /\ ~silent))
        /\ ui_events' = IF silent THEN ui_events
                        ELSE Append(ui_events, [bytes |-> Take(bytes, retained),
                                                offset |-> ui_observed_bytes,
                                                observed |-> ui_observed_bytes',
                                                truncated |-> truncated])

\* FlowInspector::capture
capture(bytes) ==
    LET count == Smaller(Minus(CapturePrefix, captured_bytes), Len(bytes))
    IN  /\ captured_bytes' = captured_bytes + count
        /\ captured' = captured \o Take(bytes, count)

\* One call of permits.
Permits(bytes) ==
    LET step == permits(Direction, inspector, bytes)
    IN  /\ ~blocked
        /\ Len(stream) + Len(bytes) <= MaxStream
        /\ publish_ui_prefix(bytes)
        /\ capture(bytes)
        /\ inspector' = step.inspector
        /\ blocked' = ~step.permitted
        /\ reported' = reported \o step.findings
        /\ stream' = stream \o bytes
        /\ first_chunk' = IF inspector.inspected_bytes = 0 THEN Len(stream') ELSE first_chunk

Next == \E bytes \in BoundedSeq(Alphabet, MaxChunk) : Permits(bytes)

Spec == Init /\ [][Next]_vars

-----------------------------------------------------------------------------
(* Properties *)

\* The part of the stream the mode promises to inspect: the first Maximum bytes
\* when streaming, the first Maximum bytes of the first chunk in preflight ("later
\* bytes do not restart inspection").
InspectedPrefix ==
    LET scope == IF inspector.mode = "preflight" THEN first_chunk ELSE Len(stream)
    IN  Take(stream, Smaller(Maximum, scope))

ActionOf(finding) ==
    (CHOOSE p \in ToSet(Program) : p.detector_id = finding.detector_id).action

\* Exactly-once detection: whatever the chunk boundaries, the findings published
\* are the occurrences of the patterns in the inspected prefix, each at its own
\* offset and each published once.  The flow is blocked exactly when one of them
\* is denied and the mode enforces; then the denied one was published last.
FindingsAreExact ==
    LET found == Occurrences(Direction, InspectedPrefix)
    IN  /\ ToSet(reported) \subseteq found
        /\ Len(reported) = Cardinality(ToSet(reported))
        /\ IF blocked THEN ActionOf(Last(reported)) = "deny" ELSE ToSet(reported) = found
        /\ blocked <=> /\ inspector.enforcement = "enforce"
                       /\ \E f \in found : ActionOf(f) = "deny"

\* The copies are honest: the audit captures precisely the first CapturePrefix
\* bytes of the stream; every UI event shows bytes at their true offset, together
\* they are the first UiContent bytes, and a cut is announced, once.
CopiesArePrefixes ==
    LET cuts == SelectSeq(ui_events, LAMBDA e : e.truncated)
    IN  /\ captured = Take(stream, Smaller(CapturePrefix, Len(stream)))
        /\ \A i \in DOMAIN ui_events :
              LET e == ui_events[i]
              IN  /\ e.offset + Len(e.bytes) <= e.observed
                  /\ e.observed <= Len(stream)
                  /\ e.bytes = SubSeq(stream, e.offset + 1, e.offset + Len(e.bytes))
        /\ FoldLeft(LAMBDA shown, e : shown \o e.bytes, <<>>, ui_events)
              = Take(stream, Smaller(UiContent, Len(stream)))
        /\ Len(cuts) = (IF Len(stream) > UiContent THEN 1 ELSE 0)
=============================================================================
