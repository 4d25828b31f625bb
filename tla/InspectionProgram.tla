------------------------- MODULE InspectionProgram -------------------------
(***************************************************************************)
(* The detector set of one policy generation and the per-direction         *)
(* matching state it gives a flow: crates/freja-policy/src/inspection.rs   *)
(* and the inspection budget of crates/freja-proxy/src/inspection.rs.      *)
(* Bytes are members of a small alphabet; a finding keeps its detector and *)
(* its byte range.  Severity, confidence, tags and evidence hashes change  *)
(* nothing downstream and are left out.                                    *)
(***************************************************************************)
EXTENDS Integers, SequencesExt

CONSTANTS
    Program,      \* sequence of [detector_id, bytes, directions, action]
    Maximum,      \* limits.body_prefix_bytes
    Modes,        \* the inspection modes a snapshot may have
    Enforcements  \* the enforcement modes a snapshot may have

\* InspectionPattern::new and InspectionProgram::new refuse empty patterns and
\* duplicate detectors; configuration refuses patterns longer than the prefix.
ASSUME ProgramAssumption ==
    /\ \A p \in ToSet(Program) :
          Len(p.bytes) \in 1..Maximum /\ p.action \in {"allow", "deny"}
    /\ \A i, j \in DOMAIN Program :
          Program[i].detector_id = Program[j].detector_id => i = j
ASSUME MaximumAssumption == Maximum \in Nat \ {0}
ASSUME ModeAssumption == Modes \subseteq {"streaming", "preflight"}
ASSUME EnforcementAssumption == Enforcements \subseteq {"enforce", "observe"}

Smaller(a, b) == IF a <= b THEN a ELSE b

\* usize::saturating_sub
Minus(a, b) == IF a >= b THEN a - b ELSE 0

Take(bytes, count) == SubSeq(bytes, 1, count)

\* Offsets, from 0, of the windows of haystack that equal needle.
match_offsets(haystack, needle) ==
    {o \in 0..(Len(haystack) - Len(needle)) :
        SubSeq(haystack, o + 1, o + Len(needle)) = needle}

maximum_pattern_bytes == Max({Len(p.bytes) : p \in ToSet(Program)} \cup {0})

PatternsFor(direction) == SelectSeq(Program, LAMBDA p : direction \in p.directions)

NewScanner == [carry |-> <<>>, processed_bytes |-> 0]

Finding(p, start) ==
    [detector_id |-> p.detector_id, start |-> start, end |-> start + Len(p.bytes)]

\* A pattern's matches at the given offsets of the searchable bytes, in order.
FindingsAt(p, base, offsets) ==
    LET sorted == SetToSortSeq(offsets, <)
    IN  [i \in DOMAIN sorted |-> Finding(p, base + sorted[i])]

\* Fault: matches inside the carry are reported again.
NewFindings_Repeats(direction, scanner, bytes) ==
    LET searchable == scanner.carry \o bytes
        base == Minus(scanner.processed_bytes, Len(scanner.carry))
        patterns == PatternsFor(direction)
    IN  FlattenSeq([i \in DOMAIN patterns |->
            FindingsAt(patterns[i], base, match_offsets(searchable, patterns[i].bytes))])

\* The findings one call reports, pattern by pattern: matches in carry and chunk
\* that end beyond the carry, at their offset in the whole stream.
NewFindings(direction, scanner, bytes) ==
    LET searchable == scanner.carry \o bytes
        base == Minus(scanner.processed_bytes, Len(scanner.carry))
        patterns == PatternsFor(direction)
        Completed(p) == {m \in match_offsets(searchable, p.bytes) :
                            m + Len(p.bytes) > Len(scanner.carry)}
    IN  FlattenSeq([i \in DOMAIN patterns |->
            FindingsAt(patterns[i], base, Completed(patterns[i]))])

\* Fault: every call starts with an empty carry.
NextCarry_Dropped(scanner, bytes) == <<>>

\* The suffix kept for a pattern split across calls.
NextCarry(scanner, bytes) ==
    LET searchable == scanner.carry \o bytes
        keep_from == Minus(Len(searchable), Minus(maximum_pattern_bytes, 1))
    IN  SubSeq(searchable, keep_from + 1, Len(searchable))

\* StreamScanner::inspect
inspect(direction, scanner, bytes) ==
    LET idle == bytes = <<>> \/ maximum_pattern_bytes = 0
    IN  [findings |-> IF idle THEN <<>> ELSE NewFindings(direction, scanner, bytes),
         scanner |-> [carry |-> IF idle THEN scanner.carry ELSE NextCarry(scanner, bytes),
                      processed_bytes |-> scanner.processed_bytes + Len(bytes)]]

\* InspectionProgram::evaluate and DecisionSnapshot::permits
Denied(enforcement, finding) ==
    /\ enforcement = "enforce"
    /\ \E p \in ToSet(Program) : p.detector_id = finding.detector_id /\ p.action = "deny"

\* permits publishes the findings in order and returns at the first denied one.
UpToDenial(enforcement, findings) ==
    LET first == SelectInSeq(findings, LAMBDA f : Denied(enforcement, f))
    IN  [findings |-> IF first = 0 THEN findings ELSE SubSeq(findings, 1, first),
         permitted |-> first = 0]

\* FlowInspector::new pins the modes of the decision snapshot it takes.
NewInspector(mode, enforcement) ==
    [mode |-> mode, enforcement |-> enforcement,
     scanner |-> NewScanner, inspected_bytes |-> 0]

\* How much of the budget a call uses up: preflight spends all of it at once.
Spend(inspector, count) ==
    IF inspector.mode = "preflight" THEN Maximum ELSE inspector.inspected_bytes + count

\* FlowInspector::permits for one direction, detection part.
permits(direction, inspector, bytes) ==
    LET count == Smaller(Minus(Maximum, inspector.inspected_bytes), Len(bytes))
        scan == inspect(direction, inspector.scanner, Take(bytes, count))
    IN  IF count = 0
        THEN [inspector |-> inspector, findings |-> <<>>, permitted |-> TRUE]
        ELSE UpToDenial(inspector.enforcement, scan.findings) @@
             [inspector |-> [inspector EXCEPT !.scanner = scan.scanner,
                                              !.inspected_bytes = Spend(inspector, count)]]

\* Reference definition: every occurrence of a pattern in a stream.
Occurrences(direction, stream) ==
    UNION {{Finding(p, o) : o \in match_offsets(stream, p.bytes)} :
           p \in ToSet(PatternsFor(direction))}
=============================================================================
