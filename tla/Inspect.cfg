SPECIFICATION Spec
CONSTANTS
    Program <- MCProgram
    Maximum = 5
    Modes = {"streaming", "preflight"}
    Enforcements = {"enforce", "observe"}
    Alphabet = {0, 1}
    Direction = "client-to-upstream"
    CapturePrefix = 3
    UiContent = 4
    MaxStream = 8
    MaxChunk = 6
CHECK_DEADLOCK FALSE
INVARIANTS
    FindingsAreExact
    CopiesArePrefixes
