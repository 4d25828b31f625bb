SPECIFICATION FairSpec
CONSTANTS
    Program <- MCProgram
    Maximum = 2
    Modes = {"streaming", "preflight"}
    Enforcements = {"enforce", "observe"}
    Alphabet = {0, 1}
    ReadBuffer = 2
    Profiles <- MCProfiles
INVARIANTS
    RelaysInOrder
    DeniedIsHeldBack
    CountsAreHonest
PROPERTIES
    RelayEnds
