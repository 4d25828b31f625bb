SPECIFICATION FairSpec
CONSTANTS
    http = http
    other = other
    Listeners = {http, other}
    Kind <- MCKind
    Conns = {c1, c2}
    Connections = 1
    Tasks = {1}
INVARIANTS
    ConnectionsBounded
    
    CleanExitIsHonest
CHECK_DEADLOCK FALSE

    
