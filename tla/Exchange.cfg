\* One HTTP exchange of each kind: forwarded, intercepted, CONNECT, repeated.
SPECIFICATION RepeatSpec
CONSTANTS
    Configurations <- MCConfigurations
    Requests <- MCRequests
    Responses <- MCResponses
    Resolutions <- MCResolutions
    Policies <- MCPolicies
    DeniedStatuses = {"500"}
    Maximum = 2
    UiBytes = 1
    Replacements <- MCReplacements
    Frames = {1, 2}
    Sources <- MCSources
    Edits <- MCEdits
    RetainedRows = 2
    keep = keep
    failed = failed
    none = none
INVARIANTS
    SentOnlyIfAuthorized
    FramingMatchesBody
    
    
    InFlightIsOutstanding

    
CHECK_DEADLOCK FALSE
