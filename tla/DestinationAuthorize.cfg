SPECIFICATION FairSpec
CONSTANTS
    Hosts <- MCHosts
    Addresses = {1, 2}
    IpHosts <- MCIpHosts
    Policies <- MCPolicies
    Guards <- MCGuards
    Candidates <- MCCandidates
    MaxGeneration = 2
INVARIANTS
    OneGeneration
    ConnectNeedsFullAuthorization
    DetourIsOfThePolicy
    EndedByPolicyIsRecorded

    
