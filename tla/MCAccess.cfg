CONSTANTS
    Hosted = {"code", "paste"}
    Folder = {"nas"}
    Method <- MCMethod
    Flow = {f1, f2}
    MaxLaunches = 2
    None = None
    Call = {c1, c2}
    MaxTokens = 3
    MaxGrants = 1
    MaxKeys = 2
    Server = {s1, s2}
    MaxMint = 3
SPECIFICATION AccessSpec
CHECK_DEADLOCK FALSE
INVARIANTS
    SetUpStays
    RefusedForCause
    ClientTrustsServers
PROPERTIES
    SignInEnds
