\* Two roles, one command at a time, no failures.
SPECIFICATION ArtifactsSpec
CONSTANTS
    o1 = o1  o2 = o2  rep = rep
    Owners = {o1, o2}
    Ready = {o2}
    Rep = rep
    CIDs = {"cid1", "cid2"}
    Fees = {1, 2}
    MaxContracts = 2
    MaxRequests = 2
    MaxSurprises = 1
    Roles = {"client", "auditor"}
    Versions = {1, 2}
    Files <- TheFiles
    Key <- TheKeys
    Plan <- ThePlan
    Requirements <- Req
    Pins <- ThePins
    DP <- OffThenGaussian
    Providers = {"env"}
    MaxRunning = 1
    MaxBegun = 4
    MaxFailures = 0
CHECK_DEADLOCK FALSE
INVARIANT RequirementsAreTheOnesPinned
