\* Two owners and the DIN-Representative, one lost receipt, failed send, kill or new fee;
\* two roles on a machine, one command at a time: three of them, two failures, two
\* manifests that may alternate.
SPECIFICATION ModelSpec
CONSTANTS
    o1 = o1  o2 = o2  rep = rep
    Owners = {o1, o2}
    Ready = {o2}
    Rep = rep
    CIDs = {"cid1", "cid2"}
    Fees = {1, 2}
    MaxContracts = 2
    MaxRequests = 2
    MaxSurprises = 1
    Roles = {"client", "auditor"}
    Versions = {1, 2}
    Files <- TheFiles
    Key <- TheKeys
    Plan <- ThePlan
    Requirements <- Req
    Pins <- ThePins
    DP <- OffThenGaussian
    Providers = {"env"}
    MaxRunning = 1
    MaxBegun = 3
    MaxFailures = 2
CHECK_DEADLOCK FALSE
INVARIANTS ApprovedIDsMatch ScoreIsOfGenesis FeesMatchRequests ReportedContractsWork StaleOnlyByOverlap NoRawUploadUnderDP
