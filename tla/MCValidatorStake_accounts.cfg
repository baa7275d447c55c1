\* One validator, one slasher: statuses, jails and withdrawals, MIN_STAKE changing.
SPECIFICATION FairSpec
CONSTANTS
    v1 = v1  v2 = v2  s1 = s1  s2 = s2
    Validators = {v1}
    Slashers = {s1}
    StakeAmounts = {1, 3}
    SlashAmounts = {1, 3}
    JailDurations = {1, 2}
    MinStakes = {2, 3}
    UnbondingPeriods = {1, 2}
    S5Params <- SomeS5Params
    S5GlobalParams <- SomeS5GlobalParams
    S6Thresholds = {}
    InitialParams <- StrictParams
    InitialBalance = 4
    MaxTime = 3
    MaxGI = 0
    MaxEscalations = 1
    MaxNoShows = 0
    Word = 100
CHECK_DEADLOCK FALSE
INVARIANTS StatusMatchesStake JailHolds
PROPERTIES JailNeverShortened EligibleOnlyWithFloor WithdrawalEnds
