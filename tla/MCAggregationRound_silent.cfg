\* One Tier-1 batch, nobody disturbed: what becomes of a commit that is never revealed.
SPECIFICATION RoundFairSpec
CONSTANTS
    a1 = a1  a2 = a2  a3 = a3  a4 = a4  a5 = a5  a6 = a6  a7 = a7  s1 = s1  s2 = s2
    Validators = {a1, a2, a3}
    Slashers = {s1, s2}
    StakeAmounts = {}
    SlashAmounts = {}
    JailDurations = {}
    MinStakes = {}
    UnbondingPeriods = {}
    S5Params <- NoParams
    S5GlobalParams <- NoParams
    S6Thresholds = {}
    InitialParams <- RoundParams
    InitialBalance = 6
    MaxTime = 0
    MaxGI = 1
    MaxEscalations = 1
    MaxNoShows = 0
    Word = 100
    Cids = {x, y}
    NoCid = none
    ThisTask = s1
    GI = 1
    AggregatorShuffles <- DisturbedInTheMiddle
    ModelShuffles <- ThreeModels
    EarlierMisses <- NoMisses
    S2Fractions <- NoFractions
    InitialStake = 6
    Disturbed = {}
CHECK_DEADLOCK FALSE
PROPERTY NonRevealersAreSlashed
