\* Six or seven active aggregators and three to six models: two Tier-1 batches, or one and Tier 2.
SPECIFICATION RoundSpec
CONSTANTS
    a1 = a1  a2 = a2  a3 = a3  a4 = a4  a5 = a5  a6 = a6  a7 = a7  s1 = s1  s2 = s2
    Validators = {a1, a2, a3, a4, a5, a6, a7}
    Slashers = {s1, s2}
    StakeAmounts = {}
    SlashAmounts = {}
    JailDurations = {}
    MinStakes = {}
    UnbondingPeriods = {}
    S5Params <- NoParams
    S5GlobalParams <- NoParams
    S6Thresholds = {}
    InitialParams <- RoundParams
    InitialBalance = 4
    MaxTime = 0
    MaxGI = 1
    MaxEscalations = 1
    MaxNoShows = 0
    Word = 100
    Cids = {x, y}
    NoCid = none
    ThisTask = s1
    GI = 1
    AggregatorShuffles <- SevenOrders
    ModelShuffles <- UpToSixModels
    EarlierMisses <- NoMisses
    S2Fractions <- NoFractions
    InitialStake = 4
    Disturbed = {a4}
CHECK_DEADLOCK FALSE
INVARIANTS PartitionIsDisjoint WeightAddsUp
