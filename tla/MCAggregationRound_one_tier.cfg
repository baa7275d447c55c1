\* One Tier-1 batch: every vote, every S2 fraction, an escalation, while one account is
\* jailed, blacklisted, withdrawn or slashed by another model.
SPECIFICATION RoundSpec
CONSTANTS
    a1 = a1  a2 = a2  a3 = a3  a4 = a4  a5 = a5  a6 = a6  a7 = a7  s1 = s1  s2 = s2
    Validators = {a1, a2, a3}
    Slashers = {s1, s2}
    StakeAmounts = {}
    SlashAmounts = {3}
    JailDurations = {1}
    MinStakes = {}
    UnbondingPeriods = {}
    S5Params <- NoParams
    S5GlobalParams <- NoParams
    S6Thresholds = {}
    InitialParams <- RoundParams
    InitialBalance = 6
    MaxTime = 1
    MaxGI = 1
    MaxEscalations = 1
    MaxNoShows = 0
    Word = 100
    Cids = {x, y}
    NoCid = none
    ThisTask = s1
    GI = 1
    AggregatorShuffles <- DisturbedInTheMiddle
    ModelShuffles <- ThreeModels
    EarlierMisses <- MaybeOneMiss
    S2Fractions <- Fractions
    InitialStake = 6
    Disturbed = {a1}
CHECK_DEADLOCK FALSE
INVARIANT PluralityWins
PROPERTIES RoundLossBounded OnlyFaultsAreSlashed
