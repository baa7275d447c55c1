\* Two slashers report partial slashes and no-shows of one validator with stake, at both
\* S5 levels; it withdraws and stakes again, and the treasury is set.
SPECIFICATION Spec
CONSTANTS
    v1 = v1  v2 = v2  s1 = s1  s2 = s2
    Validators = {v1}
    Slashers = {s1, s2}
    StakeAmounts = {10}
    SlashAmounts = {5}
    JailDurations = {}
    MinStakes = {}
    UnbondingPeriods = {}
    S5Params <- NoS5Params
    S5GlobalParams <- NoS5GlobalParams
    S6Thresholds = {1}
    InitialParams <- BooksParams
    InitialBalance = 10
    MaxTime = 2
    MaxGI = 2
    MaxEscalations = 1
    MaxNoShows = 1
    Word = 100
SYMMETRY SymmetricSlashers
CHECK_DEADLOCK FALSE
INVARIANTS Solvent RingsCountOnce RingsWithinWindow
