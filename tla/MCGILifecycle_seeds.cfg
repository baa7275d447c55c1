\* One model, two iterations: the seeds, and the phases they stand between.
SPECIFICATION LifecycleFairSpec
CONSTANTS
    m1 = m1  m2 = m2  v1 = v1  v2 = v2
    Models = {m1}
    Validators = {v1, v2}
    Stakes = {1}
    MinStake = 1
    ModelFloors = {2}
    RegistrationCaps = {}
    MaxRegistered = 1
    SeedDelay = 2
    SeedWindow = 3
    Fundable <- AllFundable
    Removable <- OneRemovable
    MaxGI = 2
CHECK_DEADLOCK FALSE
INVARIANT SeedWaitsInItsState
PROPERTY SeedGetsLocked
