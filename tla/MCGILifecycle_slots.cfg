\* Two models share the validators; the first ends one iteration and starts another.
SPECIFICATION LifecycleSpec
CONSTANTS
    m1 = m1  m2 = m2  v1 = v1  v2 = v2
    Models = {m1, m2}
    Validators = {v1}
    Stakes = {1, 2}
    MinStake = 1
    ModelFloors = {}
    RegistrationCaps = {1}
    MaxRegistered = 1
    SeedDelay = 1
    SeedWindow = 1
    Fundable <- ThreeFundable
    Removable <- NoneRemovable
    MaxGI = 2
CHECK_DEADLOCK FALSE
INVARIANT NoDualRole
PROPERTIES ImplementsRegistrationSlots MembersFixedBeforeSeed
