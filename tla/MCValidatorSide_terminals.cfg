\* Two accounts of one machine, two terminals with one wallet: retries after a missed
\* receipt, kills, a seed block that moves twice, a dropped transaction.
SPECIFICATION SideSpec
CONSTANTS
    v1 = v1  v2 = v2  host = host
    Accounts = {v1, v2}
    MachineOf <- OneHost
    Slots <- AllSlots
    Assigned <- TwoTiers
    Salts = {1, 2, 3, 4, 5}
    MaxPending = 1
    MaxReanchors = 2
    Begins <- Phases
    t1 = t1  t2 = t2
    Terminals = {t1, t2}
    Commands = {"bridge", "send", "buy", "stake", "claim", "withdraw"}
    Funds = 2
    MaxTxs = 2
    MaxSurprises = 1
CHECK_DEADLOCK FALSE
INVARIANTS CommitNeverStranded GivesUpOnlyUnsent DepositedOnce
PROPERTIES RetryKeepsSalt CommandsEnd RunsEnd
