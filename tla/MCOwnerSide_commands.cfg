\* Two iterations with two failures and two transactions in the pool; one disputed batch
\* with two challengers, a bond that is changed and a seed that moves once.
SPECIFICATION SideSpec
CONSTANTS
    LastGI = 2
    Scores = {3}
    MaxPending = 2
    MaxFailures = 2
    MaxDeposits = 1
    MaxScorings = 1
    c1 = c1  c2 = c2
    Batches = {0}
    Challengers = {c1, c2}
    Owner = "owner"
    Bonds = {1, 2}
    MaxMoves = 1
CHECK_DEADLOCK FALSE
INVARIANTS NoSlashUnscored BondsCovered
PROPERTIES IterationsEnd SlotsGetReleased UpheldDisputesEnd
