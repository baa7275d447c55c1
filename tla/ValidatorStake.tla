--------------------------- MODULE ValidatorStake ---------------------------
(***************************************************************************)
(* DinValidatorStake.sol: the contract that holds every validator's stake, *)
(* keeps its status, and carries out the slashes and jails that the task   *)
(* contracts (the slashers) and the owner order.  A transaction is atomic, *)
(* so an external function is one action; a function that reverts is an    *)
(* action that is not enabled.                                             *)
(*                                                                         *)
(* The per-model stake bounds, the registration counters and their cap     *)
(* are in GILifecycle.tla: no operation of this module touches them.       *)
(***************************************************************************)
EXTENDS ValidatorAccount, FiniteSets, Functions

CONSTANTS
    Validators,        \* addresses that may stake
    Slashers,          \* task contracts that may be authorised
    StakeAmounts,      \* amounts passed to stake and unstake
    SlashAmounts,      \* amounts passed to slash and slashPartial
    JailDurations,     \* durations passed to jailValidator
    MinStakes,         \* values passed to setMinStake
    UnbondingPeriods,  \* values passed to setUnbondingPeriod
    S5Params,          \* values passed to setS5RecidivismParams
    S5GlobalParams,    \* values passed to setS5GlobalParams
    S6Thresholds,      \* values passed to setS6NoParticipationThreshold
    InitialParams,     \* the parameters initialize leaves
    InitialBalance,    \* DIN each validator starts with
    MaxTime,           \* bound: no block and no deadline is later
    MaxGI,             \* bound: largest GI index a slasher reports
    MaxEscalations,    \* bound: S5 escalations of one validator
    MaxNoShows         \* bound: no-participation reports of one validator

Params ==
    [minStake : Nat \ {0}, unbonding : Nat \ {0},
     s5Window : Nat \ {0}, s5Threshold : Nat \ {0}, s5Jail : Nat \ {0},
     s5GlobalWindow : Nat, s5GlobalThreshold : Nat,
     s6Threshold : Nat \ {0}]

ASSUME ConstantsAssumption ==
    /\ IsFiniteSet(Validators)
    /\ StakeAmounts \subseteq Nat
    /\ SlashAmounts \subseteq Nat
    /\ JailDurations \subseteq Nat
    /\ MinStakes \subseteq Nat
    /\ UnbondingPeriods \subseteq Nat
    /\ S5Params \subseteq [window : Nat, threshold : Nat, jail : Nat]
    /\ S5GlobalParams \subseteq [window : Nat, threshold : Nat]
    /\ S6Thresholds \subseteq Nat
    /\ InitialParams \in Params
    /\ (InitialParams.s5GlobalWindow = 0) <=> (InitialParams.s5GlobalThreshold = 0)
    /\ InitialBalance \in Nat
    /\ MaxTime \in Nat
    /\ MaxGI \in Nat
    /\ MaxEscalations \in Nat
    /\ MaxNoShows \in Nat

VARIABLES
    now,                  \* block.timestamp
    params,               \* the governable parameters
    treasurySet,          \* slashTreasury # address(0)
    slasherContracts,     \* the authorised slashers
    validators,           \* [Validators -> ValidatorInfo]
    partialSlashGIs,      \* _partialSlashGIs
    partialSlashEpoch,    \* _partialSlashEpoch
    partialSlashTimes,    \* _partialSlashTimes
    s5EscalationEpoch,
    noParticipationCount, \* s6NoParticipationCount
    wallet,               \* DIN balance of each validator
    held,                 \* DIN balance of this contract
    treasury,             \* DIN received by slashTreasury
    burned,               \* DIN burned by slashes
    reportedGI,           \* history: the GI index each slasher last reported
    sinceEscalation,      \* history: partial slashes since the last escalation,
    sinceEscalationBy     \* ... and by slasher

rings  == <<partialSlashGIs, partialSlashEpoch, partialSlashTimes,
            s5EscalationEpoch, reportedGI, sinceEscalation, sinceEscalationBy>>
tokens == <<wallet, held, treasury, burned>>
config == <<params, treasurySet, slasherContracts>>
vars   == <<now, config, validators, rings, noParticipationCount, tokens>>

TypeOK ==
    /\ now \in Nat
    /\ params \in Params
    /\ treasurySet \in BOOLEAN
    /\ slasherContracts \subseteq Slashers
    /\ validators \in [Validators -> ValidatorInfo]
    /\ partialSlashGIs \in [Validators -> [Slashers -> Seq(Nat)]]
    /\ partialSlashEpoch \in [Validators -> [Slashers -> Nat]]
    /\ partialSlashTimes \in [Validators -> Seq(Nat)]
    /\ s5EscalationEpoch \in [Validators -> Nat]
    /\ noParticipationCount \in [Validators -> Nat]
    /\ wallet \in [Validators -> Nat]
    /\ held \in Int
    /\ treasury \in Nat
    /\ burned \in Nat
    /\ reportedGI \in [Slashers -> Nat]
    /\ sinceEscalation \in [Validators -> Nat]
    /\ sinceEscalationBy \in [Validators -> [Slashers -> Nat]]

Init ==
    /\ now = 0
    /\ params = InitialParams
    /\ treasurySet = FALSE
    /\ slasherContracts = {}
    /\ validators = [v \in Validators |-> NoValidator]
    /\ partialSlashGIs = [v \in Validators |-> [s \in Slashers |-> <<>>]]
    /\ partialSlashEpoch = [v \in Validators |-> [s \in Slashers |-> 0]]
    /\ partialSlashTimes = [v \in Validators |-> <<>>]
    /\ s5EscalationEpoch = [v \in Validators |-> 0]
    /\ noParticipationCount = [v \in Validators |-> 0]
    /\ wallet = [v \in Validators |-> InitialBalance]
    /\ held = 0
    /\ treasury = 0
    /\ burned = 0
    /\ reportedGI = [s \in Slashers |-> 0]
    /\ sinceEscalation = [v \in Validators |-> 0]
    /\ sinceEscalationBy = [v \in Validators |-> [s \in Slashers |-> 0]]

-----------------------------------------------------------------------------
(* Helpers. *)

SyncNow(info) == SyncStatus(info, params.minStake, now)

SlashNow(info, amount) == ApplySlash(info, amount, params.minStake, now)

\* The token movements of one slash of v, out of this contract's balance.
PaySlash(v, amount) ==
    LET actual == ActualSlash(validators[v], amount)
    IN  /\ held' = held - actual
        /\ treasury' = treasury + (IF treasurySet THEN TreasuryShare(actual) ELSE 0)
        /\ burned' = burned + (IF treasurySet THEN BurnShare(actual) ELSE actual)
        /\ UNCHANGED wallet

\* A ring that outlives the escalation it was counted in.
RingOfAnyEpoch(v, s) == partialSlashGIs[v][s]

\* The ring of a slasher, emptied when it was last written before v's latest
\* escalation; what getPartialSlashGIs shows.
VisibleRing(v, s) ==
    IF partialSlashEpoch[v][s] # s5EscalationEpoch[v] THEN <<>>
    ELSE partialSlashGIs[v][s]

\* The two rings once the partial slash in hand is recorded.
RecordedGIs(v, s, giIndex) == RecordInRing(VisibleRing(v, s), giIndex, params.s5Window)

RecordedTimes(v) ==
    IF params.s5GlobalThreshold = 0 THEN partialSlashTimes[v]
    ELSE RecordInRing(partialSlashTimes[v], now, params.s5GlobalWindow)

PerSlasherHit(v, s, giIndex) == Len(RecordedGIs(v, s, giIndex)) >= params.s5Threshold

GlobalHit(v) ==
    /\ params.s5GlobalThreshold # 0
    /\ Len(RecordedTimes(v)) >= params.s5GlobalThreshold

Escalates(v, s, giIndex) == PerSlasherHit(v, s, giIndex) \/ GlobalHit(v)

\* uint64(s5JailDuration)
EscalationJail == Uint64(params.s5Jail)

-----------------------------------------------------------------------------
(* Calls by validators. *)

Stake(v, amount) ==
    /\ amount >= params.minStake
    /\ validators[v].status # "Blacklisted"
    /\ wallet[v] >= amount
    /\ validators' = [validators EXCEPT ![v] = SyncNow(AddStake(@, amount))]
    /\ wallet' = [wallet EXCEPT ![v] = @ - amount]
    /\ held' = held + amount
    /\ UNCHANGED <<now, config, rings, noParticipationCount, treasury, burned>>

Unstake(v, amount) ==
    /\ validators[v].status # "Blacklisted"
    /\ amount > 0
    /\ validators[v].pendingWithdrawals = 0
    /\ validators[v].activeStake >= amount
    /\ Uint64(now + params.unbonding) <= MaxTime
    /\ validators' = [validators EXCEPT ![v] =
                        SyncNow(RequestWithdrawal(@, amount, Uint64(now + params.unbonding)))]
    /\ UNCHANGED <<now, config, rings, noParticipationCount, tokens>>

\* A claim refused to a jailed validator.
ClaimUnlessJailed(v) ==
    /\ validators[v].status \notin {"Blacklisted", "Jailed"}
    /\ validators[v].pendingWithdrawals > 0
    /\ now >= validators[v].withdrawAvailableAt
    /\ validators' = [validators EXCEPT ![v] = SyncNow(EndWithdrawal(@))]
    /\ wallet' = [wallet EXCEPT ![v] = @ + validators[v].pendingWithdrawals]
    /\ held' = held - validators[v].pendingWithdrawals
    /\ UNCHANGED <<now, config, rings, noParticipationCount, treasury, burned>>

ClaimUnstaked(v) ==
    /\ validators[v].status # "Blacklisted"
    /\ validators[v].pendingWithdrawals > 0
    /\ now >= validators[v].withdrawAvailableAt
    /\ validators' = [validators EXCEPT ![v] = SyncNow(EndWithdrawal(@))]
    /\ wallet' = [wallet EXCEPT ![v] = @ + validators[v].pendingWithdrawals]
    /\ held' = held - validators[v].pendingWithdrawals
    /\ UNCHANGED <<now, config, rings, noParticipationCount, treasury, burned>>

Reactivate(v) ==
    /\ validators[v].status = "Jailed"
    /\ now >= validators[v].jailedUntil
    /\ validators[v].activeStake >= params.minStake
    /\ validators' = [validators EXCEPT ![v] = SyncNow(EndJail(@))]
    /\ UNCHANGED <<now, config, rings, noParticipationCount, tokens>>

-----------------------------------------------------------------------------
(* Calls by slasher contracts. *)

Slash(s, v, amount) ==
    /\ s \in slasherContracts
    /\ amount > 0
    /\ validators' = [validators EXCEPT ![v] = SlashNow(@, amount)]
    /\ PaySlash(v, amount)
    /\ UNCHANGED <<now, config, rings, noParticipationCount>>

\* What slashPartial checks before it counts.  A slasher reports its own GI
\* index, which never goes down.
PartialSlashCall(s, v, amount, giIndex) ==
    /\ s \in slasherContracts
    /\ amount > 0
    /\ giIndex >= reportedGI[s]
    /\ reportedGI' = [reportedGI EXCEPT ![s] = giIndex]

\* slashPartial below both thresholds: the ring entries stay, the partial
\* amount is taken.
SlashPartial(s, v, amount, giIndex) ==
    /\ PartialSlashCall(s, v, amount, giIndex)
    /\ ~ Escalates(v, s, giIndex)
    /\ partialSlashGIs' = [partialSlashGIs EXCEPT ![v][s] = RecordedGIs(v, s, giIndex)]
    /\ partialSlashEpoch' = [partialSlashEpoch EXCEPT ![v][s] = s5EscalationEpoch[v]]
    /\ partialSlashTimes' = [partialSlashTimes EXCEPT ![v] = RecordedTimes(v)]
    /\ sinceEscalation' = [sinceEscalation EXCEPT ![v] = @ + 1]
    /\ sinceEscalationBy' = [sinceEscalationBy EXCEPT ![v][s] = @ + 1]
    /\ validators' = [validators EXCEPT ![v] = SlashNow(@, amount)]
    /\ PaySlash(v, amount)
    /\ UNCHANGED <<now, config, s5EscalationEpoch, noParticipationCount>>

\* slashPartial at one of the thresholds: MIN_STAKE is taken, the validator is
\* jailed, and every ring counts from zero again.
SlashPartialEscalated(s, v, amount, giIndex) ==
    /\ PartialSlashCall(s, v, amount, giIndex)
    /\ Escalates(v, s, giIndex)
    /\ CanJail(validators[v])
    /\ now + EscalationJail <= MaxTime
    /\ s5EscalationEpoch[v] < MaxEscalations
    /\ validators' = [validators EXCEPT ![v] =
                        Jail(SlashNow(@, params.minStake), EscalationJail, now)]
    /\ PaySlash(v, params.minStake)
    /\ partialSlashEpoch' = [partialSlashEpoch EXCEPT ![v][s] = s5EscalationEpoch[v]]
    /\ s5EscalationEpoch' = [s5EscalationEpoch EXCEPT ![v] = @ + 1]
    /\ partialSlashGIs' = [partialSlashGIs EXCEPT ![v][s] = <<>>]
    /\ partialSlashTimes' = [partialSlashTimes EXCEPT ![v] = <<>>]
    /\ sinceEscalation' = [sinceEscalation EXCEPT ![v] = 0]
    /\ sinceEscalationBy' = [sinceEscalationBy EXCEPT ![v] = [z \in Slashers |-> 0]]
    /\ UNCHANGED <<now, config, noParticipationCount>>

\* The slash of the no-participation report that makes the count `count': a
\* tenth of MIN_STAKE for each breach, at most all of it.
NoShowSlash(count) ==
    LET breaches == count - params.s6Threshold + 1
        amount   == (params.minStake * breaches) \div 10
    IN  IF count < params.s6Threshold THEN 0
        ELSE IF amount > params.minStake THEN params.minStake ELSE amount

RecordNoParticipation(s, v) ==
    LET count == noParticipationCount[v] + 1
    IN  /\ s \in slasherContracts
        /\ count <= MaxNoShows
        /\ noParticipationCount' = [noParticipationCount EXCEPT ![v] = count]
        /\ validators' = [validators EXCEPT ![v] = SlashNow(@, NoShowSlash(count))]
        /\ PaySlash(v, NoShowSlash(count))
        /\ UNCHANGED <<now, config, rings>>

JailValidator(s, v, duration) ==
    /\ s \in slasherContracts
    /\ duration > 0
    /\ CanJail(validators[v])
    /\ now + duration <= MaxTime
    /\ validators' = [validators EXCEPT ![v] = Jail(@, duration, now)]
    /\ UNCHANGED <<now, config, rings, noParticipationCount, tokens>>

-----------------------------------------------------------------------------
(* Calls by the owner and by DinCoordinator. *)

BlacklistValidator(v) ==
    /\ validators' = [validators EXCEPT ![v] = WithStatus(@, "Blacklisted")]
    /\ UNCHANGED <<now, config, rings, noParticipationCount, tokens>>

\* A lifted blacklist that forgets the jail it interrupted.
UnblacklistForgetsJail(v) ==
    /\ validators[v].status = "Blacklisted"
    /\ validators' = [validators EXCEPT ![v] = SyncNow(WithStatus(@, "None"))]
    /\ UNCHANGED <<now, config, rings, noParticipationCount, tokens>>

UnblacklistValidator(v) ==
    /\ validators[v].status = "Blacklisted"
    /\ validators' = [validators EXCEPT ![v] =
            SyncNow(WithStatus(@, IF @.jailedUntil > now THEN "Jailed" ELSE "None"))]
    /\ UNCHANGED <<now, config, rings, noParticipationCount, tokens>>

AddSlasherContract(s) ==
    /\ s \notin slasherContracts
    /\ slasherContracts' = slasherContracts \cup {s}
    /\ UNCHANGED <<now, params, treasurySet, validators, rings,
                   noParticipationCount, tokens>>

RemoveSlasherContract(s) ==
    /\ s \in slasherContracts
    /\ slasherContracts' = slasherContracts \ {s}
    /\ UNCHANGED <<now, params, treasurySet, validators, rings,
                   noParticipationCount, tokens>>

\* setSlashTreasury; only whether one is set matters to the accounts.
SetSlashTreasury ==
    /\ treasurySet' = TRUE
    /\ UNCHANGED <<now, params, slasherContracts, validators, rings,
                   noParticipationCount, tokens>>

\* The parameter setters write params and nothing else.
SetParams(newParams) ==
    /\ params' = newParams
    /\ UNCHANGED <<now, treasurySet, slasherContracts, validators, rings,
                   noParticipationCount, tokens>>

SetMinStake(amount) ==
    /\ amount # 0
    /\ SetParams([params EXCEPT !.minStake = amount])

SetUnbondingPeriod(period) ==
    /\ period # 0
    /\ SetParams([params EXCEPT !.unbonding = period])

SetS5RecidivismParams(p) ==
    /\ p.window # 0 /\ p.threshold # 0 /\ p.threshold <= p.window /\ p.jail # 0
    /\ SetParams([params EXCEPT !.s5Window = p.window,
                                !.s5Threshold = p.threshold,
                                !.s5Jail = p.jail])

SetS5GlobalParams(p) ==
    /\ (p.window = 0) <=> (p.threshold = 0)
    /\ SetParams([params EXCEPT !.s5GlobalWindow = p.window,
                                !.s5GlobalThreshold = p.threshold])

SetS6NoParticipationThreshold(threshold) ==
    /\ threshold # 0
    /\ SetParams([params EXCEPT !.s6Threshold = threshold])

-----------------------------------------------------------------------------
\* The next block is mined.
Tick ==
    /\ now < MaxTime
    /\ now' = now + 1
    /\ UNCHANGED <<config, validators, rings, noParticipationCount, tokens>>

ValidatorStep(v) ==
    \/ \E amount \in StakeAmounts : Stake(v, amount)
    \/ \E amount \in StakeAmounts : Unstake(v, amount)
    \/ ClaimUnstaked(v)
    \/ Reactivate(v)

SlasherStep(s, v) ==
    \/ \E amount \in SlashAmounts : Slash(s, v, amount)
    \/ \E amount \in SlashAmounts, giIndex \in 0..MaxGI : SlashPartial(s, v, amount, giIndex)
    \/ \E amount \in SlashAmounts, giIndex \in 0..MaxGI :
           SlashPartialEscalated(s, v, amount, giIndex)
    \/ RecordNoParticipation(s, v)
    \/ \E duration \in JailDurations : JailValidator(s, v, duration)

OwnerStep ==
    \/ \E v \in Validators : BlacklistValidator(v)
    \/ \E v \in Validators : UnblacklistValidator(v)
    \/ SetSlashTreasury
    \/ \E amount \in MinStakes : SetMinStake(amount)
    \/ \E period \in UnbondingPeriods : SetUnbondingPeriod(period)
    \/ \E p \in S5Params : SetS5RecidivismParams(p)
    \/ \E p \in S5GlobalParams : SetS5GlobalParams(p)
    \/ \E threshold \in S6Thresholds : SetS6NoParticipationThreshold(threshold)

CoordinatorStep(s) == AddSlasherContract(s) \/ RemoveSlasherContract(s)

Next ==
    \/ Tick
    \/ \E v \in Validators : ValidatorStep(v)
    \/ \E s \in Slashers, v \in Validators : SlasherStep(s, v)
    \/ OwnerStep
    \/ \E s \in Slashers : CoordinatorStep(s)

Spec == Init /\ [][Next]_vars

\* Blocks keep being mined, and a validator whose withdrawal has matured
\* keeps asking for it.
Fairness == WF_vars(Tick) /\ \A v \in Validators : WF_vars(ClaimUnstaked(v))

FairSpec == Spec /\ Fairness
-----------------------------------------------------------------------------
(* Safety. *)

\* The status a task contract reads agrees with the stake behind it: an
\* Active validator has stake and nothing on its way out, None means nothing
\* is held, and Exiting means something still is (_syncValidatorStatus is
\* called by every function that moves stake, blacklisting excepted).
StatusMatchesStake ==
    \A v \in Validators :
        LET info == validators[v]
        IN  /\ info.status = "Active" => info.pendingWithdrawals = 0 /\ info.activeStake > 0
            /\ info.status = "None" => SlashableStake(info) = 0
            /\ info.status = "Exiting" => SlashableStake(info) > 0

\* A withdrawal deadline exists only while a withdrawal is pending, whatever
\* mix of slashes and claims emptied it.
DeadlineNeedsPending ==
    \A v \in Validators :
        validators[v].pendingWithdrawals = 0 => validators[v].withdrawAvailableAt = 0

\* While a jail term runs, no call of anybody makes the validator anything
\* but Jailed or Blacklisted: not staking, unstaking, claiming, a slash, nor
\* a blacklist that is imposed and lifted again.
JailHolds ==
    \A v \in Validators :
        validators[v].jailedUntil > now => validators[v].status \in {"Jailed", "Blacklisted"}

\* The contract holds exactly what it owes its validators, and no DIN is
\* made or lost: wallets, custody, treasury and burned add up to the supply.
Solvent ==
    /\ held = SumFunctionOnSet([v \in Validators |-> SlashableStake(validators[v])], Validators)
    /\ SumFunctionOnSet(wallet, Validators) + held + treasury + burned
         = InitialBalance * Cardinality(Validators)

\* A partial slash counts toward one escalation at most: what a slasher's
\* ring can still count is at most what that slasher recorded since the last
\* escalation, whoever triggered that, and likewise for the global ring.
RingsCountOnce ==
    \A v \in Validators :
        /\ \A s \in Slashers : Len(VisibleRing(v, s)) <= sinceEscalationBy[v][s]
        /\ Len(partialSlashTimes[v]) <= sinceEscalation[v]

WithinWindow(ring, window) ==
    \A i, j \in 1..Len(ring) : ring[j] - ring[i] < window

\* While the S5 parameters do not change, a ring never holds two entries a
\* window or more apart, nor as many as the threshold: an offence that has
\* aged out cannot be the one that makes a validator a recidivist.
RingsWithinWindow ==
    \A v \in Validators :
        /\ \A s \in Slashers :
              /\ WithinWindow(partialSlashGIs[v][s], params.s5Window)
              /\ Len(partialSlashGIs[v][s]) < params.s5Threshold
        /\ WithinWindow(partialSlashTimes[v], params.s5GlobalWindow)
        /\ \/ partialSlashTimes[v] = <<>>
           \/ Len(partialSlashTimes[v]) < params.s5GlobalThreshold

-----------------------------------------------------------------------------
(* What a step may never do. *)

\* A jail term that still runs is never cut short: a second jail can only
\* extend it, and reactivate clears it only once it is over.
JailNeverShortened ==
    [][\A v \in Validators :
          validators'[v].jailedUntil < validators[v].jailedUntil
              => validators[v].jailedUntil <= now]_vars

\* A pending withdrawal keeps the deadline it was given, whatever slashes it
\* suffers and whatever happens to UNBONDING_PERIOD meanwhile, and DIN goes
\* back to the validator only once that deadline has passed.
WithdrawalKeepsDeadline ==
    [][\A v \in Validators :
          LET before == validators[v]
              after  == validators'[v]
          IN  /\ before.pendingWithdrawals > 0 /\ after.pendingWithdrawals > 0
                    => after.withdrawAvailableAt = before.withdrawAvailableAt
              /\ wallet'[v] > wallet[v] => before.withdrawAvailableAt <= now]_vars

\* On whatever path a validator becomes eligible (stake, claim, reactivate, a
\* lifted blacklist, a slash that syncs an expired jail), it has the current
\* MIN_STAKE, no withdrawal pending and no jail term running.
EligibleOnlyWithFloor ==
    [][\A v \in Validators :
          ~ IsActive(validators[v]) /\ IsActive(validators'[v])
              => /\ validators'[v].activeStake >= params.minStake
                 /\ validators'[v].pendingWithdrawals = 0
                 /\ validators'[v].jailedUntil <= now]_vars

-----------------------------------------------------------------------------
(* Liveness. *)

\* Under FairSpec a pending withdrawal is paid out, slashed away or frozen
\* by a blacklist; no jail, however often renewed, keeps it in the contract.
WithdrawalEnds ==
    \A v \in Validators :
        validators[v].pendingWithdrawals > 0
            ~> \/ validators[v].pendingWithdrawals = 0
               \/ validators[v].status = "Blacklisted"
=============================================================================
