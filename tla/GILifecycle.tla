---------------------------- MODULE GILifecycle ----------------------------
(***************************************************************************)
(* The life of the global iterations of several models: the 29 states a    *)
(* DINTaskCoordinator goes through, the registration of aggregators and    *)
(* auditors with the counter DinValidatorStake keeps over all models, the  *)
(* seeds of the two batch assignments, and the release of the slots.       *)
(*                                                                         *)
(* Each model has a coordinator and an auditor contract of its own.  What  *)
(* happens inside a phase is in AggregationRound.tla (aggregation) and in  *)
(* the auditor's contract (audit): here a phase ends when it can.          *)
(* The validators' accounts are in ValidatorStake.tla; the stake a         *)
(* registration finds is an input, since other transactions change it.     *)
(***************************************************************************)
EXTENDS Integers, Sequences, FiniteSets

CONSTANTS
    Models,
    Validators,
    Stakes,            \* answers of getStake for an active validator
    MinStake,          \* answer of minStake
    ModelFloors,       \* values passed to setModelStakeBounds (min)
    RegistrationCaps,  \* values passed to setMaxConcurrentRegistrationsPerStakeUnit
    MaxRegistered,     \* MAX_REGISTERED_AGGREGATORS and MAX_REGISTERED_AUDITORS
    SeedDelay,         \* disputeSeedDelay
    SeedWindow,        \* number of past blocks blockhash answers for
    Fundable,          \* bound: the iterations somebody funds, as <<model, GI>>
    Removable,         \* bound: the task contracts whose authorisation is withdrawn
    MaxGI              \* bound: number of iterations of a model

ASSUME LifecycleAssumption ==
    /\ Stakes \subseteq Nat
    /\ MinStake \in Nat \ {0}
    /\ ModelFloors \subseteq Nat
    /\ RegistrationCaps \subseteq Nat
    /\ MaxRegistered \in Nat \ {0}
    /\ SeedDelay \in Nat \ {0} /\ SeedDelay <= SeedWindow
    /\ SeedWindow \in Nat
    /\ Fundable \subseteq Models \X (1..MaxGI)
    /\ Removable \subseteq Models \X {"coordinator", "auditor"}
    /\ MaxGI \in Nat \ {0}

\* enum GIstates, in the order of its ordinals.
GIstates == <<
    "AwaitingDINTaskAuditorToBeSet", "AwaitingDINTaskCoordinatorAsSlasher",
    "AwaitingDINTaskAuditorAsSlasher", "AwaitingGenesisModel",
    "GenesisModelCreated", "GIstarted",
    "DINaggregatorsRegistrationStarted", "DINaggregatorsRegistrationClosed",
    "DINauditorsRegistrationStarted", "DINauditorsRegistrationClosed",
    "LMSstarted", "LMSclosed", "AuditSeedLocked", "AuditorsBatchesCreated",
    "AuditTestDataAssigned", "LMSevaluationStarted",
    "LMSevaluationRevealStarted", "LMSevaluationClosed", "AggSeedLocked",
    "T1nT2Bcreated", "T1AggregationStarted", "T1AggregationRevealStarted",
    "T1AggregationDone", "T2AggregationStarted", "T2AggregationRevealStarted",
    "T2AggregationDone", "AuditorsSlashed", "AggregatorsSlashed", "GIended">>

StateNames == {GIstates[i] : i \in DOMAIN GIstates}

Ordinal == [st \in StateNames |-> CHOOSE i \in DOMAIN GIstates : GIstates[i] = st]

Following(st) == GIstates[Ordinal[st] + 1]

\* The states an owner's call leaves for the next one and does nothing else
\* to the state below; the calls that need more have actions of their own.
PlainStates ==
    {"AwaitingDINTaskAuditorToBeSet",      \* setDINTaskAuditorContract
     "AwaitingGenesisModel",               \* setGenesisModelIpfsHash
     "GIstarted",                          \* startDINaggregatorsRegistration
     "DINaggregatorsRegistrationStarted",  \* closeDINaggregatorsRegistration
     "DINaggregatorsRegistrationClosed",   \* startDINauditorsRegistration
     "DINauditorsRegistrationStarted",     \* closeDINauditorsRegistration
     "DINauditorsRegistrationClosed",      \* startLMsubmissions
     "AuditSeedLocked",                    \* createAuditorsBatches
     "AuditorsBatchesCreated",             \* setTestDataAssignedFlag
     "AuditTestDataAssigned",              \* startLMsubmissionsEvaluation
     "LMSevaluationStarted",               \* startLMsubmissionsEvaluationReveal
     "AggSeedLocked",                      \* autoCreateTier1AndTier2
     "T1nT2Bcreated",                      \* startT1Aggregation
     "T1AggregationStarted",               \* startT1AggregationReveal
     "T1AggregationRevealStarted",         \* finalizeT1Aggregation
     "T1AggregationDone",                  \* startT2Aggregation
     "T2AggregationStarted",               \* startT2AggregationReveal
     "T2AggregationRevealStarted",         \* finalizeT2Aggregation
     "T2AggregationDone",                  \* slashAuditors
     "AuditorsSlashed",                    \* slashAggregators
     "AggregatorsSlashed"}                 \* endGI

\* The two seeds of an iteration and the state each is anchored in.
Seeds == {"audit", "agg"}
AnchoredIn == [audit |-> "LMSclosed", agg |-> "LMSevaluationClosed"]

\* A seed's block, as the number of blocks mined since (negative until then;
\* SeedWindow + 1 stands for every age at which blockhash answers 0).
Seed == [status : {"unanchored", "anchored", "locked"}, age : (-SeedDelay)..(SeedWindow + 1)]
NoSeed     == [status |-> "unanchored", age |-> 0]
FreshSeed  == [status |-> "anchored", age |-> -SeedDelay]

TaskContracts == Models \X {"coordinator", "auditor"}

VARIABLES
    GIstate, GI,                \* by model
    slasherContracts,
    fundedGIs,                  \* the GIs with giRewardPool > 0, by model
    dinAggregators,             \* by model and GI
    dinAuditors,
    registrationSlotsReleased,  \* the GIs released, by model
    seeds,                      \* auditSeed(Block) and aggSeed(Block) of the current GI
    activeRegistrationCount,
    modelStakeMin,
    maxConcurrent               \* maxConcurrentRegistrationsPerStakeUnit

bounds  == <<modelStakeMin, maxConcurrent>>
members == <<dinAggregators, dinAuditors, registrationSlotsReleased,
             activeRegistrationCount>>
lifeVars == <<GIstate, GI, slasherContracts, fundedGIs, members, seeds, bounds>>

LifecycleTypeOK ==
    /\ GIstate \in [Models -> StateNames]
    /\ GI \in [Models -> 0..MaxGI]
    /\ slasherContracts \subseteq TaskContracts
    /\ fundedGIs \in [Models -> SUBSET (1..MaxGI)]
    /\ dinAggregators \in [Models -> [1..MaxGI -> SUBSET Validators]]
    /\ dinAuditors \in [Models -> [1..MaxGI -> SUBSET Validators]]
    /\ registrationSlotsReleased \in [Models -> SUBSET (1..MaxGI)]
    /\ seeds \in [Models -> [Seeds -> Seed]]
    /\ activeRegistrationCount \in [Validators -> Nat]
    /\ modelStakeMin \in [Models -> Nat]
    /\ maxConcurrent \in Nat

LifecycleInit ==
    /\ GIstate = [m \in Models |-> "AwaitingDINTaskAuditorToBeSet"]
    /\ GI = [m \in Models |-> 0]
    /\ slasherContracts = {}
    /\ fundedGIs = [m \in Models |-> {}]
    /\ dinAggregators = [m \in Models |-> [g \in 1..MaxGI |-> {}]]
    /\ dinAuditors = [m \in Models |-> [g \in 1..MaxGI |-> {}]]
    /\ registrationSlotsReleased = [m \in Models |-> {}]
    /\ seeds = [m \in Models |-> [k \in Seeds |-> NoSeed]]
    /\ activeRegistrationCount = [v \in Validators |-> 0]
    /\ modelStakeMin = [m \in Models |-> 0]
    /\ maxConcurrent = 0

-----------------------------------------------------------------------------
(* The owner of a model. *)

GoTo(m, from) ==
    /\ GIstate[m] = from
    /\ GIstate' = [GIstate EXCEPT ![m] = Following(from)]

MoveOn(m) ==
    /\ \E st \in PlainStates : GoTo(m, st)
    /\ UNCHANGED <<GI, slasherContracts, fundedGIs, members, seeds, bounds>>

SetDINTaskCoordinatorAsSlasher(m) ==
    /\ <<m, "coordinator">> \in slasherContracts
    /\ GoTo(m, "AwaitingDINTaskCoordinatorAsSlasher")
    /\ UNCHANGED <<GI, slasherContracts, fundedGIs, members, seeds, bounds>>

SetDINTaskAuditorAsSlasher(m) ==
    /\ <<m, "auditor">> \in slasherContracts
    /\ GoTo(m, "AwaitingDINTaskAuditorAsSlasher")
    /\ UNCHANGED <<GI, slasherContracts, fundedGIs, members, seeds, bounds>>

\* Only a funded iteration starts.
MayStart(m) ==
    /\ GIstate[m] \in {"GenesisModelCreated", "GIended"}
    /\ GI[m] + 1 \in fundedGIs[m]

\* The seeds of a new iteration are unset.
StartGI(m) ==
    /\ MayStart(m)
    /\ GI' = [GI EXCEPT ![m] = @ + 1]
    /\ GIstate' = [GIstate EXCEPT ![m] = "GIstarted"]
    /\ seeds' = [seeds EXCEPT ![m] = [k \in Seeds |-> NoSeed]]
    /\ UNCHANGED <<slasherContracts, fundedGIs, members, bounds>>

\* The close of the submissions and of the evaluation fix the block that will
\* give the seed of the next assignment.
AnchorSeed(m, k, from) ==
    /\ GoTo(m, from)
    /\ seeds' = [seeds EXCEPT ![m][k] = FreshSeed]
    /\ UNCHANGED <<GI, slasherContracts, fundedGIs, members, bounds>>

CloseLMsubmissions(m) == AnchorSeed(m, "audit", "LMSstarted")

CloseLMsubmissionsEvaluation(m) == AnchorSeed(m, "agg", "LMSevaluationRevealStarted")

-----------------------------------------------------------------------------
(* Anybody: lockAuditSeed and lockAggSeed. *)

\* A seed that may be locked twice.
LockableAgain(seed) == seed.status # "unanchored" /\ seed.age \in 1..SeedWindow

Lockable(seed) == seed.status = "anchored" /\ seed.age \in 1..SeedWindow

\* Neither function looks at the GI state it leaves.
LockSeed(m, k) ==
    /\ Lockable(seeds[m][k])
    /\ seeds' = [seeds EXCEPT ![m][k].status = "locked"]
    /\ GIstate' = [GIstate EXCEPT ![m] = Following(AnchoredIn[k])]
    /\ UNCHANGED <<GI, slasherContracts, fundedGIs, members, bounds>>

\* A late call that keeps the block whose hash is gone.
KeptLate(seed) == seed

Reanchored(seed) == FreshSeed

\* A call too late for the block's hash anchors the seed to a new block.
ReanchorSeed(m, k) ==
    /\ seeds[m][k].status = "anchored"
    /\ seeds[m][k].age > SeedWindow
    /\ seeds' = [seeds EXCEPT ![m][k] = Reanchored(@)]
    /\ UNCHANGED <<GIstate, GI, slasherContracts, fundedGIs, members, bounds>>

\* A new block.  The age of a locked seed is not read any more.
NextBlock ==
    /\ seeds' = [m \in Models |-> [k \in Seeds |->
           IF seeds[m][k].status = "anchored" /\ seeds[m][k].age <= SeedWindow
           THEN [seeds[m][k] EXCEPT !.age = @ + 1] ELSE seeds[m][k]]]
    /\ UNCHANGED <<GIstate, GI, slasherContracts, fundedGIs, members, bounds>>

-----------------------------------------------------------------------------
(* Validators. *)

\* The floor of the model and the cap over all models, against the stake that
\* getStake answers now.
StakeSuffices(m, v, stake) ==
    /\ stake >= modelStakeMin[m]
    /\ maxConcurrent > 0 =>
           activeRegistrationCount[v] < (stake \div MinStake) * maxConcurrent

Increment(v) ==
    activeRegistrationCount' = [activeRegistrationCount EXCEPT ![v] = @ + 1]

RegisterDINaggregator(m, v, stake) ==
    /\ GIstate[m] = "DINaggregatorsRegistrationStarted"
    /\ v \notin dinAggregators[m][GI[m]]
    /\ Cardinality(dinAggregators[m][GI[m]]) < MaxRegistered
    /\ StakeSuffices(m, v, stake)
    /\ <<m, "coordinator">> \in slasherContracts
    /\ dinAggregators' = [dinAggregators EXCEPT ![m][GI[m]] = @ \cup {v}]
    /\ Increment(v)
    /\ UNCHANGED <<GIstate, GI, slasherContracts, fundedGIs, dinAuditors,
                   registrationSlotsReleased, seeds, bounds>>

\* An auditor registration that accepts the model's aggregators, and one that
\* stays open once opened.
OpenToBothRoles(m, v) ==
    /\ GIstate[m] = "DINauditorsRegistrationStarted"
    /\ v \notin dinAuditors[m][GI[m]]

OpenLate(m, v) ==
    /\ GI[m] > 0
    /\ Ordinal[GIstate[m]] >= Ordinal["DINauditorsRegistrationStarted"]
    /\ v \notin dinAuditors[m][GI[m]]
    /\ v \notin dinAggregators[m][GI[m]]

OpenToAuditor(m, v) ==
    /\ GIstate[m] = "DINauditorsRegistrationStarted"
    /\ v \notin dinAuditors[m][GI[m]]
    /\ v \notin dinAggregators[m][GI[m]]

RegisterDINAuditor(m, v, stake) ==
    /\ OpenToAuditor(m, v)
    /\ Cardinality(dinAuditors[m][GI[m]]) < MaxRegistered
    /\ StakeSuffices(m, v, stake)
    /\ <<m, "auditor">> \in slasherContracts
    /\ dinAuditors' = [dinAuditors EXCEPT ![m][GI[m]] = @ \cup {v}]
    /\ Increment(v)
    /\ UNCHANGED <<GIstate, GI, slasherContracts, fundedGIs, dinAggregators,
                   registrationSlotsReleased, seeds, bounds>>

-----------------------------------------------------------------------------
(* The release of an iteration's slots. *)

Ended(m, g) ==
    \/ g < GI[m]
    \/ g = GI[m] /\ GIstate[m] = "GIended"

\* decrementActiveRegistration, `times' times; it saturates at zero.
Decremented(n, times) == IF n >= times THEN n - times ELSE 0

\* The units of the coordinator's list only.
AggregatorUnits(m, g, v) == IF v \in dinAggregators[m][g] THEN 1 ELSE 0

\* The number of an iteration's lists v is in.
Units(m, g, v) ==
    (IF v \in dinAggregators[m][g] THEN 1 ELSE 0)
        + (IF v \in dinAuditors[m][g] THEN 1 ELSE 0)

ReleaseGIRegistrationSlots(m, g) ==
    /\ Ended(m, g)
    /\ g \notin registrationSlotsReleased[m]
    /\ dinAggregators[m][g] # {} => <<m, "coordinator">> \in slasherContracts
    /\ dinAuditors[m][g] # {} => <<m, "auditor">> \in slasherContracts
    /\ registrationSlotsReleased' = [registrationSlotsReleased EXCEPT ![m] = @ \cup {g}]
    /\ activeRegistrationCount' = [v \in Validators |->
           Decremented(activeRegistrationCount[v], Units(m, g, v))]
    /\ UNCHANGED <<GIstate, GI, slasherContracts, fundedGIs, dinAggregators,
                   dinAuditors, seeds, bounds>>

-----------------------------------------------------------------------------
(* The platform, and anybody who funds an iteration. *)

DepositRewards(m, g) ==
    /\ g >= GI[m]
    /\ fundedGIs' = [fundedGIs EXCEPT ![m] = @ \cup {g}]
    /\ UNCHANGED <<GIstate, GI, slasherContracts, members, seeds, bounds>>

AddSlasherContract(c) ==
    /\ c \notin slasherContracts
    /\ slasherContracts' = slasherContracts \cup {c}
    /\ UNCHANGED <<GIstate, GI, fundedGIs, members, seeds, bounds>>

RemoveSlasherContract(c) ==
    /\ c \in slasherContracts
    /\ slasherContracts' = slasherContracts \ {c}
    /\ UNCHANGED <<GIstate, GI, fundedGIs, members, seeds, bounds>>

SetModelStakeBounds(m, min) ==
    /\ modelStakeMin' = [modelStakeMin EXCEPT ![m] = min]
    /\ UNCHANGED <<GIstate, GI, slasherContracts, fundedGIs, members, seeds, maxConcurrent>>

SetMaxConcurrentRegistrationsPerStakeUnit(cap) ==
    /\ maxConcurrent' = cap
    /\ UNCHANGED <<GIstate, GI, slasherContracts, fundedGIs, members, seeds, modelStakeMin>>

-----------------------------------------------------------------------------
OwnerStep(m) ==
    \/ MoveOn(m)
    \/ SetDINTaskCoordinatorAsSlasher(m)
    \/ SetDINTaskAuditorAsSlasher(m)
    \/ StartGI(m)
    \/ CloseLMsubmissions(m)
    \/ CloseLMsubmissionsEvaluation(m)
    \/ \E g \in 1..MaxGI : ReleaseGIRegistrationSlots(m, g)

ValidatorStep(m, v) ==
    \E stake \in Stakes :
        RegisterDINaggregator(m, v, stake) \/ RegisterDINAuditor(m, v, stake)

PlatformStep ==
    \/ \E c \in TaskContracts : AddSlasherContract(c)
    \/ \E c \in Removable : RemoveSlasherContract(c)
    \/ \E m \in Models, min \in ModelFloors : SetModelStakeBounds(m, min)
    \/ \E cap \in RegistrationCaps : SetMaxConcurrentRegistrationsPerStakeUnit(cap)

LifecycleNext ==
    \/ \E m \in Models : OwnerStep(m)
    \/ \E m \in Models, v \in Validators : ValidatorStep(m, v)
    \/ \E m \in Models, k \in Seeds : LockSeed(m, k) \/ ReanchorSeed(m, k)
    \/ \E iteration \in Fundable : DepositRewards(iteration[1], iteration[2])
    \/ PlatformStep
    \/ NextBlock

LifecycleSpec == LifecycleInit /\ [][LifecycleNext]_lifeVars

\* Blocks are mined, somebody calls the lock function of an anchored seed
\* again and again, and not always later than the window.
LifecycleFairSpec ==
    /\ LifecycleSpec
    /\ WF_lifeVars(NextBlock)
    /\ \A m \in Models, k \in Seeds :
          SF_lifeVars(LockSeed(m, k)) /\ WF_lifeVars(ReanchorSeed(m, k))

-----------------------------------------------------------------------------
(* Safety. *)

\* Nobody audits, in any iteration, the models it aggregates: the check in
\* registerDINAuditor is enough because no aggregator registers after it.
NoDualRole ==
    \A m \in Models, g \in 1..MaxGI : dinAggregators[m][g] \cap dinAuditors[m][g] = {}

\* The lock functions move the GI without looking at its state, on the ground
\* that a seed that waits for its lock waits in the state that anchored it
\* (DINTaskCoordinator.sol:1504-1505, :1531-1532).
SeedWaitsInItsState ==
    \A m \in Models, k \in Seeds :
        seeds[m][k].status = "anchored" <=> GIstate[m] = AnchoredIn[k]

\* The slots as the counter's specification sees them.
HeldSlots ==
    {slot \in TaskContracts \X (1..MaxGI) \X Validators :
        /\ slot[2] \notin registrationSlotsReleased[slot[1][1]]
        /\ slot[3] \in IF slot[1][2] = "coordinator"
                       THEN dinAggregators[slot[1][1]][slot[2]]
                       ELSE dinAuditors[slot[1][1]][slot[2]]}

ReleasedSlots ==
    {list \in TaskContracts \X (1..MaxGI) : list[2] \in registrationSlotsReleased[list[1][1]]}

Counter == INSTANCE RegistrationSlots
    WITH Registers <- TaskContracts, Iterations <- 1..MaxGI,
         occupied <- HeldSlots, released <- ReleasedSlots,
         count <- activeRegistrationCount

\* The counter shared by all the models is, at every moment, the number of
\* registrations of iterations not released yet, so its decrements never
\* saturate and no registration is left behind or given back twice.
CountMatchesSlots == Counter!CountIsExact

-----------------------------------------------------------------------------
(* What a step may never do. *)

\* The registration lists and the counter, over all models, behave as
\* RegistrationSlots promises.
ImplementsRegistrationSlots == Counter!SlotsSpec

\* An iteration never goes back to a state it has left, and the index only
\* grows (two of the calls that move it can be made by anybody).
GIOnlyAdvances ==
    [][\A m \in Models :
          \/ GI'[m] > GI[m]
          \/ GI'[m] = GI[m] /\ Ordinal[GIstate'[m]] >= Ordinal[GIstate[m]]]_lifeVars

\* Who takes part is settled before the block that draws the assignment is:
\* once the audit seed of an iteration is anchored, its lists do not change,
\* nor do those of any iteration that is over.
MembersFixedBeforeSeed ==
    [][\A m \in Models, g \in 1..MaxGI :
          g < GI[m] \/ (g = GI[m] /\ seeds[m]["audit"].status # "unanchored")
              => /\ dinAggregators'[m][g] = dinAggregators[m][g]
                 /\ dinAuditors'[m][g] = dinAuditors[m][g]]_lifeVars

-----------------------------------------------------------------------------
(* Liveness. *)

\* However late the first calls are, an anchored seed is locked in the end:
\* re-anchoring never leaves an iteration without a seed.
SeedGetsLocked ==
    \A m \in Models, k \in Seeds :
        seeds[m][k].status = "anchored" ~> seeds[m][k].status = "locked"
=============================================================================
