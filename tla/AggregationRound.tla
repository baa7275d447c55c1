-------------------------- MODULE AggregationRound --------------------------
(***************************************************************************)
(* The aggregation half of one global iteration, in DINTaskCoordinator.sol:*)
(* the partition of active aggregators and approved models into batches,   *)
(* the commit-then-reveal vote of each tier, its finalisation, and the     *)
(* slash of the aggregators that were silent or disagreed.                 *)
(*                                                                         *)
(* It is composed with the stake contract: the validators' accounts and    *)
(* the DIN are those of ValidatorStake.tla, the other task contracts and   *)
(* the owner go on acting on them between any two calls of the round, and  *)
(* this coordinator slashes through them as the slasher ThisTask.          *)
(*                                                                         *)
(* A commit hash binds the aggregator, the batch and the CID, so a         *)
(* commitment is modelled by the CID it hides.                             *)
(***************************************************************************)
EXTENDS ValidatorStake, SequencesExt

CONSTANTS
    Cids,                \* CIDs an aggregator may commit to
    NoCid,               \* bytes32(0)
    ThisTask,            \* the coordinator, as a slasher
    GI,                  \* index of the iteration
    AggregatorShuffles,  \* bound: outcomes explored of the shuffle of the active aggregators
    ModelShuffles,       \* ... and of the shuffle of the approved models
    EarlierMisses,       \* bound: rings the earlier iterations may have left
    S2Fractions,         \* values passed to setS2SlashFractionBps
    InitialStake,        \* active stake of each aggregator at the start
    Disturbed            \* bound: validators that other contracts and the owner act on

BatchSize == 3           \* T1_AGGREGATORS_PER_BATCH and T1_MODELS_PER_BATCH
MinModels == 2           \* MIN_T1_MODELS_PER_BATCH

ASSUME RoundAssumption ==
    /\ NoCid \notin Cids
    /\ ThisTask \in Slashers
    /\ GI \in Nat \ {0} /\ GI <= MaxGI
    /\ \A s \in AggregatorShuffles : s \in Seq(Validators) /\ IsInjective(s)
    /\ \A s \in ModelShuffles : s \in Seq(Nat) /\ IsInjective(s)
    /\ EarlierMisses \subseteq Seq(0..(GI - 1))
    /\ S2Fractions \subseteq Nat
    /\ InitialStake \in 0..InitialBalance
    /\ Disturbed \subseteq Validators

Tiers == {1, 2}

\* The GI states of this half, and the phases of the two tiers.
CommitPhase   == <<"T1AggregationStarted", "T2AggregationStarted">>
RevealPhase   == <<"T1AggregationRevealStarted", "T2AggregationRevealStarted">>
DonePhase     == <<"T1AggregationDone", "T2AggregationDone">>
ReadyPhase    == <<"T1nT2Bcreated", "T1AggregationDone">>
RoundStates   ==
    {"AggSeedLocked", "T1nT2Bcreated", "AuditorsSlashed", "AggregatorsSlashed"}
        \cup Range(CommitPhase) \cup Range(RevealPhase) \cup Range(DonePhase)

Batch ==
    [aggregators : Seq(Validators), modelIndexes : Seq(Nat),
     finalized : BOOLEAN, finalCID : Cids \cup {NoCid}, finalizedAt : Nat]

VARIABLES
    GIstate,
    batches,               \* tier1Batches and tier2Batches
    commitHash,            \* t1CommitHash and t2CommitHash, by tier and aggregator
    submissionCID,         \* t1SubmissionCID and t2SubmissionCID; NoCid if not submitted
    votes,                 \* t1Votes and t2Votes, by tier, batch and CID
    aggregatorWeight,
    totalAggregatorWeight,
    s2SlashFractionBps

roundVars == <<GIstate, batches, commitHash, submissionCID, votes,
               aggregatorWeight, totalAggregatorWeight, s2SlashFractionBps>>
accountVars == <<now, config, validators, rings, noParticipationCount, tokens>>
allVars   == <<accountVars, roundVars>>

\* The seed of the batches is locked, every registered aggregator is staked,
\* and the earlier iterations have left some rings behind.
RoundInit ==
    /\ now = 0
    /\ params = InitialParams
    /\ treasurySet = FALSE
    /\ slasherContracts = Slashers
    /\ validators = [v \in Validators |->
           SyncStatus(AddStake(NoValidator, InitialStake), InitialParams.minStake, 0)]
    /\ \E misses \in [Validators -> EarlierMisses] :
          /\ partialSlashGIs = [v \in Validators |->
                 [s \in Slashers |-> IF s = ThisTask THEN misses[v] ELSE <<>>]]
          /\ partialSlashTimes = [v \in Validators |->
                 IF InitialParams.s5GlobalThreshold = 0 THEN <<>>
                 ELSE [i \in 1..Len(misses[v]) |-> 0]]
          /\ sinceEscalation = [v \in Validators |-> Len(misses[v])]
          /\ sinceEscalationBy = [v \in Validators |->
                 [s \in Slashers |-> IF s = ThisTask THEN Len(misses[v]) ELSE 0]]
    /\ partialSlashEpoch = [v \in Validators |-> [s \in Slashers |-> 0]]
    /\ s5EscalationEpoch = [v \in Validators |-> 0]
    /\ noParticipationCount = [v \in Validators |-> 0]
    /\ wallet = [v \in Validators |-> InitialBalance - InitialStake]
    /\ held = InitialStake * Cardinality(Validators)
    /\ treasury = 0
    /\ burned = 0
    /\ reportedGI = [s \in Slashers |-> IF s = ThisTask THEN GI - 1 ELSE 0]
    /\ GIstate = "AggSeedLocked"
    /\ batches = <<<<>>, <<>>>>
    /\ commitHash = [t \in Tiers |-> [v \in Validators |-> NoCid]]
    /\ submissionCID = [t \in Tiers |-> [v \in Validators |-> NoCid]]
    /\ votes = <<<<>>, <<>>>>
    /\ aggregatorWeight = [v \in Validators |-> 0]
    /\ totalAggregatorWeight = 0
    /\ s2SlashFractionBps = 3000

-----------------------------------------------------------------------------
(* Batch creation. *)

NewBatch(aggregators, models) ==
    [aggregators |-> aggregators, modelIndexes |-> models,
     finalized |-> FALSE, finalCID |-> NoCid, finalizedAt |-> 0]

\* The greedy loop makes batch i as long as three aggregators and at least two
\* models are left for it.
Tier1Count(pool, models) ==
    Cardinality({i \in 1..Len(pool) :
        /\ BatchSize * i <= Len(pool)
        /\ BatchSize * (i - 1) + MinModels <= Len(models)})

Tier1(pool, models) ==
    [i \in 1..Tier1Count(pool, models) |->
        NewBatch(SubSeq(pool, BatchSize * (i - 1) + 1, BatchSize * i),
                 SubSeq(models, BatchSize * (i - 1) + 1,
                        IF BatchSize * i <= Len(models) THEN BatchSize * i
                        ELSE Len(models)))]

\* A Tier-2 batch drawn from the last Tier-1 batch.
Tier2FromUsed(pool, models) ==
    LET used == BatchSize * Tier1Count(pool, models)
    IN  IF Len(pool) - used >= BatchSize
        THEN <<NewBatch(SubSeq(pool, used, used + BatchSize - 1), <<>>)>>
        ELSE <<>>

\* Exactly three of the aggregators Tier 1 left over, if there are three.
Tier2(pool, models) ==
    LET used == BatchSize * Tier1Count(pool, models)
    IN  IF Len(pool) - used >= BatchSize
        THEN <<NewBatch(SubSeq(pool, used + 1, used + BatchSize), <<>>)>>
        ELSE <<>>

NoVotes(tierBatches) == [b \in DOMAIN tierBatches |-> [c \in Cids |-> 0]]

\* The registered aggregators that are Active now are shuffled, and so are the
\* approved models.
AutoCreateTier1AndTier2(pool, models) ==
    /\ GIstate = "AggSeedLocked"
    /\ Range(pool) = {a \in Validators : IsActive(validators[a])}
    /\ Len(pool) >= BatchSize
    /\ Len(models) >= BatchSize
    /\ batches' = <<Tier1(pool, models), Tier2(pool, models)>>
    /\ votes' = <<NoVotes(Tier1(pool, models)), NoVotes(Tier2(pool, models))>>
    /\ GIstate' = "T1nT2Bcreated"
    /\ UNCHANGED <<accountVars, commitHash, submissionCID, aggregatorWeight,
                   totalAggregatorWeight, s2SlashFractionBps>>

-----------------------------------------------------------------------------
(* Commit, reveal and finalise, in either tier. *)

InBatch(a, batch) == a \in Range(batch.aggregators)

Submitted(t, a) == submissionCID[t][a] # NoCid

\* The calls of the owner that only move the GI on.
MoveOn(from, to) ==
    /\ GIstate = from
    /\ GIstate' = to
    /\ UNCHANGED <<accountVars, batches, commitHash, submissionCID, votes,
                   aggregatorWeight, totalAggregatorWeight, s2SlashFractionBps>>

StartAggregation(t) == MoveOn(ReadyPhase[t], CommitPhase[t])

StartAggregationReveal(t) == MoveOn(CommitPhase[t], RevealPhase[t])

CommitAggregation(t, b, a, cid) ==
    /\ GIstate = CommitPhase[t]
    /\ b \in DOMAIN batches[t]
    /\ InBatch(a, batches[t][b])
    /\ IsActive(validators[a])
    /\ commitHash[t][a] = NoCid
    /\ commitHash' = [commitHash EXCEPT ![t][a] = cid]
    /\ UNCHANGED <<accountVars, GIstate, batches, submissionCID, votes,
                   aggregatorWeight, totalAggregatorWeight, s2SlashFractionBps>>

RevealAggregation(t, b, a) ==
    /\ GIstate = RevealPhase[t]
    /\ b \in DOMAIN batches[t]
    /\ InBatch(a, batches[t][b])
    /\ IsActive(validators[a])
    /\ commitHash[t][a] # NoCid
    /\ ~ Submitted(t, a)
    /\ submissionCID' = [submissionCID EXCEPT ![t][a] = commitHash[t][a]]
    /\ votes' = [votes EXCEPT ![t][b][commitHash[t][a]] = @ + 1]
    /\ UNCHANGED <<accountVars, GIstate, batches, commitHash,
                   aggregatorWeight, totalAggregatorWeight, s2SlashFractionBps>>

\* The positions of a batch's aggregators that have revealed.
Revealed(t, batch) == {j \in DOMAIN batch.aggregators : Submitted(t, batch.aggregators[j])}

VotesAt(t, b, j) == votes[t][b][submissionCID[t][batches[t][b].aggregators[j]]]

\* The first CID revealed, without the comparison of the votes.
FirstRevealed(t, b) ==
    LET revealed == Revealed(t, batches[t][b])
        best     == CHOOSE j \in revealed : \A i \in revealed : j <= i
    IN  submissionCID[t][batches[t][b].aggregators[best]]

\* The CID with the most votes; of several, the first in the batch's order.
WinningCID(t, b) ==
    LET revealed == Revealed(t, batches[t][b])
        best     == CHOOSE j \in revealed :
                        \A i \in revealed : /\ VotesAt(t, b, i) <= VotesAt(t, b, j)
                                            /\ VotesAt(t, b, i) = VotesAt(t, b, j) => j <= i
    IN  submissionCID[t][batches[t][b].aggregators[best]]

\* The number of the tier's batches that a sits in.
BatchesOf(a, t) == Cardinality({b \in DOMAIN batches[t] : InBatch(a, batches[t][b])})

Quorum == BatchSize \div 2 + 1

\* Weight for the aggregators that revealed, total for all of them.
WeightOfRevealers(t) ==
    /\ aggregatorWeight' = [v \in Validators |->
           aggregatorWeight[v] + (IF Submitted(t, v) THEN BatchesOf(v, t) ELSE 0)]
    /\ totalAggregatorWeight' = totalAggregatorWeight + BatchSize * Len(batches[t])

\* One unit of weight per assigned aggregator and batch, whatever it revealed.
AccrueWeight(t) ==
    /\ aggregatorWeight' = [v \in Validators |-> aggregatorWeight[v] + BatchesOf(v, t)]
    /\ totalAggregatorWeight' = totalAggregatorWeight + BatchSize * Len(batches[t])

\* All the tier's batches are finalised in one call, or none is.
FinalizeAggregation(t) ==
    /\ GIstate = RevealPhase[t]
    /\ \A b \in DOMAIN batches[t] : Cardinality(Revealed(t, batches[t][b])) >= Quorum
    /\ batches' = [batches EXCEPT ![t] =
           [b \in DOMAIN batches[t] |->
               [batches[t][b] EXCEPT !.finalized = TRUE,
                                     !.finalCID = WinningCID(t, b),
                                     !.finalizedAt = now]]]
    /\ AccrueWeight(t)
    /\ GIstate' = DonePhase[t]
    /\ UNCHANGED <<accountVars, commitHash, submissionCID, votes, s2SlashFractionBps>>

\* The call of DINTaskAuditor's half of the slash, which is not modelled here.
SlashAuditors == MoveOn("T2AggregationDone", "AuditorsSlashed")

-----------------------------------------------------------------------------
(* The slash of the aggregators. *)

Assigned(t, a) == \E b \in DOMAIN batches[t] : InBatch(a, batches[t][b])

\* Every registered aggregator without a submission, assigned or not.
MissedByAnybody(t, a) == ~ Submitted(t, a)

Missed(t, a) == Assigned(t, a) /\ ~ Submitted(t, a)

Dissented(t, a) ==
    /\ Submitted(t, a)
    /\ \E b \in DOMAIN batches[t] : /\ InBatch(a, batches[t][b])
                                    /\ submissionCID[t][a] # batches[t][b].finalCID

S2Amount == (params.minStake * s2SlashFractionBps) \div 10000

\* slashPartial is not called for an amount that rounds to zero.
SlashedPartially(a) == S2Amount > 0 /\ \E t \in Tiers : Missed(t, a)

SlashedInFull(a) == \E t \in Tiers : Dissented(t, a)

Escalated(a) == SlashedPartially(a) /\ Escalates(a, ThisTask, GI)

\* What the slash asks for; an account with less gives what it has.
Penalty(a) ==
    CASE SlashedInFull(a)                          -> params.minStake
      [] SlashedPartially(a) /\ Escalated(a)       -> params.minStake
      [] SlashedPartially(a) /\ ~ Escalated(a)     -> S2Amount
      [] OTHER                                     -> 0

Taken(a) == ActualSlash(validators[a], Penalty(a))

SumOver(f) == SumFunctionOnSet(f, Validators)

\* slashAggregators goes through the batches and calls slash or slashPartial
\* for each fault.  No aggregator sits in two batches, so the calls touch
\* different accounts; one that reverts takes the whole call with it.
SlashAggregators ==
    /\ GIstate = "AuditorsSlashed"
    /\ \A a \in Validators : SlashedInFull(a) \/ SlashedPartially(a)
                                => ThisTask \in slasherContracts
    /\ \A a \in Validators : Escalated(a) => /\ CanJail(validators[a])
                                             /\ now + EscalationJail <= MaxTime
                                             /\ s5EscalationEpoch[a] < MaxEscalations
    /\ validators' = [a \in Validators |->
           IF Escalated(a)
           THEN Jail(SlashNow(validators[a], params.minStake), EscalationJail, now)
           ELSE SlashNow(validators[a], Penalty(a))]
    /\ held' = held - SumOver([a \in Validators |-> Taken(a)])
    /\ treasury' = treasury + (IF treasurySet
                               THEN SumOver([a \in Validators |-> TreasuryShare(Taken(a))])
                               ELSE 0)
    /\ burned' = burned + SumOver([a \in Validators |->
                              IF treasurySet THEN BurnShare(Taken(a)) ELSE Taken(a)])
    /\ partialSlashGIs' = [a \in Validators |->
           CASE Escalated(a) -> [partialSlashGIs[a] EXCEPT ![ThisTask] = <<>>]
             [] SlashedPartially(a) /\ ~ Escalated(a) ->
                    [partialSlashGIs[a] EXCEPT ![ThisTask] = RecordedGIs(a, ThisTask, GI)]
             [] OTHER -> partialSlashGIs[a]]
    /\ partialSlashTimes' = [a \in Validators |->
           CASE Escalated(a) -> <<>>
             [] SlashedPartially(a) /\ ~ Escalated(a) -> RecordedTimes(a)
             [] OTHER -> partialSlashTimes[a]]
    /\ partialSlashEpoch' = [a \in Validators |->
           IF SlashedPartially(a)
           THEN [partialSlashEpoch[a] EXCEPT ![ThisTask] = s5EscalationEpoch[a]]
           ELSE partialSlashEpoch[a]]
    /\ s5EscalationEpoch' = [a \in Validators |->
           s5EscalationEpoch[a] + (IF Escalated(a) THEN 1 ELSE 0)]
    /\ sinceEscalation' = [a \in Validators |->
           CASE Escalated(a) -> 0
             [] SlashedPartially(a) /\ ~ Escalated(a) -> sinceEscalation[a] + 1
             [] OTHER -> sinceEscalation[a]]
    /\ sinceEscalationBy' = [a \in Validators |->
           CASE Escalated(a) -> [s \in Slashers |-> 0]
             [] SlashedPartially(a) /\ ~ Escalated(a) ->
                    [sinceEscalationBy[a] EXCEPT ![ThisTask] = @ + 1]
             [] OTHER -> sinceEscalationBy[a]]
    /\ reportedGI' = [reportedGI EXCEPT ![ThisTask] = GI]
    /\ GIstate' = "AggregatorsSlashed"
    /\ UNCHANGED <<now, config, noParticipationCount, wallet, batches, commitHash,
                   submissionCID, votes, aggregatorWeight, totalAggregatorWeight,
                   s2SlashFractionBps>>

\* A fraction that may exceed the whole.
SetUncappedFraction(bps) ==
    /\ bps # 0
    /\ s2SlashFractionBps' = bps
    /\ UNCHANGED <<accountVars, GIstate, batches, commitHash, submissionCID, votes,
                   aggregatorWeight, totalAggregatorWeight>>

SetS2SlashFractionBps(bps) ==
    /\ bps # 0 /\ bps <= 10000
    /\ s2SlashFractionBps' = bps
    /\ UNCHANGED <<accountVars, GIstate, batches, commitHash, submissionCID, votes,
                   aggregatorWeight, totalAggregatorWeight>>

-----------------------------------------------------------------------------
OwnerCall ==
    \/ \E pool \in AggregatorShuffles, models \in ModelShuffles :
           AutoCreateTier1AndTier2(pool, models)
    \/ \E t \in Tiers : StartAggregation(t)
    \/ \E t \in Tiers : StartAggregationReveal(t)
    \/ \E t \in Tiers : FinalizeAggregation(t)
    \/ SlashAuditors
    \/ SlashAggregators
    \/ \E bps \in S2Fractions : SetS2SlashFractionBps(bps)

AggregatorCall(a) ==
    \E t \in Tiers : \E b \in DOMAIN batches[t] :
        \/ \E cid \in Cids : CommitAggregation(t, b, a, cid)
        \/ RevealAggregation(t, b, a)

\* What happens to the accounts meanwhile: time, the validators themselves,
\* the other models' task contracts and the platform owner.
StakeMoves ==
    /\ \/ Tick
       \/ \E v \in Disturbed : ValidatorStep(v)
       \/ \E s \in Slashers \ {ThisTask}, v \in Disturbed : SlasherStep(s, v)
       \/ \E v \in Disturbed : BlacklistValidator(v)
       \/ \E v \in Disturbed : UnblacklistValidator(v)
    /\ UNCHANGED roundVars

RoundNext == OwnerCall \/ (\E a \in Validators : AggregatorCall(a)) \/ StakeMoves

RoundSpec == RoundInit /\ [][RoundNext]_allVars

\* The owner carries on as soon as the contract lets it, but closes a phase
\* only when it wants to: nothing makes an aggregator reveal.
RoundFairSpec ==
    /\ RoundSpec
    /\ \A t \in Tiers : WF_allVars(FinalizeAggregation(t))
    /\ \A t \in Tiers : WF_allVars(StartAggregation(t))
    /\ \A t \in Tiers : WF_allVars(StartAggregationReveal(t))
    /\ WF_allVars(SlashAuditors)
    /\ WF_allVars(SlashAggregators)

-----------------------------------------------------------------------------
(* Safety. *)

\* The partition of autoCreateTier1AndTier2: three aggregators to a batch and
\* none in two batches of either tier; two or three approved models to a
\* Tier-1 batch and none in two.
PartitionIsDisjoint ==
    /\ \A t \in Tiers : \A b \in DOMAIN batches[t] :
          Cardinality(Range(batches[t][b].aggregators)) = BatchSize
    /\ \A t, u \in Tiers : \A b \in DOMAIN batches[t], c \in DOMAIN batches[u] :
          <<t, b>> # <<u, c>> =>
              Range(batches[t][b].aggregators) \cap Range(batches[u][c].aggregators) = {}
    /\ \A b \in DOMAIN batches[1] :
          Cardinality(Range(batches[1][b].modelIndexes)) \in MinModels..BatchSize
    /\ \A b, c \in DOMAIN batches[1] :
          b # c => Range(batches[1][b].modelIndexes) \cap Range(batches[1][c].modelIndexes) = {}

Supporters(t, batch, cid) ==
    {a \in Range(batch.aggregators) : submissionCID[t][a] = cid}

\* A finalised batch has the CID that most of its aggregators revealed, out of
\* at least two that revealed one: two aggregators that agree always prevail
\* over the third.
PluralityWins ==
    \A t \in Tiers : \A b \in DOMAIN batches[t] :
        LET batch == batches[t][b]
        IN  batch.finalized =>
                /\ batch.finalCID \in Cids
                /\ Cardinality(Revealed(t, batch)) >= Quorum
                /\ \A cid \in Cids : Cardinality(Supporters(t, batch, cid))
                                        <= Cardinality(Supporters(t, batch, batch.finalCID))

FinalizedBatches(t) == {b \in DOMAIN batches[t] : batches[t][b].finalized}

\* The settlement denominator is the sum of the aggregators' weights, and both
\* are one unit per aggregator of a finalised batch.
WeightAddsUp ==
    /\ totalAggregatorWeight = SumOver(aggregatorWeight)
    /\ totalAggregatorWeight =
          BatchSize * (Cardinality(FinalizedBatches(1)) + Cardinality(FinalizedBatches(2)))

-----------------------------------------------------------------------------
(* What a step may never do. *)

Conformed(t, a) ==
    \E b \in DOMAIN batches[t] : /\ InBatch(a, batches[t][b])
                                 /\ submissionCID[t][a] = batches[t][b].finalCID

\* slashAggregators touches no account but those of the aggregators that were
\* assigned to a batch and did not reveal its final CID.
OnlyFaultsAreSlashed ==
    [][\A a \in Validators :
          /\ GIstate' # GIstate
          /\ \A t \in Tiers : Assigned(t, a) => Conformed(t, a)
          => validators'[a] = validators[a]]_allVars

\* One iteration costs an aggregator at most MIN_STAKE, escalation included,
\* and silence never more than a wrong CID does (DINTaskCoordinator.sol:1207-1210).
RoundLossBounded ==
    [][\A a \in Validators :
          GIstate' # GIstate =>
              SlashableStake(validators[a]) - SlashableStake(validators'[a])
                  <= params.minStake]_allVars

-----------------------------------------------------------------------------
(* Claims of the documentation. *)

\* A committed-but-never-revealed aggregator "remain[s] slashable"
\* (DINTaskCoordinator.sol:903-905): under RoundFairSpec an aggregator that
\* committed reveals, or the iteration reaches the slash.
NonRevealersAreSlashed ==
    \A t \in Tiers, a \in Validators :
        commitHash[t][a] # NoCid
            ~> Submitted(t, a) \/ GIstate = "AggregatorsSlashed"
=============================================================================
