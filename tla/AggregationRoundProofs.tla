----------------------- MODULE AggregationRoundProofs -----------------------
(***************************************************************************)
(* Theorems of AggregationRound.tla, for any set of aggregators, any       *)
(* outcome of the shuffles and any number of batches.                      *)
(*                                                                         *)
(* The round is composed with the stake contract.  Its calls leave the     *)
(* accounts alone, but for slashAggregators, which writes many accounts at *)
(* once: each as one of the stake contract's own slashes would.  The       *)
(* second half is about the vote: the partition gives every aggregator one *)
(* seat, so each count of votes is the number of the supporters of a CID;  *)
(* a finalised batch adds one unit for each of its seats to the weights.   *)
(***************************************************************************)
EXTENDS AggregationRound, ValidatorStakeProofs

(* The accounts. *)

FractionOK == s2SlashFractionBps \in 0..10000

\* A call that does not slash is a step of the stake contract, or none.
LEMMA OtherStepsAreStakeSteps ==
    ASSUME [RoundNext]_allVars PROVE [Next]_vars \/ SlashAggregators
<1>1. CASE UNCHANGED accountVars
  BY <1>1 DEF accountVars, vars
<1>2. CASE StakeMoves
  <2>1. CASE Tick
    BY <2>1 DEF Next
  <2>2. CASE \E v \in Disturbed : ValidatorStep(v)
    BY <2>2, RoundAssumption DEF Next
  <2>3. CASE \E s \in Slashers \ {ThisTask}, v \in Disturbed : SlasherStep(s, v)
    BY <2>3, RoundAssumption DEF Next
  <2>4. CASE \E v \in Disturbed : BlacklistValidator(v) \/ UnblacklistValidator(v)
    BY <2>4, RoundAssumption DEF Next, OwnerStep
  <2> QED
    BY <1>2, <2>1, <2>2, <2>3, <2>4 DEF StakeMoves
<1>3. CASE OwnerCall /\ ~ SlashAggregators
  <2>1. CASE \E pool \in AggregatorShuffles, models \in ModelShuffles :
                 AutoCreateTier1AndTier2(pool, models)
    BY <1>1, <2>1 DEF AutoCreateTier1AndTier2
  <2>2. CASE \E t \in Tiers : \/ StartAggregation(t) \/ StartAggregationReveal(t)
                              \/ FinalizeAggregation(t)
    <3>1. UNCHANGED accountVars
      BY <2>2 DEF StartAggregation, StartAggregationReveal, MoveOn, FinalizeAggregation
    <3> QED
      BY <1>1, <3>1
  <2>3. CASE SlashAuditors \/ \E bps \in S2Fractions : SetS2SlashFractionBps(bps)
    BY <1>1, <2>3 DEF SlashAuditors, MoveOn, SetS2SlashFractionBps
  <2> QED
    BY <1>3, <2>1, <2>2, <2>3 DEF OwnerCall
<1>4. CASE \E a \in Validators : AggregatorCall(a)
  <2>1. UNCHANGED accountVars
    BY <1>4 DEF AggregatorCall, CommitAggregation, RevealAggregation
  <2> QED
    BY <1>1, <2>1
<1>5. CASE UNCHANGED allVars
  BY <1>1, <1>5 DEF allVars
<1> QED
  BY <1>2, <1>3, <1>4, <1>5 DEF RoundNext

LEMMA FractionStep ==
    ASSUME FractionOK, [RoundNext]_allVars PROVE FractionOK'
<1>1. CASE UNCHANGED s2SlashFractionBps
  BY <1>1 DEF FractionOK
<1>2. CASE OwnerCall
  <2>1. CASE \E bps \in S2Fractions : SetS2SlashFractionBps(bps)
    BY <2>1, RoundAssumption, SMTT(30) DEF SetS2SlashFractionBps, FractionOK
  <2> QED
    BY <1>1, <1>2, <2>1 DEF OwnerCall, AutoCreateTier1AndTier2, StartAggregation,
       StartAggregationReveal, MoveOn, FinalizeAggregation, SlashAuditors, SlashAggregators
<1>3. CASE \E a \in Validators : AggregatorCall(a)
  BY <1>1, <1>3 DEF AggregatorCall, CommitAggregation, RevealAggregation
<1>4. CASE StakeMoves \/ UNCHANGED allVars
  BY <1>1, <1>4 DEF StakeMoves, allVars, roundVars
<1> QED
  BY <1>2, <1>3, <1>4 DEF RoundNext

\* A fraction of MIN_STAKE is at most all of it.
LEMMA FractionOfStake ==
    ASSUME IInv, FractionOK
    PROVE  S2Amount \in Nat /\ S2Amount <= params.minStake
<1>1. PICK min : min = params.minStake
  OBVIOUS
<1>2. PICK bps : bps = s2SlashFractionBps
  OBVIOUS
<1>3. min \in Nat /\ bps \in 0..10000
  BY <1>1, <1>2, ParamsParts, IInvParts DEF FractionOK
<1>4. PICK taken : taken = min * bps
  OBVIOUS
<1>5. PICK rest : rest = min * (10000 - bps)
  OBVIOUS
<1>6. taken \in Nat /\ rest \in Nat
  BY <1>3, <1>4, <1>5
<1>7. taken + rest = min * 10000
  BY <1>3, <1>4, <1>5
<1>8. taken \div 10000 \in Nat /\ taken \div 10000 <= min
  BY <1>3, <1>6, <1>7
<1>9. S2Amount = taken \div 10000
  BY <1>1, <1>2, <1>4 DEF S2Amount
<1> QED
  BY <1>1, <1>8, <1>9

LEMMA PenaltyBounded ==
    ASSUME IInv, FractionOK, NEW a \in Validators
    PROVE  Penalty(a) \in Nat /\ Penalty(a) <= params.minStake
<1>1. params.minStake \in Nat
  BY ParamsParts, IInvParts
<1> QED
  BY <1>1, FractionOfStake DEF Penalty

\* A slash takes no more than it asks for.
LEMMA LossOfSlash ==
    ASSUME NEW a \in ValidatorInfo, NEW minStake \in Nat \ {0}, NEW t \in Nat,
           NEW amount \in Nat, AccountOK(a, t),
           NEW b, b = ApplySlash(a, amount, minStake, t)
    PROVE  SlashableStake(a) - SlashableStake(b) <= amount
<1>1. SlashableStake(b) = SlashableStake(a) - ActualSlash(a, amount)
  BY ApplySlashOK
<1>2. ActualSlash(a, amount) \in Nat /\ ActualSlash(a, amount) <= amount
  BY ActualSlashBounds
<1>3. SlashableStake(a) \in Nat
  BY DEF SlashableStake, ValidatorInfo
<1> QED
  BY <1>1, <1>2, <1>3

\* What slashAggregators does to one account is what a slash of the stake
\* contract could have done, and takes at most MIN_STAKE.
LEMMA SlashedAccount ==
    ASSUME IInv, FractionOK, SlashAggregators, NEW a \in Validators,
           NEW info, info = validators'[a]
    PROVE  /\ info \in ValidatorInfo
           /\ AccountOK(info, now)
           /\ GoodWrite(validators[a], info)
           /\ SlashableStake(validators[a]) - SlashableStake(info) <= params.minStake
<1>1. PICK old : old = validators[a]
  OBVIOUS
<1>2. old \in ValidatorInfo /\ AccountOK(old, now) /\ now \in Nat
  BY <1>1, CurrentAccount
<1>3. PICK min : min = params.minStake
  OBVIOUS
<1>4. min \in Nat \ {0} /\ min \in Nat
  BY <1>3, ParamsParts, IInvParts
<1>5. CASE Escalated(a)
  <2>1. PICK slashed : slashed = SlashNow(old, min)
    OBVIOUS
  <2>2. PICK duration : duration = EscalationJail
    OBVIOUS
  <2>3. info = Jail(slashed, duration, now)
    BY <1>1, <1>3, <1>5, <2>1, <2>2 DEF SlashAggregators
  <2>4. /\ slashed \in ValidatorInfo /\ AccountOK(slashed, now)
        /\ slashed.jailedUntil = old.jailedUntil
        /\ slashed.pendingWithdrawals > 0
              => slashed.withdrawAvailableAt = old.withdrawAvailableAt
    BY <1>1, <1>4, <2>1, SlashAccount, IInvParts
  <2>5. SlashableStake(old) - SlashableStake(slashed) <= min
    <3>1. slashed = ApplySlash(old, min, min, now)
      BY <1>3, <2>1 DEF SlashNow
    <3> QED
      BY <1>2, <1>4, <3>1, LossOfSlash
  <2>6. duration \in Nat
    BY <2>2, ParamsParts, IInvParts
  <2>7. /\ info \in ValidatorInfo /\ AccountOK(info, now)
        /\ JailWritten(slashed, info, now, duration)
    BY <1>2, <2>3, <2>4, <2>6, JailOK
  <2>8. GoodWrite(old, info)
    BY <1>2, <2>4, <2>6, <2>7 DEF GoodWrite, JailWritten, ValidatorInfo
  <2>9. SlashableStake(info) = SlashableStake(slashed)
    BY <2>7 DEF JailWritten, SlashableStake
  <2> QED
    BY <1>1, <1>3, <2>5, <2>7, <2>8, <2>9
<1>6. CASE ~ Escalated(a)
  <2>1. PICK amount : amount = Penalty(a)
    OBVIOUS
  <2>2. amount \in Nat /\ amount <= min
    BY <1>3, <2>1, PenaltyBounded
  <2>3. info = SlashNow(old, amount)
    BY <1>1, <1>6, <2>1 DEF SlashAggregators
  <2>4. /\ info \in ValidatorInfo /\ AccountOK(info, now)
        /\ info.jailedUntil = old.jailedUntil
        /\ info.pendingWithdrawals > 0
              => info.withdrawAvailableAt = old.withdrawAvailableAt
        /\ info.status = "Active" =>
              \/ info = old
              \/ info.activeStake >= min /\ info.pendingWithdrawals = 0
    BY <1>1, <1>3, <2>2, <2>3, SlashAccount, IInvParts
  <2>5. GoodWrite(old, info)
    BY <1>2, <1>3, <2>4 DEF GoodWrite, ValidatorInfo
  <2>6. SlashableStake(old) - SlashableStake(info) <= amount
    <3>1. info = ApplySlash(old, amount, min, now)
      BY <1>3, <2>3 DEF SlashNow
    <3>2. now \in Nat /\ min \in Nat \ {0} /\ amount \in Nat /\ AccountOK(old, now)
      BY <1>2, <1>4, <2>2
    <3> QED
      BY <1>2, <3>1, <3>2, LossOfSlash
  <2>7. SlashableStake(old) \in Nat /\ SlashableStake(info) \in Nat
    BY <1>2, <2>4 DEF SlashableStake, ValidatorInfo
  <2>8. SlashableStake(old) - SlashableStake(info) <= min
    BY <1>4, <2>2, <2>6, <2>7
  <2> QED
    BY <1>1, <1>3, <2>4, <2>5, <2>8
<1> QED
  BY <1>5, <1>6

\* And what it does to the rings is typed.
LEMMA SlashedRest ==
    ASSUME IInv, SlashAggregators PROVE RestTyped'
<1>1. UNCHANGED <<now, config, noParticipationCount, wallet>>
  BY DEF SlashAggregators
<1>2. RestTyped
  BY IInvParts
<1>3. GI \in Nat /\ ThisTask \in Slashers
  BY RoundAssumption
<1>4. \A a \in Validators : /\ RecordedGIs(a, ThisTask, GI) \in Seq(Nat)
                            /\ RecordedTimes(a) \in Seq(Nat)
  BY <1>2, <1>3, RecordedTyped
<1>5. partialSlashGIs' \in [Validators -> [Slashers -> Seq(Nat)]]
  <2>1. <<>> \in Seq(Nat)
    OBVIOUS
  <2>2. \A e \in Seq(Nat), a \in Validators :
            [partialSlashGIs[a] EXCEPT ![ThisTask] = e] \in [Slashers -> Seq(Nat)]
    BY <1>2, <1>3 DEF RestTyped
  <2>3. \A a \in Validators : partialSlashGIs[a] \in [Slashers -> Seq(Nat)]
    BY <1>2 DEF RestTyped
  <2>4. ASSUME NEW a \in Validators
        PROVE  (CASE Escalated(a) -> [partialSlashGIs[a] EXCEPT ![ThisTask] = <<>>]
                  [] SlashedPartially(a) /\ ~ Escalated(a) ->
                         [partialSlashGIs[a] EXCEPT ![ThisTask] = RecordedGIs(a, ThisTask, GI)]
                  [] OTHER -> partialSlashGIs[a]) \in [Slashers -> Seq(Nat)]
    <3>1. [partialSlashGIs[a] EXCEPT ![ThisTask] = <<>>] \in [Slashers -> Seq(Nat)]
      BY <2>1, <2>2
    <3>2. [partialSlashGIs[a] EXCEPT ![ThisTask] = RecordedGIs(a, ThisTask, GI)]
             \in [Slashers -> Seq(Nat)]
      BY <1>4, <2>2
    <3> QED
      BY <2>3, <3>1, <3>2
  <2> QED
    BY <2>4 DEF SlashAggregators
<1>6. partialSlashTimes' \in [Validators -> Seq(Nat)]
  <2>1. <<>> \in Seq(Nat) /\ \A a \in Validators : partialSlashTimes[a] \in Seq(Nat)
    BY <1>2 DEF RestTyped
  <2> QED
    BY <1>4, <2>1 DEF SlashAggregators
<1>7. partialSlashEpoch' \in [Validators -> [Slashers -> Nat]]
  <2>1. \A a \in Validators : /\ partialSlashEpoch[a] \in [Slashers -> Nat]
                              /\ s5EscalationEpoch[a] \in Nat
    BY <1>2 DEF RestTyped
  <2>2. \A a \in Validators :
            [partialSlashEpoch[a] EXCEPT ![ThisTask] = s5EscalationEpoch[a]]
                \in [Slashers -> Nat]
    BY <1>3, <2>1
  <2> QED
    BY <2>1, <2>2 DEF SlashAggregators
<1>8. s5EscalationEpoch' \in [Validators -> Nat] /\ sinceEscalation' \in [Validators -> Nat]
  BY <1>2, SMTT(30) DEF SlashAggregators, RestTyped
<1>9. sinceEscalationBy' \in [Validators -> [Slashers -> Nat]]
  <2>1. \A a \in Validators : sinceEscalationBy[a] \in [Slashers -> Nat]
    BY <1>2 DEF RestTyped
  <2>2. \A a \in Validators :
            [sinceEscalationBy[a] EXCEPT ![ThisTask] = @ + 1] \in [Slashers -> Nat]
    BY <1>3, <2>1
  <2>3. [s \in Slashers |-> 0] \in [Slashers -> Nat]
    OBVIOUS
  <2> QED
    BY <2>1, <2>2, <2>3 DEF SlashAggregators
<1>10. reportedGI' \in [Slashers -> Nat]
  BY <1>2, <1>3 DEF SlashAggregators, RestTyped
<1> QED
  BY <1>1, <1>2, <1>5, <1>6, <1>7, <1>8, <1>9, <1>10 DEF RestTyped, config

LEMMA SlashKeepsIInv ==
    ASSUME IInv, FractionOK, SlashAggregators PROVE IInv'
<1>1. now' = now
  BY DEF SlashAggregators
<1>2. AccountsTyped'
  <2>1. validators' = [a \in Validators |-> validators'[a]]
    BY DEF SlashAggregators
  <2> QED
    BY <2>1, SlashedAccount DEF AccountsTyped
<1>3. AccountsOK'
  BY <1>1, SlashedAccount DEF AccountsOK
<1> QED
  BY <1>2, <1>3, SlashedRest, IInvParts2

-----------------------------------------------------------------------------
(* The partition and the votes. *)

\* No aggregator has two seats in the batches of the two tiers.
PartitionOf(bs) ==
    /\ bs \in [Tiers -> Seq(Batch)]
    /\ \A t \in Tiers : \A b \in 1..Len(bs[t]) : Len(bs[t][b].aggregators) = BatchSize
    /\ \A t, u \in Tiers : \A b \in 1..Len(bs[t]), c \in 1..Len(bs[u]) :
          \A i, j \in 1..BatchSize :
              bs[t][b].aggregators[i] = bs[u][c].aggregators[j]
                  => t = u /\ b = c /\ i = j
    /\ \A b \in 1..Len(bs[1]) : Len(bs[1][b].modelIndexes) \in MinModels..BatchSize
    /\ \A b, c \in 1..Len(bs[1]) :
          \A i \in 1..Len(bs[1][b].modelIndexes), j \in 1..Len(bs[1][c].modelIndexes) :
              bs[1][b].modelIndexes[i] = bs[1][c].modelIndexes[j] => b = c /\ i = j

PartitionOK == PartitionOf(batches)

Submissions == [Tiers -> [Validators -> Cids \cup {NoCid}]]

SubmissionsOK ==
    /\ commitHash \in Submissions
    /\ submissionCID \in Submissions
    /\ GIstate = "AggSeedLocked" =>
          \A t \in Tiers, a \in Validators : submissionCID[t][a] = NoCid

\* The votes for a CID are its supporters.
VotesOK ==
    /\ votes \in [Tiers -> Seq([Cids -> Nat])]
    /\ \A t \in Tiers : Len(votes[t]) = Len(batches[t])
    /\ \A t \in Tiers : \A b \in 1..Len(batches[t]) : \A c \in Cids :
          votes[t][b][c] = Cardinality(Supporters(t, batches[t][b], c))

\* The states that follow the finalisation of a tier.
After == <<{"T1AggregationDone", "T2AggregationStarted", "T2AggregationRevealStarted",
            "T2AggregationDone", "AuditorsSlashed", "AggregatorsSlashed"},
           {"T2AggregationDone", "AuditorsSlashed", "AggregatorsSlashed"}>>

\* What finalisation establishes of a batch.
Decided(t, batch) ==
    /\ batch.finalCID \in Cids
    /\ Cardinality(Revealed(t, batch)) >= Quorum
    /\ \A cid \in Cids : Cardinality(Supporters(t, batch, cid))
                            <= Cardinality(Supporters(t, batch, batch.finalCID))

DecisionsOK ==
    \A t \in Tiers : \A b \in 1..Len(batches[t]) :
        /\ batches[t][b].finalized <=> GIstate \in After[t]
        /\ batches[t][b].finalized => Decided(t, batches[t][b])

VoteInv == PartitionOK /\ SubmissionsOK /\ VotesOK /\ DecisionsOK

LEMMA PartitionStays == ASSUME PartitionOK, batches' = batches PROVE PartitionOK'
  BY DEF PartitionOK

\* The seats of a batch.
LEMMA Seats ==
    ASSUME PartitionOK, NEW t \in Tiers, NEW b \in DOMAIN batches[t]
    PROVE  /\ b \in 1..Len(batches[t])
           /\ batches[t][b] \in Batch
           /\ DOMAIN batches[t][b].aggregators = 1..BatchSize
           /\ \A i \in 1..BatchSize : batches[t][b].aggregators[i] \in Validators
<1>1. batches[t] \in Seq(Batch)
  BY DEF PartitionOK, PartitionOf
<1>2. b \in 1..Len(batches[t]) /\ batches[t][b] \in Batch
  BY <1>1
<1>3. batches[t][b].aggregators \in Seq(Validators)
  BY <1>2 DEF Batch
<1>4. Len(batches[t][b].aggregators) = BatchSize
  BY <1>2 DEF PartitionOK, PartitionOf
<1> QED
  BY <1>2, <1>3, <1>4

\* An aggregator sits in one batch of one tier.
LEMMA OneSeat ==
    ASSUME PartitionOK, NEW t \in Tiers, NEW b \in DOMAIN batches[t],
           NEW u \in Tiers, NEW c \in DOMAIN batches[u],
           NEW a, InBatch(a, batches[t][b]), InBatch(a, batches[u][c])
    PROVE  t = u /\ b = c
<1>1. PICK i \in 1..BatchSize : batches[t][b].aggregators[i] = a
  BY Seats DEF InBatch, Range
<1>2. PICK j \in 1..BatchSize : batches[u][c].aggregators[j] = a
  BY Seats DEF InBatch, Range
<1>3. b \in 1..Len(batches[t]) /\ c \in 1..Len(batches[u])
  BY Seats
<1> QED
  BY <1>1, <1>2, <1>3 DEF PartitionOK, PartitionOf

\* As many members as positions.
LEMMA InjectiveRange ==
    ASSUME NEW T, NEW s \in Seq(T), \A i, j \in 1..Len(s) : s[i] = s[j] => i = j
    PROVE  IsFiniteSet(Range(s)) /\ Cardinality(Range(s)) = Len(s)
<1>1. DOMAIN s = 1..Len(s) /\ Len(s) \in Nat
  OBVIOUS
<1>2. s \in Bijection(1..Len(s), Range(s))
  <2>1. s \in [1..Len(s) -> Range(s)]
    BY <1>1 DEF Range
  <2>2. s \in Injection(1..Len(s), Range(s))
    BY <1>1, <2>1 DEF Injection, IsInjective
  <2>3. s \in Surjection(1..Len(s), Range(s))
    BY <1>1, <2>1 DEF Surjection, Range
  <2> QED
    BY <2>2, <2>3 DEF Bijection
<1>3. ExistsBijection(1..Len(s), Range(s))
  BY <1>2 DEF ExistsBijection
<1>4. IsFiniteSet(1..Len(s)) /\ Cardinality(1..Len(s)) = Len(s)
  BY <1>1, FS_Interval
<1> QED
  BY <1>3, <1>4, FS_Bijection

LEMMA SeatsAreDisjoint == PartitionOK => PartitionIsDisjoint
<1> SUFFICES ASSUME PartitionOK PROVE PartitionIsDisjoint
  OBVIOUS
<1>1. ASSUME NEW t \in Tiers, NEW b \in DOMAIN batches[t]
      PROVE  Cardinality(Range(batches[t][b].aggregators)) = BatchSize
  <2>1. PICK s : s = batches[t][b].aggregators
    OBVIOUS
  <2>2. s \in Seq(Validators) /\ Len(s) = BatchSize
    BY <2>1, <1>1, Seats DEF Batch, PartitionOK, PartitionOf
  <2>3. b \in 1..Len(batches[t])
    BY <1>1, Seats
  <2>4. \A i, j \in 1..BatchSize :
            batches[t][b].aggregators[i] = batches[t][b].aggregators[j] => i = j
    BY <2>3 DEF PartitionOK, PartitionOf
  <2>5. \A i, j \in 1..Len(s) : s[i] = s[j] => i = j
    BY <2>1, <2>2, <2>4
  <2> QED
    BY <2>1, <2>2, <2>5, InjectiveRange
<1>2. ASSUME NEW t \in Tiers, NEW u \in Tiers, NEW b \in DOMAIN batches[t],
             NEW c \in DOMAIN batches[u], <<t, b>> # <<u, c>>
      PROVE  Range(batches[t][b].aggregators) \cap Range(batches[u][c].aggregators) = {}
  <2>1. ASSUME NEW a \in Range(batches[t][b].aggregators),
               a \in Range(batches[u][c].aggregators)
        PROVE  FALSE
    <3>1. InBatch(a, batches[t][b]) /\ InBatch(a, batches[u][c])
      BY <2>1 DEF InBatch
    <3>2. t = u /\ b = c
      BY <3>1, OneSeat
    <3> QED
      BY <1>2, <3>2
  <2> QED
    BY <2>1
<1>3. 1 \in Tiers
  BY DEF Tiers
<1>4. ASSUME NEW b \in DOMAIN batches[1]
      PROVE  /\ batches[1][b].modelIndexes \in Seq(Nat)
             /\ b \in 1..Len(batches[1])
             /\ Cardinality(Range(batches[1][b].modelIndexes)) \in MinModels..BatchSize
  <2>1. PICK s : s = batches[1][b].modelIndexes
    OBVIOUS
  <2>2. s \in Seq(Nat) /\ Len(s) \in MinModels..BatchSize /\ b \in 1..Len(batches[1])
    BY <2>1, <1>3, <1>4, Seats DEF Batch, PartitionOK, PartitionOf
  <2>3. \A i, j \in 1..Len(s) : s[i] = s[j] => i = j
    BY <2>1, <2>2 DEF PartitionOK, PartitionOf
  <2> QED
    BY <2>1, <2>2, <2>3, InjectiveRange
<1>5. ASSUME NEW b \in DOMAIN batches[1], NEW c \in DOMAIN batches[1], b # c
      PROVE  Range(batches[1][b].modelIndexes) \cap Range(batches[1][c].modelIndexes) = {}
  <2>1. PICK s, r : s = batches[1][b].modelIndexes /\ r = batches[1][c].modelIndexes
    OBVIOUS
  <2>2. s \in Seq(Nat) /\ r \in Seq(Nat) /\ b \in 1..Len(batches[1]) /\ c \in 1..Len(batches[1])
    BY <1>4, <2>1
  <2>3. \A i \in 1..Len(s), j \in 1..Len(r) : s[i] # r[j]
    BY <1>5, <2>1, <2>2 DEF PartitionOK, PartitionOf
  <2>4. DOMAIN s = 1..Len(s) /\ DOMAIN r = 1..Len(r)
    BY <2>2
  <2>5. Range(s) \cap Range(r) = {}
    BY <2>3, <2>4 DEF Range
  <2> QED
    BY <2>1, <2>5
<1> QED
  BY <1>1, <1>2, <1>4, <1>5 DEF PartitionIsDisjoint


\* The greedy loop leaves room for its batches in both shuffles.
LEMMA Tier1CountOK ==
    ASSUME NEW pool, NEW models, Len(pool) \in Nat, Len(models) \in Nat,
           NEW m, m = Tier1Count(pool, models)
    PROVE  m \in Nat /\ 3 * m <= Len(pool) /\ 3 * m <= Len(models) + 1
<1>1. PICK n, k : n = Len(pool) /\ k = Len(models)
  OBVIOUS
<1>2. PICK top : top = IF n \div 3 <= (k + 1) \div 3 THEN n \div 3 ELSE (k + 1) \div 3
  OBVIOUS
<1>3. top \in Nat /\ 3 * top <= n /\ 3 * top <= k + 1
  BY <1>1, <1>2
<1>4. \A i \in 1..n : (3 * i <= n /\ 3 * (i - 1) + 2 <= k) <=> i <= top
  BY <1>1, <1>2
<1>5. {i \in 1..n : 3 * i <= n /\ 3 * (i - 1) + 2 <= k} = 1..top
  BY <1>1, <1>3, <1>4
<1>6. Cardinality(1..top) = top
  BY <1>3, FS_Interval
<1>7. m = Cardinality({i \in 1..n : 3 * i <= n /\ 3 * (i - 1) + 2 <= k})
  BY <1>1 DEF Tier1Count, BatchSize, MinModels
<1> QED
  BY <1>1, <1>3, <1>5, <1>6, <1>7

LEMMA SubSeqOK ==
    ASSUME NEW T, NEW s \in Seq(T), NEW m \in Nat, NEW n \in Nat,
           1 <= m, m <= n, n <= Len(s)
    PROVE  /\ SubSeq(s, m, n) \in Seq(T)
           /\ Len(SubSeq(s, m, n)) = n - m + 1
           /\ \A i \in 1..(n - m + 1) : SubSeq(s, m, n)[i] = s[m + i - 1]
<1>1. m..n \subseteq 1..Len(s)
  OBVIOUS
<1> QED
  BY <1>1, SubSeqProperties

\* The batches of Tier 1 are consecutive stretches of the two shuffles.
LEMMA Tier1Batch ==
    ASSUME NEW pool \in Seq(Validators), NEW models \in Seq(Nat),
           NEW i \in 1..Tier1Count(pool, models),
           NEW batch, batch = Tier1(pool, models)[i]
    PROVE  /\ batch \in Batch
           /\ Len(batch.aggregators) = BatchSize
           /\ \A k \in 1..BatchSize : batch.aggregators[k] = pool[3 * (i - 1) + k]
           /\ Len(batch.modelIndexes) \in MinModels..BatchSize
           /\ \A k \in 1..Len(batch.modelIndexes) :
                  /\ 3 * (i - 1) + k \in 1..Len(models)
                  /\ batch.modelIndexes[k] = models[3 * (i - 1) + k]
           /\ ~ batch.finalized
<1>1. PICK m : m = Tier1Count(pool, models)
  OBVIOUS
<1>2. PICK n, k : n = Len(pool) /\ k = Len(models)
  OBVIOUS
<1>3. n \in Nat /\ k \in Nat
  BY <1>2
<1>4. m \in Nat /\ 3 * m <= n /\ 3 * m <= k + 1
  BY <1>1, <1>2, <1>3, Tier1CountOK
<1>5. PICK first : first = 3 * (i - 1)
  OBVIOUS
<1>6. PICK last : last = IF 3 * i <= k THEN 3 * i ELSE k
  OBVIOUS
<1>7. i \in 1..m
  BY <1>1
<1>8. /\ first \in Nat /\ last \in Nat /\ first + 3 <= n /\ 3 * i = first + 3
      /\ last <= k /\ last - first \in 2..3
  BY <1>3, <1>4, <1>5, <1>6, <1>7
<1>9. PICK aggregators : aggregators = SubSeq(pool, first + 1, first + 3)
  OBVIOUS
<1>10. PICK indexes : indexes = SubSeq(models, first + 1, last)
  OBVIOUS
<1>11. /\ aggregators \in Seq(Validators) /\ Len(aggregators) = 3
       /\ \A j \in 1..3 : aggregators[j] = pool[first + j]
  BY <1>2, <1>8, <1>9, SubSeqOK
<1>12. /\ indexes \in Seq(Nat) /\ Len(indexes) = last - first
       /\ \A j \in 1..(last - first) : indexes[j] = models[first + j]
  BY <1>2, <1>8, <1>10, SubSeqOK
<1>13. batch = NewBatch(aggregators, indexes)
  BY <1>1, <1>2, <1>5, <1>6, <1>7, <1>8, <1>9, <1>10 DEF Tier1, BatchSize
<1>14. batch \in Batch /\ ~ batch.finalized
  BY <1>11, <1>12, <1>13 DEF NewBatch, Batch
<1>15. batch.aggregators = aggregators /\ batch.modelIndexes = indexes
  BY <1>13 DEF NewBatch
<1>16. \A j \in 1..(last - first) : first + j \in 1..k
  BY <1>3, <1>8
<1> QED
  BY <1>2, <1>5, <1>8, <1>11, <1>12, <1>14, <1>15, <1>16 DEF BatchSize, MinModels

\* Tier 2 has at most one batch: the aggregators that follow those of Tier 1.
LEMMA Tier2Batch ==
    ASSUME NEW pool \in Seq(Validators), NEW models \in Seq(Nat),
           NEW m, m = Tier1Count(pool, models)
    PROVE  /\ Tier2(pool, models) \in Seq(Batch)
           /\ Len(Tier2(pool, models)) \in 0..1
           /\ \A i \in 1..Len(Tier2(pool, models)) :
                  LET batch == Tier2(pool, models)[i]
                  IN  /\ 3 * m + 3 <= Len(pool)
                      /\ Len(batch.aggregators) = BatchSize
                      /\ \A k \in 1..BatchSize : batch.aggregators[k] = pool[3 * m + k]
                      /\ ~ batch.finalized
<1>1. PICK n : n = Len(pool)
  OBVIOUS
<1>2. n \in Nat /\ m \in Nat /\ 3 * m <= n
  BY <1>1, Tier1CountOK
<1>3. PICK used : used = 3 * m
  OBVIOUS
<1>4. CASE n - used >= 3
  <2>1. PICK aggregators : aggregators = SubSeq(pool, used + 1, used + 3)
    OBVIOUS
  <2>2. /\ aggregators \in Seq(Validators) /\ Len(aggregators) = 3
        /\ \A j \in 1..3 : aggregators[j] = pool[used + j]
    <3>1. used \in Nat /\ used + 1 \in Nat /\ used + 3 \in Nat /\ used + 3 <= n
      BY <1>2, <1>3, <1>4
    <3>2. PICK from, to : from = used + 1 /\ to = used + 3
      OBVIOUS
    <3>3. from \in Nat /\ to \in Nat /\ 1 <= from /\ from <= to /\ to <= Len(pool)
      BY <1>1, <3>1, <3>2
    <3>4. aggregators = SubSeq(pool, from, to)
      BY <2>1, <3>2
    <3>5. /\ aggregators \in Seq(Validators) /\ Len(aggregators) = to - from + 1
          /\ \A j \in 1..(to - from + 1) : aggregators[j] = pool[from + j - 1]
      BY <3>3, <3>4, SubSeqOK
    <3>6. to - from + 1 = 3 /\ \A j \in 1..3 : from + j - 1 = used + j
      BY <3>1, <3>2
    <3> QED
      BY <3>5, <3>6
  <2>3. PICK batch : batch = NewBatch(aggregators, <<>>)
    OBVIOUS
  <2>4. batch \in Batch /\ ~ batch.finalized /\ batch.aggregators = aggregators
    BY <2>2, <2>3 DEF NewBatch, Batch
  <2>5. Tier2(pool, models) = <<batch>>
    BY <1>1, <1>3, <1>4, <2>1, <2>3 DEF Tier2, BatchSize
  <2>6. PICK tier : tier = Tier2(pool, models)
    OBVIOUS
  <2>7. tier \in Seq(Batch) /\ Len(tier) = 1 /\ tier[1] = batch
    BY <2>4, <2>5, <2>6
  <2>8. used + 3 <= n
    BY <1>2, <1>3, <1>4
  <2>9. \A i \in 1..Len(tier) : tier[i] = batch
    BY <2>7
  <2> QED
    BY <1>1, <1>3, <2>2, <2>4, <2>6, <2>7, <2>8, <2>9, SMTT(30) DEF BatchSize
<1>5. CASE ~ (n - used >= 3)
  BY <1>1, <1>3, <1>5 DEF Tier2, BatchSize
<1> QED
  BY <1>4, <1>5


LEMMA SeqOfFunction ==
    ASSUME NEW T, NEW n \in Nat, NEW f, f \in [1..n -> T]
    PROVE  f \in Seq(T) /\ Len(f) = n
  OBVIOUS

\* Three to a batch.
LEMMA Thirds ==
    ASSUME NEW b \in Int, NEW c \in Int, NEW i \in 1..3, NEW j \in 1..3,
           3 * (b - 1) + i = 3 * (c - 1) + j
    PROVE  b = c /\ i = j
<1>1. ~ (b < c) /\ ~ (c < b)
  OBVIOUS
<1> QED
  BY <1>1

\* The place of a seat in the shuffle of the aggregators, after m batches of Tier 1.
Place(m, t, b, i) == IF t = 1 THEN 3 * (b - 1) + i ELSE 3 * m + i

\* It tells the seat.
LEMMA SeatOfPlace ==
    ASSUME NEW m \in Nat, NEW t \in Tiers, NEW u \in Tiers, NEW b \in Int, NEW c \in Int,
           NEW i \in 1..3, NEW j \in 1..3,
           t = 1 => b \in 1..m, t = 2 => b = 1, u = 1 => c \in 1..m, u = 2 => c = 1,
           Place(m, t, b, i) = Place(m, u, c, j)
    PROVE  t = u /\ b = c /\ i = j
<1>1. CASE t = 1 /\ u = 1
  BY <1>1, Thirds DEF Place
<1>2. CASE t = 1 /\ u = 2
  BY <1>2 DEF Place
<1>3. CASE t = 2 /\ u = 1
  BY <1>3 DEF Place
<1>4. CASE t = 2 /\ u = 2
  BY <1>4 DEF Place
<1> QED
  BY <1>1, <1>2, <1>3, <1>4 DEF Tiers

LEMMA NewPartition ==
    ASSUME NEW pool \in Seq(Validators), NEW models \in Seq(Nat),
           IsInjective(pool), IsInjective(models),
           batches' = <<Tier1(pool, models), Tier2(pool, models)>>
    PROVE  /\ PartitionOK'
           /\ \A t \in Tiers : \A b \in 1..Len(batches'[t]) : ~ batches'[t][b].finalized
<1>1. PICK m : m = Tier1Count(pool, models)
  OBVIOUS
<1>2. m \in Nat /\ 3 * m <= Len(pool)
  BY <1>1, Tier1CountOK
<1>3. PICK tier1, tier2 : tier1 = Tier1(pool, models) /\ tier2 = Tier2(pool, models)
  OBVIOUS
<1>4. batches' = <<tier1, tier2>> /\ batches'[1] = tier1 /\ batches'[2] = tier2
  BY <1>3
<1>5. tier1 \in Seq(Batch) /\ Len(tier1) = m
  <2>1. \A i \in 1..m : tier1[i] \in Batch
    BY <1>1, <1>3, Tier1Batch
  <2>2. DOMAIN tier1 = 1..m /\ tier1 = [i \in 1..m |-> tier1[i]]
    BY <1>1, <1>3 DEF Tier1
  <2>3. tier1 \in [1..m -> Batch]
    BY <2>1, <2>2
  <2> QED
    BY <1>2, <2>3, SeqOfFunction
<1>6. \A b \in 1..m :
          /\ Len(tier1[b].aggregators) = 3
          /\ \A i \in 1..3 : tier1[b].aggregators[i] = pool[3 * (b - 1) + i]
          /\ Len(tier1[b].modelIndexes) \in MinModels..BatchSize
          /\ \A i \in 1..Len(tier1[b].modelIndexes) :
                 /\ 3 * (b - 1) + i \in 1..Len(models)
                 /\ tier1[b].modelIndexes[i] = models[3 * (b - 1) + i]
          /\ ~ tier1[b].finalized
  <2>1. ASSUME NEW b \in 1..m, NEW batch, batch = tier1[b]
        PROVE  /\ Len(batch.aggregators) = 3
               /\ \A i \in 1..3 : batch.aggregators[i] = pool[3 * (b - 1) + i]
               /\ Len(batch.modelIndexes) \in MinModels..BatchSize
               /\ \A i \in 1..Len(batch.modelIndexes) :
                     /\ 3 * (b - 1) + i \in 1..Len(models)
                     /\ batch.modelIndexes[i] = models[3 * (b - 1) + i]
               /\ ~ batch.finalized
    <3>1. b \in 1..Tier1Count(pool, models) /\ batch = Tier1(pool, models)[b]
      BY <1>1, <1>3, <2>1
    <3>2. /\ Len(batch.aggregators) = BatchSize
          /\ \A i \in 1..BatchSize : batch.aggregators[i] = pool[3 * (b - 1) + i]
      BY <3>1, Tier1Batch
    <3>3. Len(batch.modelIndexes) \in MinModels..BatchSize /\ ~ batch.finalized
      BY <3>1, Tier1Batch
    <3>4. \A k \in 1..Len(batch.modelIndexes) :
                /\ 3 * (b - 1) + k \in 1..Len(models)
                /\ batch.modelIndexes[k] = models[3 * (b - 1) + k]
      BY <3>1, Tier1Batch, SMTT(30)
    <3> QED
      BY <3>2, <3>3, <3>4 DEF BatchSize
  <2> QED
    BY <2>1
<1>7. /\ tier2 \in Seq(Batch) /\ Len(tier2) \in 0..1
      /\ \A b \in 1..Len(tier2) :
             /\ 3 * m + 3 <= Len(pool)
             /\ Len(tier2[b].aggregators) = 3
             /\ \A i \in 1..3 : tier2[b].aggregators[i] = pool[3 * m + i]
             /\ ~ tier2[b].finalized
  BY <1>1, <1>3, Tier2Batch DEF BatchSize
<1>8. \A t \in Tiers : \A b \in 1..Len(batches'[t]) :
          /\ Len(batches'[t][b].aggregators) = 3
          /\ ~ batches'[t][b].finalized
          /\ \A i \in 1..3 : /\ Place(m, t, b, i) \in 1..Len(pool)
                             /\ batches'[t][b].aggregators[i] = pool[Place(m, t, b, i)]
  <2>1. ASSUME NEW b \in 1..m, NEW i \in 1..3
        PROVE  3 * (b - 1) + i \in 1..Len(pool)
    BY <1>2
  <2>2. ASSUME NEW b \in 1..Len(tier2), NEW i \in 1..3
        PROVE  3 * m + i \in 1..Len(pool)
    BY <1>2, <1>7
  <2>3. \A b \in 1..m : 
          /\ Len(tier1[b].aggregators) = 3
          /\ ~ tier1[b].finalized
          /\ \A i \in 1..3 : /\ Place(m, 1, b, i) \in 1..Len(pool)
                             /\ tier1[b].aggregators[i] = pool[Place(m, 1, b, i)]
    BY <1>6, <2>1 DEF Place
  <2>4. \A b \in 1..Len(tier2) : 
          /\ Len(tier2[b].aggregators) = 3
          /\ ~ tier2[b].finalized
          /\ \A i \in 1..3 : /\ Place(m, 2, b, i) \in 1..Len(pool)
                             /\ tier2[b].aggregators[i] = pool[Place(m, 2, b, i)]
    BY <1>7, <2>2 DEF Place
  <2> QED
    BY <1>4, <1>5, <2>3, <2>4 DEF Tiers
<1>9. ASSUME NEW t \in Tiers, NEW b \in 1..Len(batches'[t])
      PROVE  b \in Int /\ (t = 1 => b \in 1..m) /\ (t = 2 => b = 1)
  <2>1. CASE t = 1
    BY <1>2, <1>4, <1>5, <2>1
  <2>2. CASE t = 2
    <3>1. PICK n : n = Len(tier2)
      OBVIOUS
    <3>2. n \in 0..1 /\ b \in 1..n
      BY <1>4, <1>7, <2>2, <3>1
    <3> QED
      BY <2>2, <3>2
  <2> QED
    BY <2>1, <2>2 DEF Tiers
<1>10. \A t, u \in Tiers : \A b \in 1..Len(batches'[t]), c \in 1..Len(batches'[u]) :
          \A i, j \in 1..3 :
              batches'[t][b].aggregators[i] = batches'[u][c].aggregators[j]
                  => t = u /\ b = c /\ i = j
  <2>1. \A p, q \in 1..Len(pool) : pool[p] = pool[q] => p = q
    BY DEF IsInjective
  <2>2. ASSUME NEW t \in Tiers, NEW u \in Tiers,
               NEW b \in 1..Len(batches'[t]), NEW c \in 1..Len(batches'[u]),
               NEW i \in 1..3, NEW j \in 1..3,
               batches'[t][b].aggregators[i] = batches'[u][c].aggregators[j]
        PROVE  t = u /\ b = c /\ i = j
    <3>1. PICK p, q : p = Place(m, t, b, i) /\ q = Place(m, u, c, j)
      OBVIOUS
    <3>2. p \in 1..Len(pool) /\ q \in 1..Len(pool) /\ pool[p] = pool[q]
      BY <1>8, <2>2, <3>1
    <3>3. p = q
      BY <2>1, <3>2
    <3>4. Place(m, t, b, i) = Place(m, u, c, j)
      BY <3>1, <3>3
    <3>5. /\ b \in Int /\ (t = 1 => b \in 1..m) /\ (t = 2 => b = 1)
          /\ c \in Int /\ (u = 1 => c \in 1..m) /\ (u = 2 => c = 1)
      BY <1>9
    <3> QED
      BY <1>2, <3>4, <3>5, SeatOfPlace
  <2> QED
    BY <2>2
<1>11. \A b, c \in 1..m :
          \A i \in 1..Len(tier1[b].modelIndexes), j \in 1..Len(tier1[c].modelIndexes) :
              tier1[b].modelIndexes[i] = tier1[c].modelIndexes[j] => b = c /\ i = j
  <2>1. \A p, q \in 1..Len(models) : models[p] = models[q] => p = q
    BY DEF IsInjective
  <2>2. ASSUME NEW b \in 1..m, NEW c \in 1..m, NEW i \in 1..3, NEW j \in 1..3,
               3 * (b - 1) + i = 3 * (c - 1) + j
        PROVE  b = c /\ i = j
    BY <2>2, <1>2, Thirds
  <2>3. ASSUME NEW b \in 1..m, NEW i \in 1..Len(tier1[b].modelIndexes) PROVE i \in 1..3
    <3>1. PICK n : n = Len(tier1[b].modelIndexes)
      OBVIOUS
    <3>2. n \in 2..3
      BY <1>6, <3>1 DEF MinModels, BatchSize
    <3>3. i \in 1..n
      BY <3>1
    <3> QED
      BY <3>2, <3>3
  <2>4. ASSUME NEW b \in 1..m, NEW c \in 1..m,
               NEW i \in 1..Len(tier1[b].modelIndexes), NEW j \in 1..Len(tier1[c].modelIndexes),
               tier1[b].modelIndexes[i] = tier1[c].modelIndexes[j]
        PROVE  b = c /\ i = j
    <3>1. PICK p, q : p = 3 * (b - 1) + i /\ q = 3 * (c - 1) + j
      OBVIOUS
    <3>2. p \in 1..Len(models) /\ q \in 1..Len(models) /\ models[p] = models[q]
      BY <1>6, <2>4, <3>1
    <3>3. p = q
      BY <2>1, <3>2
    <3> QED
      BY <2>2, <2>3, <3>1, <3>3
  <2> QED
    BY <2>4
<1>12. batches' \in [Tiers -> Seq(Batch)]
  BY <1>4, <1>5, <1>7 DEF Tiers
<1>13. \A t \in Tiers : \A b \in 1..Len(batches'[t]) : Len(batches'[t][b].aggregators) = 3
  BY <1>8
<1>14. \A b \in 1..Len(batches'[1]) :
           Len(batches'[1][b].modelIndexes) \in MinModels..BatchSize
  BY <1>4, <1>5, <1>6
<1>15. \A b, c \in 1..Len(batches'[1]) :
          \A i \in 1..Len(batches'[1][b].modelIndexes),
             j \in 1..Len(batches'[1][c].modelIndexes) :
              batches'[1][b].modelIndexes[i] = batches'[1][c].modelIndexes[j] => b = c /\ i = j
  BY <1>4, <1>5, <1>11
<1>16. PartitionOK'
  BY <1>10, <1>12, <1>13, <1>14, <1>15 DEF PartitionOK, PartitionOf, BatchSize
<1> QED
  BY <1>8, <1>16

LEMMA CreateKeepsVoteInv ==
    ASSUME VoteInv, NEW pool \in AggregatorShuffles, NEW models \in ModelShuffles,
           AutoCreateTier1AndTier2(pool, models)
    PROVE  VoteInv'
<1>1. /\ pool \in Seq(Validators) /\ IsInjective(pool)
      /\ models \in Seq(Nat) /\ IsInjective(models)
  BY RoundAssumption
<1>2. PICK tier1, tier2 : tier1 = Tier1(pool, models) /\ tier2 = Tier2(pool, models)
  OBVIOUS
<1>3. /\ batches' = <<tier1, tier2>>
      /\ votes' = <<NoVotes(tier1), NoVotes(tier2)>>
      /\ commitHash' = commitHash /\ submissionCID' = submissionCID
      /\ GIstate = "AggSeedLocked" /\ GIstate' = "T1nT2Bcreated"
  BY <1>2 DEF AutoCreateTier1AndTier2
<1>4. /\ PartitionOK'
      /\ \A t \in Tiers : \A b \in 1..Len(batches'[t]) : ~ batches'[t][b].finalized
  BY <1>1, <1>2, <1>3, NewPartition
<1>5. SubmissionsOK'
  BY <1>3 DEF VoteInv, SubmissionsOK
<1>6. VotesOK'
  <2>1. \A t \in Tiers : batches'[t] \in Seq(Batch) /\ votes'[t] = NoVotes(batches'[t])
    BY <1>3, <1>4 DEF PartitionOK, PartitionOf, Tiers
  <2>2. ASSUME NEW t \in Tiers
        PROVE  /\ votes'[t] \in Seq([Cids -> Nat])
               /\ Len(votes'[t]) = Len(batches'[t])
               /\ \A b \in 1..Len(batches'[t]) : votes'[t][b] = [c \in Cids |-> 0]
    <3>1. PICK tier : tier = batches'[t]
      OBVIOUS
    <3>2. DOMAIN tier = 1..Len(tier) /\ Len(tier) \in Nat
      BY <2>1, <3>1
    <3>3. votes'[t] = [b \in 1..Len(tier) |-> [c \in Cids |-> 0]]
      BY <2>1, <3>1, <3>2 DEF NoVotes
    <3>4. votes'[t] \in [1..Len(tier) -> [Cids -> Nat]]
      BY <3>3
    <3> QED
      BY <3>1, <3>2, <3>3, <3>4, SeqOfFunction
  <2>3. votes' \in [Tiers -> Seq([Cids -> Nat])]
    BY <1>3, <2>2 DEF Tiers
  <2>4. ASSUME NEW t \in Tiers, NEW b \in 1..Len(batches'[t]), NEW c \in Cids
        PROVE  Supporters(t, batches[t][b], c)' = {}
    <3>1. PICK seats : seats = batches'[t][b].aggregators
      OBVIOUS
    <3>2. seats \in Seq(Validators)
      <4>1. PICK tier : tier = batches'[t]
        OBVIOUS
      <4>2. tier \in Seq(Batch) /\ b \in 1..Len(tier)
        BY <2>1, <4>1
      <4>3. tier[b] \in Batch
        BY <4>2
      <4> QED
        BY <3>1, <4>1, <4>3 DEF Batch
    <3>3. \A a \in Validators : submissionCID'[t][a] = NoCid
      BY <1>3 DEF VoteInv, SubmissionsOK
    <3>4. Range(seats) \subseteq Validators
      BY <3>2 DEF Range
    <3>5. c # NoCid
      BY RoundAssumption
    <3> QED
      BY <3>1, <3>3, <3>4, <3>5 DEF Supporters
  <2>5. ASSUME NEW t \in Tiers, NEW b \in 1..Len(batches'[t]), NEW c \in Cids
        PROVE  votes'[t][b][c] = Cardinality(Supporters(t, batches[t][b], c)')
    <3>1. votes'[t][b][c] = 0
      BY <2>2
    <3>2. Cardinality(Supporters(t, batches[t][b], c)') = 0
      BY <2>4, FS_EmptySet
    <3> QED
      BY <3>1, <3>2
  <2> QED
    BY <2>2, <2>3, <2>5 DEF VotesOK
<1>7. DecisionsOK'
  BY <1>3, <1>4 DEF DecisionsOK, After, Tiers
<1> QED
  BY <1>4, <1>5, <1>6, <1>7 DEF VoteInv


LEMMA DecidedStays ==
    ASSUME NEW u, NEW c, batches'[u][c] = batches[u][c],
           submissionCID'[u] = submissionCID[u], Decided(u, batches[u][c])
    PROVE  Decided(u, batches[u][c])'
<1>1. Revealed(u, batches[u][c])' = Revealed(u, batches[u][c])
  BY DEF Revealed, Submitted
<1>2. \A cid : Supporters(u, batches[u][c], cid)' = Supporters(u, batches[u][c], cid)
  BY DEF Supporters
<1> QED
  BY <1>1, <1>2 DEF Decided

\* A call that writes no batch, vote or submission, and leaves no phase of a
\* tier behind.
LEMMA VotesUntouched ==
    ASSUME VoteInv, UNCHANGED <<batches, commitHash, submissionCID, votes>>,
           \A t \in Tiers : GIstate' \in After[t] <=> GIstate \in After[t],
           GIstate' = "AggSeedLocked" => GIstate = "AggSeedLocked"
    PROVE  VoteInv'
<1>1. PartitionOK'
  BY PartitionStays DEF VoteInv
<1>2. SubmissionsOK'
  BY DEF VoteInv, SubmissionsOK
<1>3. VotesOK'
  BY DEF VoteInv, VotesOK, Supporters
<1>4. DecisionsOK'
  <2>1. ASSUME NEW t \in Tiers, NEW b \in 1..Len(batches[t])
        PROVE  /\ batches[t][b].finalized <=> GIstate' \in After[t]
               /\ batches[t][b].finalized => Decided(t, batches[t][b])'
    BY <2>1, DecidedStays DEF VoteInv, DecisionsOK
  <2> QED
    BY <2>1 DEF DecisionsOK
<1> QED
  BY <1>1, <1>2, <1>3, <1>4 DEF VoteInv

LEMMA MoveKeepsVoteInv ==
    ASSUME VoteInv,
           \/ \E t \in Tiers : StartAggregation(t) \/ StartAggregationReveal(t)
           \/ SlashAuditors \/ SlashAggregators
    PROVE  VoteInv'
<1>1. UNCHANGED <<batches, commitHash, submissionCID, votes>>
  BY DEF StartAggregation, StartAggregationReveal, SlashAuditors, SlashAggregators, MoveOn
<1>2. /\ \A t \in Tiers : GIstate' \in After[t] <=> GIstate \in After[t]
      /\ GIstate' # "AggSeedLocked"
  <2>1. CASE \E t \in Tiers : StartAggregation(t)
    BY <2>1 DEF StartAggregation, MoveOn, ReadyPhase, CommitPhase, After, Tiers
  <2>2. CASE \E t \in Tiers : StartAggregationReveal(t)
    BY <2>2 DEF StartAggregationReveal, MoveOn, CommitPhase, RevealPhase, After, Tiers
  <2>3. CASE SlashAuditors \/ SlashAggregators
    BY <2>3 DEF SlashAuditors, SlashAggregators, MoveOn, After, Tiers
  <2> QED
    BY <2>1, <2>2, <2>3
<1> QED
  BY <1>1, <1>2, VotesUntouched

LEMMA CommitKeepsVoteInv ==
    ASSUME VoteInv, NEW t \in Tiers, NEW b, NEW a \in Validators, NEW cid \in Cids,
           CommitAggregation(t, b, a, cid)
    PROVE  VoteInv'
<1>1. UNCHANGED <<batches, submissionCID, votes, GIstate>>
  BY DEF CommitAggregation
<1>2. commitHash' \in Submissions
  BY DEF CommitAggregation, VoteInv, SubmissionsOK, Submissions
<1>3. PartitionOK'
  BY <1>1, PartitionStays DEF VoteInv
<1>4. SubmissionsOK'
  BY <1>1, <1>2 DEF VoteInv, SubmissionsOK
<1>5. VotesOK'
  BY <1>1 DEF VoteInv, VotesOK, Supporters
<1>6. DecisionsOK'
  <2>1. ASSUME NEW u \in Tiers, NEW c \in 1..Len(batches[u])
        PROVE  /\ batches[u][c].finalized <=> GIstate' \in After[u]
               /\ batches[u][c].finalized => Decided(u, batches[u][c])'
    BY <1>1, <2>1, DecidedStays DEF VoteInv, DecisionsOK
  <2> QED
    BY <1>1, <2>1 DEF DecisionsOK
<1> QED
  BY <1>3, <1>4, <1>5, <1>6 DEF VoteInv

LEMMA SupportersFinite ==
    ASSUME PartitionOK, NEW t \in Tiers, NEW b \in DOMAIN batches[t], NEW cid
    PROVE  IsFiniteSet(Supporters(t, batches[t][b], cid))
<1>1. PICK s : s = batches[t][b].aggregators
  OBVIOUS
<1>2. s \in Seq(Validators) /\ Len(s) = BatchSize
  BY <1>1, Seats DEF Batch, PartitionOK, PartitionOf
<1>3. \A i, j \in 1..Len(s) : s[i] = s[j] => i = j
  <2>1. b \in 1..Len(batches[t])
    BY Seats
  <2>2. \A i, j \in 1..BatchSize :
            batches[t][b].aggregators[i] = batches[t][b].aggregators[j] => i = j
    BY <2>1 DEF PartitionOK, PartitionOf
  <2> QED
    BY <1>1, <1>2, <2>2
<1>4. IsFiniteSet(Range(s))
  BY <1>2, <1>3, InjectiveRange
<1>5. Supporters(t, batches[t][b], cid) \subseteq Range(s)
  BY <1>1 DEF Supporters
<1> QED
  BY <1>4, <1>5, FS_Subset


\* A revelation adds its author to the supporters of its CID, and one vote.
LEMMA RevealAddsSupporter ==
    ASSUME VoteInv, NEW t \in Tiers, NEW b, NEW a \in Validators,
           RevealAggregation(t, b, a),
           NEW u \in Tiers, NEW c \in DOMAIN batches[u], NEW cid \in Cids
    PROVE  {v \in Range(batches[u][c].aggregators) : submissionCID'[u][v] = cid} =
               IF u = t /\ c = b /\ cid = commitHash[t][a]
               THEN Supporters(u, batches[u][c], cid) \cup {a}
               ELSE Supporters(u, batches[u][c], cid)
<1>1. PICK seats : seats = Range(batches[u][c].aggregators)
  OBVIOUS
<1>2. batches' = batches /\ b \in DOMAIN batches[t] /\ InBatch(a, batches[t][b])
  BY DEF RevealAggregation
<1>3. /\ submissionCID \in Submissions
      /\ submissionCID[t][a] = NoCid
      /\ submissionCID' = [submissionCID EXCEPT ![t][a] = commitHash[t][a]]
  BY DEF RevealAggregation, VoteInv, SubmissionsOK, Submitted
<1>4. /\ submissionCID'[t][a] = commitHash[t][a]
      /\ \A w \in Tiers, v \in Validators :
             w # t \/ v # a => submissionCID'[w][v] = submissionCID[w][v]
  BY <1>3 DEF Submissions
<1>5. seats \subseteq Validators
  <2>1. PICK s : s = batches[u][c].aggregators
    OBVIOUS
  <2>2. PartitionOK
    BY DEF VoteInv
  <2>3. DOMAIN s = 1..BatchSize /\ \A i \in 1..BatchSize : s[i] \in Validators
    BY <2>1, <2>2, Seats
  <2>4. Range(s) \subseteq Validators
    BY <2>3 DEF Range
  <2> QED
    BY <1>1, <2>1, <2>4
<1>6. Supporters(u, batches[u][c], cid) = {v \in seats : submissionCID[u][v] = cid}
  BY <1>1 DEF Supporters
<1>7. cid # NoCid
  BY RoundAssumption
<1>8. CASE u = t /\ c = b
  <2>1. a \in seats
    BY <1>1, <1>2, <1>8 DEF InBatch
  <2> QED
    BY <1>1, <1>3, <1>4, <1>5, <1>6, <1>7, <1>8, <2>1
<1>9. CASE ~ (u = t /\ c = b)
  <2>1. u # t \/ a \notin seats
    BY <1>1, <1>2, <1>9, OneSeat DEF VoteInv, InBatch
  <2> QED
    BY <1>1, <1>4, <1>5, <1>6, <1>9, <2>1
<1> QED
  BY <1>8, <1>9

LEMMA RevealKeepsVoteInv ==
    ASSUME VoteInv, NEW t \in Tiers, NEW b, NEW a \in Validators,
           RevealAggregation(t, b, a)
    PROVE  VoteInv'
<1>1. /\ UNCHANGED <<batches, commitHash, GIstate>>
      /\ GIstate = RevealPhase[t] /\ b \in DOMAIN batches[t]
  BY DEF RevealAggregation
<1>2. PICK h : h = commitHash[t][a]
  OBVIOUS
<1>3. h \in Cids
  BY <1>2 DEF RevealAggregation, VoteInv, SubmissionsOK, Submissions
<1>4. /\ submissionCID' = [submissionCID EXCEPT ![t][a] = h]
      /\ votes' = [votes EXCEPT ![t][b][h] = votes[t][b][h] + 1]
  BY <1>2 DEF RevealAggregation
<1>5. PartitionOK /\ PartitionOK'
  <2>1. PartitionOK
    BY DEF VoteInv
  <2>2. PartitionOK'
    BY <1>1, <2>1, PartitionStays
  <2> QED
    BY <2>1, <2>2
<1>6. submissionCID' \in Submissions
  BY <1>3, <1>4 DEF VoteInv, SubmissionsOK, Submissions
<1>7. SubmissionsOK'
  BY <1>1, <1>6 DEF VoteInv, SubmissionsOK, RevealPhase, Tiers
<1>8. /\ votes \in [Tiers -> Seq([Cids -> Nat])]
      /\ \A u \in Tiers : Len(votes[u]) = Len(batches[u])
      /\ \A u \in Tiers : \A c \in 1..Len(batches[u]) : \A cid \in Cids :
             votes[u][c][cid] = Cardinality(Supporters(u, batches[u][c], cid))
  BY DEF VoteInv, VotesOK
<1>9. b \in 1..Len(batches[t])
  BY <1>1, <1>5, Seats
<1>10. PICK tier, counts : tier = votes[t] /\ counts = votes[t][b]
  OBVIOUS
<1>11. tier \in Seq([Cids -> Nat]) /\ b \in 1..Len(tier) /\ counts = tier[b]
  BY <1>8, <1>9, <1>10
<1>12. counts \in [Cids -> Nat]
  BY <1>11
<1>13. PICK new : new = [counts EXCEPT ![h] = counts[h] + 1]
  OBVIOUS
<1>14. new \in [Cids -> Nat] /\ new[h] = counts[h] + 1
       /\ \A cid \in Cids : cid # h => new[cid] = counts[cid]
  BY <1>3, <1>12, <1>13
<1>15. votes' = [votes EXCEPT ![t] = [tier EXCEPT ![b] = new]]
  BY <1>4, <1>10, <1>13
<1>16. PICK tier2 : tier2 = [tier EXCEPT ![b] = new]
  OBVIOUS
<1>17. /\ tier2 \in Seq([Cids -> Nat]) /\ Len(tier2) = Len(tier)
       /\ tier2[b] = new
       /\ \A c \in 1..Len(tier) : c # b => tier2[c] = tier[c]
  BY <1>11, <1>14, <1>16, ExceptSeq
<1>18. /\ votes' \in [Tiers -> Seq([Cids -> Nat])]
       /\ votes'[t] = tier2
       /\ \A u \in Tiers : u # t => votes'[u] = votes[u]
  BY <1>8, <1>15, <1>16, <1>17
<1>19. ASSUME NEW u \in Tiers, NEW c \in 1..Len(batches[u]), NEW cid \in Cids
       PROVE  votes'[u][c][cid] = Cardinality(Supporters(u, batches[u][c], cid)')
  <2>1. c \in DOMAIN batches[u]
    BY <1>5 DEF PartitionOK, PartitionOf
  <2>2. PICK S : S = Supporters(u, batches[u][c], cid)
    OBVIOUS
  <2>3. IsFiniteSet(S) /\ votes[u][c][cid] = Cardinality(S)
    BY <1>5, <1>8, <2>1, <2>2, SupportersFinite
  <2>4. Supporters(u, batches[u][c], cid)' =
            IF u = t /\ c = b /\ cid = h THEN S \cup {a} ELSE S
    <3>1. {v \in Range(batches[u][c].aggregators) : submissionCID'[u][v] = cid} =
              IF u = t /\ c = b /\ cid = commitHash[t][a]
              THEN Supporters(u, batches[u][c], cid) \cup {a}
              ELSE Supporters(u, batches[u][c], cid)
      BY <2>1, RevealAddsSupporter
    <3> QED
      BY <1>1, <1>2, <2>2, <3>1 DEF Supporters
  <2>5. CASE u = t /\ c = b /\ cid = h
    <3>1. a \notin S
      <4>1. submissionCID[t][a] = NoCid /\ cid # NoCid
        BY RoundAssumption DEF RevealAggregation, Submitted
      <4> QED
        BY <2>2, <2>5, <4>1 DEF Supporters
    <3>2. Supporters(u, batches[u][c], cid)' = S \cup {a}
      BY <2>5, <2>4
    <3>3. Cardinality(S \cup {a}) = Cardinality(S) + 1
      BY <2>3, <3>1, FS_AddElement
    <3>4. votes'[u][c][cid] = votes[u][c][cid] + 1
      BY <1>10, <1>14, <1>17, <1>18, <2>5
    <3> QED
      BY <2>3, <3>2, <3>3, <3>4
  <2>6. CASE ~ (u = t /\ c = b /\ cid = h)
    <3>1. Supporters(u, batches[u][c], cid)' = S
      BY <2>6, <2>4
    <3>2. votes'[u][c][cid] = votes[u][c][cid]
      <4>1. CASE u # t
        BY <1>18, <4>1
      <4>2. CASE u = t /\ c # b
        BY <1>8, <1>10, <1>17, <1>18, <4>2
      <4>3. CASE u = t /\ c = b /\ cid # h
        BY <1>10, <1>14, <1>17, <1>18, <4>3
      <4> QED
        BY <2>6, <4>1, <4>2, <4>3
    <3> QED
      BY <2>3, <3>1, <3>2
  <2> QED
    BY <2>5, <2>6
<1>20. VotesOK'
  <2>1. \A u \in Tiers : Len(votes'[u]) = Len(batches[u])
    BY <1>8, <1>10, <1>17, <1>18
  <2> QED
    BY <1>1, <1>18, <1>19, <2>1 DEF VotesOK
<1>21. DecisionsOK'
  <2>1. ASSUME NEW u \in Tiers, NEW c \in 1..Len(batches[u])
        PROVE  /\ batches[u][c].finalized <=> GIstate' \in After[u]
               /\ batches[u][c].finalized => Decided(u, batches[u][c])'
    <3>1. batches[u][c].finalized <=> GIstate \in After[u]
      BY DEF VoteInv, DecisionsOK
    <3>2. ASSUME batches[u][c].finalized PROVE Decided(u, batches[u][c])'
      <4>1. u # t
        BY <1>1, <3>1, <3>2 DEF RevealPhase, After, Tiers
      <4>2. submissionCID'[u] = submissionCID[u]
        BY <1>4, <4>1 DEF VoteInv, SubmissionsOK, Submissions
      <4>3. Decided(u, batches[u][c])
        BY <3>2 DEF VoteInv, DecisionsOK
      <4> QED
        BY <1>1, <4>2, <4>3, DecidedStays
    <3> QED
      BY <1>1, <3>1, <3>2
  <2> QED
    BY <1>1, <2>1 DEF DecisionsOK
<1> QED
  BY <1>5, <1>7, <1>20, <1>21 DEF VoteInv

\* Of at most three candidates, one has the most votes and comes first.
LEMMA BestOfThree ==
    ASSUME NEW R, R \subseteq 1..3, R # {}, NEW count, \A i \in 1..3 : count[i] \in Nat
    PROVE  \E j \in R : \A i \in R : /\ count[i] <= count[j]
                                     /\ count[i] = count[j] => j <= i
<1>1. PICK n1, n2, n3 : n1 = count[1] /\ n2 = count[2] /\ n3 = count[3]
  OBVIOUS
<1>2. n1 \in Nat /\ n2 \in Nat /\ n3 \in Nat
  BY <1>1
<1>3. \A i \in R : i = 1 \/ i = 2 \/ i = 3
  OBVIOUS
<1>4. CASE 1 \in R /\ (2 \in R => n2 <= n1) /\ (3 \in R => n3 <= n1)
  BY <1>1, <1>2, <1>3, <1>4
<1>5. CASE 2 \in R /\ (1 \in R => n1 < n2) /\ (3 \in R => n3 <= n2)
  BY <1>1, <1>2, <1>3, <1>5
<1>6. CASE 3 \in R /\ (1 \in R => n1 < n3) /\ (2 \in R => n2 < n3)
  BY <1>1, <1>2, <1>3, <1>6
<1>7. \/ 1 \in R /\ (2 \in R => n2 <= n1) /\ (3 \in R => n3 <= n1)
      \/ 2 \in R /\ (1 \in R => n1 < n2) /\ (3 \in R => n3 <= n2)
      \/ 3 \in R /\ (1 \in R => n1 < n3) /\ (2 \in R => n2 < n3)
  <2>1. 1 \in R \/ 2 \in R \/ 3 \in R
    BY <1>3
  <2> QED
    BY <1>2, <2>1
<1> QED
  BY <1>4, <1>5, <1>6, <1>7

\* The CID of finalizeT1Aggregation is one that a member of the batch revealed,
\* and has as many votes as any.
LEMMA WinnerOK ==
    ASSUME VoteInv, NEW t \in Tiers, NEW b \in DOMAIN batches[t],
           Cardinality(Revealed(t, batches[t][b])) >= Quorum,
           NEW winner, winner = WinningCID(t, b)
    PROVE  /\ winner \in Cids
           /\ \A cid \in Cids : Cardinality(Supporters(t, batches[t][b], cid))
                                  <= Cardinality(Supporters(t, batches[t][b], winner))
<1>1. PICK seats, R : seats = batches[t][b].aggregators /\ R = Revealed(t, batches[t][b])
  OBVIOUS
<1>2. /\ b \in 1..Len(batches[t]) /\ DOMAIN seats = 1..3
      /\ \A i \in 1..3 : seats[i] \in Validators
  BY <1>1, Seats DEF VoteInv, BatchSize
<1>3. PICK cidAt : cidAt = [i \in 1..3 |-> submissionCID[t][seats[i]]]
  OBVIOUS
<1>4. R = {i \in 1..3 : cidAt[i] # NoCid}
  BY <1>1, <1>2, <1>3 DEF Revealed, Submitted
<1>5. \A i \in 1..3 : cidAt[i] \in Cids \cup {NoCid}
  BY <1>2, <1>3 DEF VoteInv, SubmissionsOK, Submissions
<1>6. R # {}
  <2>1. Cardinality({}) = 0
    BY FS_EmptySet
  <2>2. Quorum = 2
    BY DEF Quorum, BatchSize
  <2> QED
    BY <1>1, <2>1, <2>2
<1>7. \A cid \in Cids : votes[t][b][cid] = Cardinality(Supporters(t, batches[t][b], cid))
  BY <1>2 DEF VoteInv, VotesOK
<1>8. \A cid \in Cids : votes[t][b][cid] \in Nat
  <2>1. PICK tier : tier = votes[t]
    OBVIOUS
  <2>2. tier \in Seq([Cids -> Nat]) /\ b \in 1..Len(tier)
    BY <1>2, <2>1 DEF VoteInv, VotesOK
  <2>3. tier[b] \in [Cids -> Nat]
    BY <2>2
  <2> QED
    BY <2>1, <2>3
<1>9. PICK count : count = [i \in 1..3 |-> IF i \in R THEN votes[t][b][cidAt[i]] ELSE 0]
  OBVIOUS
<1>10. \A i \in 1..3 : count[i] \in Nat
  BY <1>4, <1>5, <1>8, <1>9
<1>11. \A i \in R : VotesAt(t, b, i) = count[i]
  BY <1>1, <1>3, <1>4, <1>9 DEF VotesAt
<1>12. \E j \in R : \A i \in R : /\ count[i] <= count[j]
                                 /\ count[i] = count[j] => j <= i
  <2>1. R \subseteq 1..3
    BY <1>4
  <2> QED
    BY <1>6, <1>10, <2>1, BestOfThree
<1>13. PICK best : best = CHOOSE j \in R :
                       \A i \in R : /\ VotesAt(t, b, i) <= VotesAt(t, b, j)
                                    /\ VotesAt(t, b, i) = VotesAt(t, b, j) => j <= i
  OBVIOUS
<1>14. best \in R /\ \A i \in R : VotesAt(t, b, i) <= VotesAt(t, b, best)
  <2>1. \E j \in R : \A i \in R : /\ VotesAt(t, b, i) <= VotesAt(t, b, j)
                                  /\ VotesAt(t, b, i) = VotesAt(t, b, j) => j <= i
    BY <1>11, <1>12
  <2> QED
    BY <1>13, <2>1
<1>15. winner = cidAt[best]
  <2>1. winner = submissionCID[t][batches[t][b].aggregators[best]]
    BY <1>1, <1>13 DEF WinningCID
  <2> QED
    BY <1>1, <1>3, <1>4, <1>14, <2>1
<1>16. winner \in Cids
  BY <1>4, <1>5, <1>14, <1>15
<1>17. ASSUME NEW cid \in Cids
       PROVE  Cardinality(Supporters(t, batches[t][b], cid))
                 <= Cardinality(Supporters(t, batches[t][b], winner))
  <2>1. votes[t][b][winner] = count[best]
    BY <1>9, <1>4, <1>14, <1>15
  <2>2. CASE \E i \in R : cidAt[i] = cid
    <3>1. PICK i \in R : cidAt[i] = cid
      BY <2>2
    <3>2. votes[t][b][cid] = count[i]
      BY <1>4, <1>9, <3>1
    <3>3. count[i] <= count[best]
      BY <1>11, <1>14
    <3> QED
      BY <1>7, <1>16, <2>1, <3>2, <3>3
  <2>3. CASE \A i \in R : cidAt[i] # cid
    <3>1. Supporters(t, batches[t][b], cid) = {}
      <4>1. \A i \in 1..3 : submissionCID[t][seats[i]] # cid
        BY <1>3, <1>4, <2>3, RoundAssumption
      <4> QED
        BY <1>1, <1>2, <4>1 DEF Supporters, Range
    <3>2. votes[t][b][cid] = 0
      BY <1>7, <3>1, FS_EmptySet
    <3>3. votes[t][b][winner] \in Nat
      BY <1>8, <1>16
    <3> QED
      BY <1>7, <1>16, <3>2, <3>3
  <2> QED
    BY <2>2, <2>3
<1> QED
  BY <1>16, <1>17


LEMMA FinalizeKeepsVoteInv ==
    ASSUME IInv, VoteInv, NEW t \in Tiers, FinalizeAggregation(t)
    PROVE  VoteInv'
<1>1. /\ UNCHANGED <<commitHash, submissionCID, votes>>
      /\ GIstate = RevealPhase[t] /\ GIstate' = DonePhase[t]
      /\ \A b \in DOMAIN batches[t] : Cardinality(Revealed(t, batches[t][b])) >= Quorum
  BY DEF FinalizeAggregation
<1>2. PICK old, new : old = batches[t] /\ new = batches'[t]
  OBVIOUS
<1>3. /\ batches \in [Tiers -> Seq(Batch)]
      /\ old \in Seq(Batch) /\ DOMAIN old = 1..Len(old) /\ Len(old) \in Nat
  BY <1>2 DEF VoteInv, PartitionOK, PartitionOf
<1>4. batches' = [batches EXCEPT ![t] =
          [b \in 1..Len(old) |-> [old[b] EXCEPT !.finalized = TRUE,
                                                !.finalCID = WinningCID(t, b),
                                                !.finalizedAt = now]]]
  BY <1>2, <1>3 DEF FinalizeAggregation
<1>5. new = [b \in 1..Len(old) |-> [old[b] EXCEPT !.finalized = TRUE,
                                                  !.finalCID = WinningCID(t, b),
                                                  !.finalizedAt = now]]
  BY <1>2, <1>3, <1>4
<1>6. now \in Nat
  BY IInvParts DEF RestTyped
<1>7. ASSUME NEW b \in 1..Len(old), NEW batch, batch = old[b],
             NEW decided, decided = new[b]
      PROVE  /\ decided \in Batch
             /\ decided.aggregators = batch.aggregators
             /\ decided.modelIndexes = batch.modelIndexes
             /\ decided.finalized
             /\ decided.finalCID = WinningCID(t, b)
             /\ WinningCID(t, b) \in Cids
             /\ \A cid \in Cids : Cardinality(Supporters(t, batch, cid))
                                    <= Cardinality(Supporters(t, batch, WinningCID(t, b)))
             /\ Cardinality(Revealed(t, batch)) >= Quorum
  <2>1. PICK winner : winner = WinningCID(t, b)
    OBVIOUS
  <2>2. b \in DOMAIN batches[t] /\ batches[t][b] = batch
    BY <1>2, <1>3, <1>7
  <2>3. Cardinality(Revealed(t, batches[t][b])) >= Quorum
    BY <1>1, <2>2
  <2>4. /\ winner \in Cids
        /\ \A cid \in Cids : Cardinality(Supporters(t, batches[t][b], cid))
                               <= Cardinality(Supporters(t, batches[t][b], winner))
    BY <2>1, <2>2, <2>3, WinnerOK
  <2>5. batch \in Batch
    BY <1>3, <1>7
  <2>6. decided = [batch EXCEPT !.finalized = TRUE, !.finalCID = winner, !.finalizedAt = now]
    BY <1>5, <1>7, <2>1
  <2>7. /\ decided \in Batch
        /\ decided.aggregators = batch.aggregators
        /\ decided.modelIndexes = batch.modelIndexes
        /\ decided.finalized /\ decided.finalCID = winner
    BY <1>6, <2>4, <2>5, <2>6 DEF Batch
  <2> QED
    BY <2>1, <2>2, <2>3, <2>4, <2>7
<1>8. new \in Seq(Batch) /\ Len(new) = Len(old)
  <2>1. new \in [1..Len(old) -> Batch]
    BY <1>5, <1>7
  <2> QED
    BY <1>3, <2>1, SeqOfFunction
<1>9. /\ batches' \in [Tiers -> Seq(Batch)]
      /\ \A u \in Tiers : u # t => batches'[u] = batches[u]
  BY <1>2, <1>3, <1>4, <1>5, <1>8
<1>10. ASSUME NEW u \in Tiers
       PROVE  /\ Len(batches'[u]) = Len(batches[u])
              /\ \A b \in 1..Len(batches[u]) :
                     /\ batches'[u][b].aggregators = batches[u][b].aggregators
                     /\ batches'[u][b].modelIndexes = batches[u][b].modelIndexes
  <2>1. CASE u = t
    BY <1>2, <1>7, <1>8, <2>1
  <2>2. CASE u # t
    BY <1>9, <2>2
  <2> QED
    BY <2>1, <2>2
<1>11. PartitionOK'
  <2>1. /\ \A u \in Tiers : \A b \in 1..Len(batches[u]) :
               Len(batches[u][b].aggregators) = BatchSize
        /\ \A u, w \in Tiers : \A b \in 1..Len(batches[u]), c \in 1..Len(batches[w]) :
              \A i, j \in 1..BatchSize :
                  batches[u][b].aggregators[i] = batches[w][c].aggregators[j]
                      => u = w /\ b = c /\ i = j
    BY DEF VoteInv, PartitionOK, PartitionOf
  <2>2. /\ \A b \in 1..Len(batches[1]) :
               Len(batches[1][b].modelIndexes) \in MinModels..BatchSize
        /\ \A b, c \in 1..Len(batches[1]) :
              \A i \in 1..Len(batches[1][b].modelIndexes),
                 j \in 1..Len(batches[1][c].modelIndexes) :
                  batches[1][b].modelIndexes[i] = batches[1][c].modelIndexes[j]
                      => b = c /\ i = j
    BY DEF VoteInv, PartitionOK, PartitionOf
  <2>3. 1 \in Tiers
    BY DEF Tiers
  <2>4. \A u \in Tiers : \A b \in 1..Len(batches'[u]) :
            Len(batches'[u][b].aggregators) = BatchSize
    BY <1>10, <2>1
  <2>5. ASSUME NEW u \in Tiers, NEW w \in Tiers,
               NEW b \in 1..Len(batches'[u]), NEW c \in 1..Len(batches'[w]),
               NEW i \in 1..BatchSize, NEW j \in 1..BatchSize,
               batches'[u][b].aggregators[i] = batches'[w][c].aggregators[j]
        PROVE  u = w /\ b = c /\ i = j
    <3>1. b \in 1..Len(batches[u]) /\ c \in 1..Len(batches[w])
      BY <1>10
    <3>2. batches[u][b].aggregators[i] = batches[w][c].aggregators[j]
      BY <1>10, <2>5, <3>1
    <3> QED
      BY <2>1, <3>1, <3>2, SMTT(30)
  <2>6. \A b \in 1..Len(batches'[1]) :
            Len(batches'[1][b].modelIndexes) \in MinModels..BatchSize
    BY <1>10, <2>2, <2>3
  <2>7. ASSUME NEW b \in 1..Len(batches'[1]), NEW c \in 1..Len(batches'[1]),
               NEW i \in 1..Len(batches'[1][b].modelIndexes),
               NEW j \in 1..Len(batches'[1][c].modelIndexes),
               batches'[1][b].modelIndexes[i] = batches'[1][c].modelIndexes[j]
        PROVE  b = c /\ i = j
    <3>1. b \in 1..Len(batches[1]) /\ c \in 1..Len(batches[1])
      BY <1>10, <2>3
    <3>2. /\ batches'[1][b].modelIndexes = batches[1][b].modelIndexes
          /\ batches'[1][c].modelIndexes = batches[1][c].modelIndexes
      BY <1>10, <2>3, <3>1
    <3> QED
      BY <2>2, <2>7, <3>1, <3>2
  <2> QED
    BY <1>9, <2>4, <2>5, <2>6, <2>7 DEF PartitionOK, PartitionOf
<1>12. SubmissionsOK'
  BY <1>1 DEF VoteInv, SubmissionsOK, DonePhase, Tiers
<1>13. VotesOK'
  <2>1. ASSUME NEW u \in Tiers, NEW b \in 1..Len(batches[u]), NEW cid \in Cids
        PROVE  votes'[u][b][cid] = Cardinality(Supporters(u, batches[u][b], cid)')
    <3>1. Supporters(u, batches[u][b], cid)' = Supporters(u, batches[u][b], cid)
      BY <1>1, <1>10 DEF Supporters
    <3> QED
      BY <1>1, <3>1 DEF VoteInv, VotesOK
  <2> QED
    BY <1>1, <1>10, <2>1 DEF VoteInv, VotesOK
<1>14. DecisionsOK'
  <2>1. ASSUME NEW u \in Tiers, NEW b \in 1..Len(batches[u])
        PROVE  /\ batches'[u][b].finalized <=> GIstate' \in After[u]
               /\ batches'[u][b].finalized => Decided(u, batches[u][b])'
    <3>1. CASE u = t
      <4>1. PICK batch, decided : batch = old[b] /\ decided = new[b]
        OBVIOUS
      <4>2. b \in 1..Len(old) /\ batches'[u][b] = decided
        BY <1>2, <3>1, <4>1
      <4>3. /\ decided.finalized /\ decided.aggregators = batch.aggregators
            /\ decided.finalCID \in Cids
            /\ \A cid \in Cids : Cardinality(Supporters(t, batch, cid))
                                   <= Cardinality(Supporters(t, batch, decided.finalCID))
            /\ Cardinality(Revealed(t, batch)) >= Quorum
        BY <1>7, <4>1, <4>2
      <4>4. Revealed(u, batches[u][b])' = Revealed(t, batch)
        BY <1>1, <3>1, <4>2, <4>3 DEF Revealed, Submitted
      <4>5. \A cid : Supporters(u, batches[u][b], cid)' = Supporters(t, batch, cid)
        BY <1>1, <3>1, <4>2, <4>3 DEF Supporters
      <4>6. Supporters(u, batches[u][b], batches[u][b].finalCID)'
                = Supporters(t, batch, decided.finalCID)
        BY <1>1, <3>1, <4>2, <4>3 DEF Supporters
      <4>7. Decided(u, batches[u][b])'
        BY <4>2, <4>3, <4>4, <4>5, <4>6 DEF Decided, Quorum
      <4>8. GIstate' \in After[u]
        BY <1>1, <3>1 DEF DonePhase, After, Tiers
      <4> QED
        BY <4>2, <4>3, <4>7, <4>8
    <3>2. CASE u # t
      <4>1. batches'[u][b] = batches[u][b] /\ submissionCID'[u] = submissionCID[u]
        BY <1>1, <1>9, <3>2
      <4>2. GIstate' \in After[u] <=> GIstate \in After[u]
        BY <1>1, <3>2 DEF DonePhase, RevealPhase, After, Tiers
      <4> QED
        BY <4>1, <4>2, DecidedStays DEF VoteInv, DecisionsOK
    <3> QED
      BY <3>1, <3>2
  <2> QED
    BY <1>10, <2>1 DEF DecisionsOK
<1> QED
  BY <1>11, <1>12, <1>13, <1>14 DEF VoteInv


-----------------------------------------------------------------------------
(* The invariant of the round. *)

RoundInv == IInv /\ FractionOK /\ VoteInv

LEMMA RoundInitOK == RoundInit => RoundInv
<1> SUFFICES ASSUME RoundInit PROVE RoundInv
  OBVIOUS
<1>1. InitialStake \in Nat /\ InitialBalance - InitialStake \in Nat
  BY ConstantsAssumption, RoundAssumption
<1>2. params.minStake \in Nat \ {0} /\ params \in Params
  <2>1. params \in Params
    BY ConstantsAssumption DEF RoundInit
  <2> QED
    BY <2>1 DEF Params
<1>3. PICK staked : staked = AddStake(NoValidator, InitialStake)
  OBVIOUS
<1>4. NoValidator \in ValidatorInfo
  BY DEF NoValidator, ValidatorInfo, ValidatorStatus
<1>5. staked \in ValidatorInfo /\ staked.withdrawAvailableAt = 0 /\ staked.jailedUntil = 0
  BY <1>1, <1>3, <1>4, AddStakeOK DEF NoValidator
<1>6. PICK account : account = SyncStatus(staked, params.minStake, 0)
  OBVIOUS
<1>7. account \in ValidatorInfo /\ AccountOK(account, 0)
  BY <1>2, <1>5, <1>6, SyncStatusOK
<1>8. validators = [v \in Validators |-> account] /\ now = 0
  BY <1>3, <1>6 DEF RoundInit
<1>9. AccountsTyped /\ AccountsOK
  BY <1>7, <1>8 DEF AccountsTyped, AccountsOK
<1>10. PICK misses \in [Validators -> EarlierMisses] :
          /\ partialSlashGIs = [v \in Validators |->
                 [s \in Slashers |-> IF s = ThisTask THEN misses[v] ELSE <<>>]]
          /\ partialSlashTimes = [v \in Validators |->
                 IF InitialParams.s5GlobalThreshold = 0 THEN <<>>
                 ELSE [i \in 1..Len(misses[v]) |-> 0]]
          /\ sinceEscalation = [v \in Validators |-> Len(misses[v])]
          /\ sinceEscalationBy = [v \in Validators |->
                 [s \in Slashers |-> IF s = ThisTask THEN Len(misses[v]) ELSE 0]]
  BY DEF RoundInit
<1>11. \A v \in Validators : misses[v] \in Seq(Nat) /\ Len(misses[v]) \in Nat
  <2>1. 0..(GI - 1) \subseteq Nat
    OBVIOUS
  <2>2. ASSUME NEW v \in Validators PROVE misses[v] \in Seq(Nat) /\ Len(misses[v]) \in Nat
    <3>1. misses[v] \in Seq(0..(GI - 1))
      BY RoundAssumption
    <3>2. misses[v] \in Seq(Nat)
      BY <2>1, <3>1, SeqMonotonic
    <3> QED
      BY <3>2
  <2> QED
    BY <2>2
<1>12. RestTyped
  <2>1. <<>> \in Seq(Nat)
    OBVIOUS
  <2>2. partialSlashGIs \in [Validators -> [Slashers -> Seq(Nat)]]
    BY <1>10, <1>11, <2>1
  <2>3. partialSlashTimes \in [Validators -> Seq(Nat)]
    <3>1. ASSUME NEW v \in Validators PROVE [i \in 1..Len(misses[v]) |-> 0] \in Seq(Nat)
      BY <1>11
    <3> QED
      BY <1>10, <2>1, <3>1
  <2>4. sinceEscalation \in [Validators -> Nat] /\ sinceEscalationBy \in [Validators -> [Slashers -> Nat]]
    BY <1>10, <1>11
  <2>5. /\ partialSlashEpoch \in [Validators -> [Slashers -> Nat]]
        /\ s5EscalationEpoch \in [Validators -> Nat]
        /\ noParticipationCount \in [Validators -> Nat]
        /\ treasurySet \in BOOLEAN /\ slasherContracts \subseteq Slashers /\ now \in Nat
    BY DEF RoundInit
  <2>6. wallet \in [Validators -> Nat]
    BY <1>1 DEF RoundInit
  <2>7. reportedGI \in [Slashers -> Nat]
    BY RoundAssumption DEF RoundInit
  <2> QED
    BY <1>2, <2>2, <2>3, <2>4, <2>5, <2>6, <2>7 DEF RestTyped
<1>13. IInv
  BY <1>9, <1>12, IInvParts
<1>14. FractionOK
  BY DEF RoundInit, FractionOK
<1>15. /\ batches = <<<<>>, <<>>>> /\ votes = <<<<>>, <<>>>>
       /\ \A t \in Tiers : batches[t] = <<>> /\ votes[t] = <<>>
  BY DEF RoundInit, Tiers
<1>16. \A t \in Tiers : 1..Len(batches[t]) = {}
  BY <1>15
<1>17. PartitionOK
  <2>1. batches \in [Tiers -> Seq(Batch)]
    <3>1. \A t \in Tiers : batches[t] \in Seq(Batch)
      BY <1>15, EmptySeq
    <3>2. batches = [t \in Tiers |-> batches[t]]
      BY <1>15 DEF Tiers
    <3> QED
      BY <3>1, <3>2
  <2>2. 1 \in Tiers
    BY DEF Tiers
  <2> QED
    BY <1>16, <2>1, <2>2 DEF PartitionOK, PartitionOf
<1>18. SubmissionsOK
  BY DEF RoundInit, SubmissionsOK, Submissions
<1>19. VotesOK
  <2>1. votes \in [Tiers -> Seq([Cids -> Nat])]
    <3>1. \A t \in Tiers : votes[t] \in Seq([Cids -> Nat])
      BY <1>15, EmptySeq
    <3>2. votes = [t \in Tiers |-> votes[t]]
      BY <1>15 DEF Tiers
    <3> QED
      BY <3>1, <3>2
  <2> QED
    BY <1>15, <1>16, <2>1 DEF VotesOK
<1>20. DecisionsOK
  BY <1>16 DEF DecisionsOK
<1> QED
  BY <1>13, <1>14, <1>17, <1>18, <1>19, <1>20 DEF RoundInv, VoteInv

LEMMA VoteInvStep ==
    ASSUME RoundInv, [RoundNext]_allVars PROVE VoteInv'
<1>1. IInv /\ VoteInv
  BY DEF RoundInv
<1>2. CASE UNCHANGED roundVars \/ \E bps \in S2Fractions : SetS2SlashFractionBps(bps)
  <2>1. UNCHANGED <<batches, commitHash, submissionCID, votes, GIstate>>
    BY <1>2 DEF roundVars, SetS2SlashFractionBps
  <2> QED
    BY <1>1, <2>1, VotesUntouched
<1>3. CASE OwnerCall
  <2>1. CASE \E pool \in AggregatorShuffles, models \in ModelShuffles :
                 AutoCreateTier1AndTier2(pool, models)
    BY <1>1, <2>1, CreateKeepsVoteInv
  <2>2. CASE \E t \in Tiers : FinalizeAggregation(t)
    BY <1>1, <2>2, FinalizeKeepsVoteInv
  <2>3. CASE \/ \E t \in Tiers : StartAggregation(t) \/ StartAggregationReveal(t)
             \/ SlashAuditors \/ SlashAggregators
    BY <1>1, <2>3, MoveKeepsVoteInv
  <2> QED
    BY <1>2, <1>3, <2>1, <2>2, <2>3 DEF OwnerCall
<1>4. CASE \E a \in Validators : AggregatorCall(a)
  <2>1. PICK a \in Validators, t \in Tiers : \E b \in DOMAIN batches[t] :
            \/ \E cid \in Cids : CommitAggregation(t, b, a, cid)
            \/ RevealAggregation(t, b, a)
    BY <1>4 DEF AggregatorCall
  <2> QED
    BY <1>1, <2>1, CommitKeepsVoteInv, RevealKeepsVoteInv
<1> QED
  BY <1>2, <1>3, <1>4 DEF RoundNext, StakeMoves, allVars

LEMMA RoundInvStep ==
    ASSUME RoundInv, [RoundNext]_allVars PROVE RoundInv'
<1>1. VoteInv'
  BY VoteInvStep
<1>2. FractionOK'
  BY FractionStep DEF RoundInv
<1>3. IInv'
  BY OtherStepsAreStakeSteps, SlashKeepsIInv, IInvStep DEF RoundInv
<1> QED
  BY <1>1, <1>2, <1>3 DEF RoundInv

\* Every state of a round keeps the accounts of the stake contract in order,
\* the partition disjoint and each count of votes equal to the supporters.
THEOREM RoundInvariance == RoundSpec => []RoundInv
<1>1. RoundInit => RoundInv
  BY RoundInitOK
<1>2. RoundInv /\ [RoundNext]_allVars => RoundInv'
  BY RoundInvStep
<1> QED
  BY <1>1, <1>2, PTL DEF RoundSpec

-----------------------------------------------------------------------------
(* The properties the runs check. *)

\* autoCreateTier1AndTier2 puts no aggregator in two batches of either tier
\* and no model in two batches of Tier 1, however many there are.
THEOREM BatchesAreDisjoint == RoundSpec => []PartitionIsDisjoint
<1>1. RoundInv => PartitionIsDisjoint
  BY SeatsAreDisjoint DEF RoundInv, VoteInv
<1> QED
  BY <1>1, RoundInvariance, PTL

\* finalizeT1Aggregation and finalizeT2Aggregation choose a CID that no other
\* of the batch beats, out of at least two that were revealed.
THEOREM FinalCIDWins == RoundSpec => []PluralityWins
<1>1. RoundInv => PluralityWins
  <2> SUFFICES ASSUME RoundInv, NEW t \in Tiers, NEW b \in DOMAIN batches[t],
                      batches[t][b].finalized
               PROVE  Decided(t, batches[t][b])
    BY DEF PluralityWins, Decided
  <2>1. b \in 1..Len(batches[t])
    BY Seats DEF RoundInv, VoteInv
  <2> QED
    BY <2>1 DEF RoundInv, VoteInv, DecisionsOK
<1> QED
  BY <1>1, RoundInvariance, PTL

\* A jail that still runs holds through the round: neither slashAggregators nor
\* what the other contracts do meanwhile makes a jailed validator eligible.
THEOREM JailHoldsInTheRound == RoundSpec => []JailHolds
<1>1. RoundInv => JailHolds
  BY DEF RoundInv, IInv, AccountsOK, AccountOK, JailHolds
<1> QED
  BY <1>1, RoundInvariance, PTL

\* The round's own steps write no account but in slashAggregators.
LEMMA OnlySlashesWrite ==
    ASSUME [RoundNext]_allVars, GIstate' # GIstate
    PROVE  SlashAggregators \/ validators' = validators
<1>1. CASE OwnerCall
  <2>1. CASE \E pool \in AggregatorShuffles, models \in ModelShuffles :
                 AutoCreateTier1AndTier2(pool, models)
    BY <2>1 DEF AutoCreateTier1AndTier2, accountVars
  <2>2. CASE \/ \E t \in Tiers : StartAggregation(t) \/ StartAggregationReveal(t)
             \/ SlashAuditors
    BY <2>2 DEF StartAggregation, StartAggregationReveal, SlashAuditors, MoveOn, accountVars
  <2>3. CASE \E t \in Tiers : FinalizeAggregation(t)
    BY <2>3 DEF FinalizeAggregation, accountVars
  <2>4. CASE \E bps \in S2Fractions : SetS2SlashFractionBps(bps)
    BY <2>4 DEF SetS2SlashFractionBps
  <2> QED
    BY <1>1, <2>1, <2>2, <2>3, <2>4 DEF OwnerCall
<1>2. CASE \E a \in Validators : AggregatorCall(a)
  BY <1>2 DEF AggregatorCall, CommitAggregation, RevealAggregation
<1>3. CASE StakeMoves \/ UNCHANGED allVars
  BY <1>3 DEF StakeMoves, allVars, roundVars
<1> QED
  BY <1>1, <1>2, <1>3 DEF RoundNext

\* slashAggregators takes at most MIN_STAKE from an aggregator, escalation
\* included, whatever its earlier misses and whatever the S2 fraction.
THEOREM RoundCostsAtMostMinStake == RoundSpec => RoundLossBounded
<1>1. RoundInv /\ [RoundNext]_allVars =>
        [\A a \in Validators :
            GIstate' # GIstate =>
                SlashableStake(validators[a]) - SlashableStake(validators'[a])
                    <= params.minStake]_allVars
  <2> SUFFICES ASSUME RoundInv, [RoundNext]_allVars, GIstate' # GIstate, NEW a \in Validators
               PROVE  SlashableStake(validators[a]) - SlashableStake(validators'[a])
                          <= params.minStake
    OBVIOUS
  <2>1. CASE SlashAggregators
    BY <2>1, SlashedAccount DEF RoundInv
  <2>2. CASE validators' = validators
    <3>1. SlashableStake(validators[a]) \in Nat /\ params.minStake \in Nat
      BY ParamsParts, IInvParts DEF RoundInv, AccountsTyped, SlashableStake, ValidatorInfo
    <3> QED
      BY <2>2, <3>1
  <2> QED
    BY <2>1, <2>2, OnlySlashesWrite
<1> QED
  BY <1>1, RoundInvariance, PTL DEF RoundSpec, RoundLossBounded

\* An aggregator that revealed the final CID of each batch it sat in is
\* neither at fault in full nor in part.
LEMMA NoFaultNoPenalty ==
    ASSUME RoundInv, GIstate = "AuditorsSlashed", NEW a \in Validators,
           \A t \in Tiers : Assigned(t, a) => Conformed(t, a)
    PROVE  ~ SlashedInFull(a) /\ ~ SlashedPartially(a)
<1>1. VoteInv /\ PartitionOK
  BY DEF RoundInv, VoteInv
<1>2. ASSUME NEW t \in Tiers, Assigned(t, a)
      PROVE  submissionCID[t][a] # NoCid /\ ~ Dissented(t, a)
  <2>1. PICK b \in DOMAIN batches[t] :
            InBatch(a, batches[t][b]) /\ submissionCID[t][a] = batches[t][b].finalCID
    BY <1>2 DEF Conformed
  <2>2. GIstate \in After[t]
    BY DEF After, Tiers
  <2>3. b \in 1..Len(batches[t])
    BY <1>1, Seats
  <2>4. batches[t][b].finalCID \in Cids
    BY <1>1, <2>2, <2>3 DEF VoteInv, DecisionsOK, Decided
  <2>5. submissionCID[t][a] # NoCid
    BY <2>1, <2>4, RoundAssumption
  <2>6. \A c \in DOMAIN batches[t] : InBatch(a, batches[t][c]) => c = b
    BY <1>1, <2>1, OneSeat
  <2> QED
    BY <2>1, <2>5, <2>6 DEF Dissented
<1>3. \A t \in Tiers : ~ Missed(t, a)
  BY <1>2 DEF Missed, Submitted
<1>4. \A t \in Tiers : ~ Dissented(t, a)
  BY <1>2 DEF Dissented, Assigned
<1> QED
  BY <1>3, <1>4 DEF SlashedInFull, SlashedPartially

\* slashAggregators writes no account of an aggregator that did its part.
THEOREM TheFaultlessKeepTheirStake == RoundSpec => OnlyFaultsAreSlashed
<1>1. RoundInv /\ [RoundNext]_allVars =>
        [\A a \in Validators :
            /\ GIstate' # GIstate
            /\ \A t \in Tiers : Assigned(t, a) => Conformed(t, a)
            => validators'[a] = validators[a]]_allVars
  <2> SUFFICES ASSUME RoundInv, [RoundNext]_allVars, NEW a \in Validators,
                      GIstate' # GIstate,
                      \A t \in Tiers : Assigned(t, a) => Conformed(t, a)
               PROVE  validators'[a] = validators[a]
    OBVIOUS
  <2>1. CASE SlashAggregators
    <3>1. GIstate = "AuditorsSlashed"
      BY <2>1 DEF SlashAggregators
    <3>2. ~ SlashedInFull(a) /\ ~ SlashedPartially(a)
      BY <3>1, NoFaultNoPenalty
    <3>3. ~ Escalated(a) /\ Penalty(a) = 0
      BY <3>2 DEF Escalated, Penalty
    <3>4. validators'[a] = SlashNow(validators[a], 0)
      BY <2>1, <3>3 DEF SlashAggregators
    <3>5. SlashableStake(validators[a]) \in Nat
      BY IInvParts DEF RoundInv, AccountsTyped, SlashableStake, ValidatorInfo
    <3>6. ActualSlash(validators[a], 0) = 0
      BY <3>5 DEF ActualSlash
    <3> QED
      BY <3>4, <3>6 DEF SlashNow, ApplySlash
  <2> QED
    BY <2>1, OnlySlashesWrite
<1> QED
  BY <1>1, RoundInvariance, PTL DEF RoundSpec, OnlyFaultsAreSlashed


-----------------------------------------------------------------------------
(* What the stake contract promises of every step holds of the round's:    *)
(* slashAggregators writes all the accounts at once, each as a slash would.*)

LEMMA RoundStepEffect ==
    ASSUME RoundInv, [RoundNext]_allVars, NEW a \in Validators
    PROVE  /\ GoodWrite(validators[a], validators'[a])
           /\ wallet'[a] > wallet[a] => validators[a].withdrawAvailableAt <= now
           /\ AccountOK(validators'[a], now) \/ validators'[a] = validators[a]
<1>1. CASE SlashAggregators
  <2>1. wallet[a] \in Nat /\ wallet' = wallet
    BY <1>1, CurrentAccount DEF RoundInv, SlashAggregators
  <2> QED
    BY <1>1, <2>1, SlashedAccount DEF RoundInv
<1>2. CASE [Next]_vars
  BY <1>2, StepEffect DEF RoundInv
<1> QED
  BY <1>1, <1>2, OtherStepsAreStakeSteps

\* No step of the round cuts a running jail term short.
THEOREM JailTermsGrowInTheRound == RoundSpec => JailNeverShortened
<1>1. RoundInv /\ [RoundNext]_allVars =>
        [\A v \in Validators : validators'[v].jailedUntil < validators[v].jailedUntil
                                  => validators[v].jailedUntil <= now]_vars
  BY RoundStepEffect DEF GoodWrite
<1> QED
  BY <1>1, RoundInvariance, PTL DEF RoundSpec, JailNeverShortened

\* No step of the round moves the deadline of a pending withdrawal or pays one
\* out before it.
THEOREM DeadlinesAreKeptInTheRound == RoundSpec => WithdrawalKeepsDeadline
<1>1. RoundInv /\ [RoundNext]_allVars =>
        [\A v \in Validators :
            /\ validators[v].pendingWithdrawals > 0 /\ validators'[v].pendingWithdrawals > 0
                  => validators'[v].withdrawAvailableAt = validators[v].withdrawAvailableAt
            /\ wallet'[v] > wallet[v] => validators[v].withdrawAvailableAt <= now]_vars
  BY RoundStepEffect DEF GoodWrite
<1> QED
  BY <1>1, RoundInvariance, PTL DEF RoundSpec, WithdrawalKeepsDeadline

-----------------------------------------------------------------------------
(* The weights. *)

\* The aggregators with a seat in a tier.
Members(t) == {v \in Validators : \E b \in 1..Len(batches[t]) : InBatch(v, batches[t][b])}

\* Three at a time.
LEMMA DivideByThree ==
    ASSUME NEW n \in Nat, NEW k \in 1..(3 * n)
    PROVE  \E b \in 1..n, i \in 1..3 : k = 3 * (b - 1) + i
<1>1. PICK q \in Int, r \in 0..2 : k - 1 = 3 * q + r
  <2>1. k - 1 = 3 * ((k - 1) \div 3) + ((k - 1) % 3)
    OBVIOUS
  <2>2. (k - 1) \div 3 \in Int /\ (k - 1) % 3 \in 0..2
    OBVIOUS
  <2> QED
    BY <2>1, <2>2
<1>2. q + 1 \in 1..n /\ r + 1 \in 1..3 /\ k = 3 * ((q + 1) - 1) + (r + 1)
  BY <1>1
<1> QED
  BY <1>2

LEMMA SameInterval ==
    ASSUME NEW m \in Nat, NEW n \in Nat, 1..m = 1..n PROVE m = n
<1>1. m > 0 => m \in 1..n
  OBVIOUS
<1>2. n > 0 => n \in 1..m
  OBVIOUS
<1> QED
  BY <1>1, <1>2

\* A tier seats three aggregators for each of its batches.
LEMMA SeatsOfTier ==
    ASSUME PartitionOK, NEW t \in Tiers
    PROVE  /\ Len(batches[t]) \in Nat
           /\ IsFiniteSet(Members(t))
           /\ Cardinality(Members(t)) = BatchSize * Len(batches[t])
<1>1. PICK bs \in Seq(Batch) : bs = batches[t]
  BY DEF PartitionOK, PartitionOf
<1>2. PICK n \in Nat : n = Len(bs) /\ DOMAIN bs = 1..n
  OBVIOUS
<1>3. PICK M : M = Members(t)
  OBVIOUS
<1>4. ASSUME NEW k \in 1..(3 * n)
      PROVE  \E v \in M : \E b \in 1..n, i \in 1..3 :
                 k = 3 * (b - 1) + i /\ v = bs[b].aggregators[i]
  <2>1. PICK b \in 1..n, i \in 1..3 : k = 3 * (b - 1) + i
    BY DivideByThree
  <2>2. /\ DOMAIN bs[b].aggregators = 1..BatchSize
        /\ bs[b].aggregators[i] \in Validators
    BY <1>1, <1>2, Seats DEF BatchSize
  <2>3. InBatch(bs[b].aggregators[i], bs[b])
    BY <2>2 DEF InBatch, Range, BatchSize
  <2>4. bs[b].aggregators[i] \in M
    BY <1>1, <1>2, <1>3, <2>2, <2>3 DEF Members
  <2> QED
    BY <2>1, <2>4
<1>5. PICK f : f = [k \in 1..(3 * n) |->
                      CHOOSE v \in M : \E b \in 1..n, i \in 1..3 :
                          k = 3 * (b - 1) + i /\ v = bs[b].aggregators[i]]
  OBVIOUS
<1>6. \A k \in 1..(3 * n) :
         /\ f[k] \in M
         /\ \E b \in 1..n, i \in 1..3 : k = 3 * (b - 1) + i /\ f[k] = bs[b].aggregators[i]
  BY <1>4, <1>5
<1>7. ASSUME NEW b \in 1..n, NEW c \in 1..n, NEW i \in 1..3, NEW j \in 1..3,
             bs[b].aggregators[i] = bs[c].aggregators[j]
      PROVE  b = c /\ i = j
  BY <1>1, <1>2, <1>7 DEF PartitionOK, PartitionOf, BatchSize
<1>8. ASSUME NEW k \in 1..(3 * n), NEW l \in 1..(3 * n), f[k] = f[l]
      PROVE  k = l
  <2>1. PICK b \in 1..n, i \in 1..3 : k = 3 * (b - 1) + i /\ f[k] = bs[b].aggregators[i]
    BY <1>6
  <2>2. PICK c \in 1..n, j \in 1..3 : l = 3 * (c - 1) + j /\ f[l] = bs[c].aggregators[j]
    BY <1>6
  <2>3. bs[b].aggregators[i] = bs[c].aggregators[j]
    BY <1>8, <2>1, <2>2
  <2>4. b = c /\ i = j
    BY <1>7, <2>3
  <2> QED
    BY <2>1, <2>2, <2>4
<1>9. ASSUME NEW v \in M PROVE \E k \in 1..(3 * n) : f[k] = v
  <2>1. PICK b \in 1..n : InBatch(v, bs[b])
    BY <1>1, <1>2, <1>3 DEF Members
  <2>2. PICK i \in 1..3 : bs[b].aggregators[i] = v
    <3>1. DOMAIN bs[b].aggregators = 1..BatchSize
      BY <1>1, <1>2, Seats
    <3> QED
      BY <2>1, <3>1 DEF InBatch, Range, BatchSize
  <2>3. PICK k \in 1..(3 * n) : k = 3 * (b - 1) + i
    OBVIOUS
  <2>4. PICK c \in 1..n, j \in 1..3 : k = 3 * (c - 1) + j /\ f[k] = bs[c].aggregators[j]
    BY <1>6
  <2>5. b \in Int /\ c \in Int /\ 3 * (b - 1) + i = 3 * (c - 1) + j
    BY <2>3, <2>4
  <2>6. b = c /\ i = j
    BY <2>5, Thirds
  <2> QED
    BY <2>2, <2>4, <2>6
<1>10. f \in Bijection(1..(3 * n), M)
  <2>1. f \in [1..(3 * n) -> M]
    BY <1>5, <1>6
  <2>2. f \in Injection(1..(3 * n), M)
    BY <1>8, <2>1 DEF Injection, IsInjective
  <2>3. f \in Surjection(1..(3 * n), M)
    BY <1>9, <2>1 DEF Surjection
  <2> QED
    BY <2>2, <2>3 DEF Bijection
<1>11. IsFiniteSet(M) /\ Cardinality(M) = Cardinality(1..(3 * n))
  BY <1>10, FS_Interval, FS_Bijection DEF ExistsBijection
<1>12. Cardinality(1..(3 * n)) = 3 * n
  BY FS_Interval
<1> QED
  BY <1>1, <1>2, <1>3, <1>11, <1>12 DEF BatchSize

\* An aggregator sits in one batch of the tier or in none.
LEMMA BatchesOfMember ==
    ASSUME PartitionOK, NEW t \in Tiers, NEW v \in Validators
    PROVE  BatchesOf(v, t) = IF v \in Members(t) THEN 1 ELSE 0
<1>1. DOMAIN batches[t] = 1..Len(batches[t])
  BY DEF PartitionOK, PartitionOf
<1>2. CASE v \in Members(t)
  <2>1. PICK b \in DOMAIN batches[t] : InBatch(v, batches[t][b])
    BY <1>1, <1>2 DEF Members
  <2>2. {c \in DOMAIN batches[t] : InBatch(v, batches[t][c])} = {b}
    BY <2>1, OneSeat
  <2> QED
    BY <1>2, <2>2, FS_Singleton DEF BatchesOf
<1>3. CASE v \notin Members(t)
  <2>1. {c \in DOMAIN batches[t] : InBatch(v, batches[t][c])} = {}
    BY <1>1, <1>3 DEF Members
  <2> QED
    BY <1>3, <2>1, FS_EmptySet DEF BatchesOf
<1> QED
  BY <1>2, <1>3

\* What finalisation adds to the weights adds up to three per batch.
LEMMA WeightOfTier ==
    ASSUME PartitionOK, NEW t \in Tiers, NEW f, NEW e,
           \A v \in Validators : f[v] \in Nat /\ e[v] = f[v] + BatchesOf(v, t)
    PROVE  /\ \A v \in Validators : e[v] \in Nat
           /\ SumOver(e) = SumOver(f) + BatchSize * Len(batches[t])
<1>1. IsFiniteSet(Validators)
  BY ConstantsAssumption
<1>2. PICK one : one = [v \in Validators |-> IF v \in Members(t) THEN 1 ELSE 0]
  OBVIOUS
<1>3. \A v \in Validators : BatchesOf(v, t) = one[v] /\ one[v] \in Nat
  BY <1>2, BatchesOfMember
<1>4. \A v \in Validators : e[v] \in Nat
  BY <1>3
<1>5. SumFunctionOnSet(one, Validators) = BatchSize * Len(batches[t])
  <2>1. Members(t) \in SUBSET Validators
    BY DEF Members
  <2>2. \A v \in Validators : one[v] = IF v \in Members(t) THEN 1 ELSE 0
    BY <1>2
  <2>3. SumFunctionOnSet(one, Validators) = Cardinality(Members(t))
    <3>1. PICK M \in SUBSET Validators : M = Members(t)
      BY <2>1
    <3> QED
      BY <1>1, <2>2, <3>1, SumCounts
  <2> QED
    BY <2>3, SeatsOfTier
<1>6. \A v \in Validators : f[v] \in Int /\ one[v] \in Int /\ e[v] = f[v] + one[v]
  BY <1>3
<1>7. SumFunctionOnSet(e, Validators)
        = SumFunctionOnSet(f, Validators) + SumFunctionOnSet(one, Validators)
  BY <1>1, <1>6, SumPlus
<1> QED
  BY <1>4, <1>5, <1>7 DEF SumOver

\* All of a tier's batches are final once it is done, and none before.
LEMMA FinalizedAll ==
    ASSUME VoteInv, NEW t \in Tiers
    PROVE  FinalizedBatches(t) = IF GIstate \in After[t] THEN 1..Len(batches[t]) ELSE {}
<1>1. DOMAIN batches[t] = 1..Len(batches[t])
  BY DEF VoteInv, PartitionOK, PartitionOf
<1> QED
  BY <1>1 DEF FinalizedBatches, VoteInv, DecisionsOK

LEMMA FinalizedAllNext ==
    ASSUME VoteInv', NEW t \in Tiers
    PROVE  FinalizedBatches(t)' = IF GIstate' \in After[t] THEN 1..Len(batches'[t]) ELSE {}
<1>1. DOMAIN batches'[t] = 1..Len(batches'[t])
  BY DEF VoteInv, PartitionOK, PartitionOf
<1> QED
  BY <1>1 DEF FinalizedBatches, VoteInv, DecisionsOK

WeightInv ==
    /\ aggregatorWeight \in [Validators -> Nat]
    /\ totalAggregatorWeight \in Nat
    /\ WeightAddsUp

LEMMA FinalizeKeepsWeight ==
    ASSUME RoundInv, WeightInv, VoteInv', NEW t \in Tiers, FinalizeAggregation(t)
    PROVE  WeightInv'
<1>1. PartitionOK /\ VoteInv
  BY DEF RoundInv, VoteInv
<1>2. PICK n \in Nat : n = Len(batches[t])
  BY <1>1, SeatsOfTier
<1>3. /\ aggregatorWeight' = [v \in Validators |-> aggregatorWeight[v] + BatchesOf(v, t)]
      /\ totalAggregatorWeight' = totalAggregatorWeight + BatchSize * n
      /\ GIstate = RevealPhase[t] /\ GIstate' = DonePhase[t]
  BY <1>2 DEF FinalizeAggregation, AccrueWeight
<1>4. /\ Len(batches'[t]) = n
      /\ \A u \in Tiers : u # t => batches'[u] = batches[u]
  <2>1. PICK bs : bs = [b \in DOMAIN batches[t] |->
               [batches[t][b] EXCEPT !.finalized = TRUE,
                                     !.finalCID = WinningCID(t, b),
                                     !.finalizedAt = now]]
    OBVIOUS
  <2>2. batches' = [batches EXCEPT ![t] = bs]
    BY <2>1 DEF FinalizeAggregation
  <2>3. batches \in [Tiers -> Seq(Batch)] /\ DOMAIN batches[t] = 1..n
    BY <1>1, <1>2 DEF PartitionOK, PartitionOf
  <2>4. DOMAIN bs = 1..n /\ batches'[t] = bs
    BY <2>1, <2>2, <2>3
  <2>5. Len(bs) = n
    <3>1. batches'[t] \in Seq(Batch)
      BY DEF VoteInv, PartitionOK, PartitionOf
    <3>2. DOMAIN bs = 1..Len(bs) /\ Len(bs) \in Nat
      BY <2>4, <3>1
    <3>3. 1..Len(bs) = 1..n
      BY <2>4, <3>2
    <3> QED
      BY <3>2, <3>3, SameInterval
  <2> QED
    BY <2>2, <2>3, <2>4, <2>5
<1>5. /\ FinalizedBatches(t) = {} /\ FinalizedBatches(t)' = 1..n
      /\ \A u \in Tiers : u # t => FinalizedBatches(u)' = FinalizedBatches(u)
  <2>1. GIstate \notin After[t] /\ GIstate' \in After[t]
    BY <1>3 DEF RevealPhase, DonePhase, After, Tiers
  <2>2. FinalizedBatches(t) = {} /\ FinalizedBatches(t)' = 1..n
    BY <1>1, <1>4, <2>1, FinalizedAll, FinalizedAllNext
  <2> QED
    BY <1>4, <2>2 DEF FinalizedBatches
<1>6. PICK k \in Nat : /\ k = Cardinality(FinalizedBatches(1)) + Cardinality(FinalizedBatches(2))
                       /\ k + n = Cardinality(FinalizedBatches(1)') + Cardinality(FinalizedBatches(2)')
  <2>1. /\ Cardinality(FinalizedBatches(t)) = 0 /\ Cardinality(FinalizedBatches(t)') = n
    BY <1>5, FS_EmptySet, FS_Interval
  <2>2. \A u \in Tiers : Cardinality(FinalizedBatches(u)) \in Nat
    <3> SUFFICES ASSUME NEW u \in Tiers PROVE Cardinality(FinalizedBatches(u)) \in Nat
      OBVIOUS
    <3>1. Len(batches[u]) \in Nat
      BY <1>1, SeatsOfTier
    <3>2. IsFiniteSet(FinalizedBatches(u))
      <4>1. IsFiniteSet({}) /\ IsFiniteSet(1..Len(batches[u]))
        BY <3>1, FS_EmptySet, FS_Interval
      <4> QED
        BY <1>1, <4>1, FinalizedAll
    <3> QED
      BY <3>2, FS_CardinalityType
  <2>3. PICK x \in Nat, y \in Nat : /\ x = Cardinality(FinalizedBatches(1))
                                    /\ y = Cardinality(FinalizedBatches(2))
    BY <2>2 DEF Tiers
  <2>4. x + y + n = Cardinality(FinalizedBatches(1)') + Cardinality(FinalizedBatches(2)')
    <3>1. CASE t = 1
      <4>1. x = 0 /\ Cardinality(FinalizedBatches(1)') = n
        BY <2>1, <2>3, <3>1
      <4>2. Cardinality(FinalizedBatches(2)') = y
        BY <1>5, <2>3, <3>1 DEF Tiers
      <4> QED
        BY <4>1, <4>2
    <3>2. CASE t = 2
      <4>1. y = 0 /\ Cardinality(FinalizedBatches(2)') = n
        BY <2>1, <2>3, <3>2
      <4>2. Cardinality(FinalizedBatches(1)') = x
        BY <1>5, <2>3, <3>2 DEF Tiers
      <4> QED
        BY <4>1, <4>2
    <3> QED
      BY <3>1, <3>2 DEF Tiers
  <2>5. x + y \in Nat
    OBVIOUS
  <2> QED
    BY <2>3, <2>4, <2>5
<1>7. PICK total \in Nat : total = totalAggregatorWeight /\ total = BatchSize * k
  BY <1>6 DEF WeightInv, WeightAddsUp
<1>8. PICK f, e : f = aggregatorWeight /\ e = aggregatorWeight'
  OBVIOUS
<1>9. \A v \in Validators : f[v] \in Nat /\ e[v] = f[v] + BatchesOf(v, t)
  BY <1>3, <1>8 DEF WeightInv
<1>10. /\ \A v \in Validators : e[v] \in Nat
       /\ SumOver(e) = total + BatchSize * n
  <2>1. SumOver(f) = total
    BY <1>7, <1>8 DEF WeightInv, WeightAddsUp
  <2> QED
    BY <1>1, <1>2, <1>9, <2>1, WeightOfTier
<1>11. aggregatorWeight' \in [Validators -> Nat]
  BY <1>3, <1>8, <1>10
<1>12. totalAggregatorWeight' = total + BatchSize * n
  BY <1>3, <1>7
<1>13. total + BatchSize * n \in Nat /\ total + BatchSize * n = BatchSize * (k + n)
  BY <1>7 DEF BatchSize
<1>14. SumOver(aggregatorWeight') = totalAggregatorWeight'
  BY <1>8, <1>10, <1>12
<1>15. totalAggregatorWeight'
          = BatchSize * (Cardinality(FinalizedBatches(1)') + Cardinality(FinalizedBatches(2)'))
  BY <1>6, <1>12, <1>13
<1> QED
  BY <1>11, <1>12, <1>13, <1>14, <1>15 DEF WeightInv, WeightAddsUp, SumOver

\* The other calls touch no weight and finalise nothing.
LEMMA OthersKeepWeight ==
    ASSUME WeightInv, UNCHANGED <<aggregatorWeight, totalAggregatorWeight>>,
           \A t \in Tiers : FinalizedBatches(t)' = FinalizedBatches(t)
    PROVE  WeightInv'
  BY DEF WeightInv, WeightAddsUp, SumOver, Tiers

LEMMA WeightInvStep ==
    ASSUME RoundInv, VoteInv', WeightInv, [RoundNext]_allVars PROVE WeightInv'
<1>1. CASE \E t \in Tiers : FinalizeAggregation(t)
  BY <1>1, FinalizeKeepsWeight
<1>2. CASE UNCHANGED <<batches, aggregatorWeight, totalAggregatorWeight>>
  <2>1. \A t \in Tiers : FinalizedBatches(t)' = FinalizedBatches(t)
    BY <1>2 DEF FinalizedBatches
  <2> QED
    BY <1>2, <2>1, OthersKeepWeight
<1>3. CASE \E pool \in AggregatorShuffles, models \in ModelShuffles :
               AutoCreateTier1AndTier2(pool, models)
  <2>1. /\ GIstate = "AggSeedLocked" /\ GIstate' = "T1nT2Bcreated"
        /\ UNCHANGED <<aggregatorWeight, totalAggregatorWeight>>
    BY <1>3 DEF AutoCreateTier1AndTier2
  <2>2. \A t \in Tiers : GIstate \notin After[t] /\ GIstate' \notin After[t]
    BY <2>1 DEF After, Tiers
  <2>3. \A t \in Tiers : FinalizedBatches(t)' = {} /\ FinalizedBatches(t) = {}
    BY <2>2, FinalizedAll, FinalizedAllNext DEF RoundInv
  <2> QED
    BY <2>1, <2>3, OthersKeepWeight
<1>4. CASE OwnerCall
  BY <1>1, <1>2, <1>3, <1>4 DEF OwnerCall, StartAggregation, StartAggregationReveal,
     SlashAuditors, MoveOn, SlashAggregators, SetS2SlashFractionBps
<1>5. CASE \E a \in Validators : AggregatorCall(a)
  BY <1>2, <1>5 DEF AggregatorCall, CommitAggregation, RevealAggregation
<1>6. CASE StakeMoves \/ UNCHANGED allVars
  BY <1>2, <1>6 DEF StakeMoves, allVars, roundVars
<1> QED
  BY <1>4, <1>5, <1>6 DEF RoundNext

\* The denominator of the settlement is the sum of the aggregators' weights,
\* three for each batch that has been finalised: no reward is left undivided
\* and none is divided twice, whatever the partition and whoever was silent.
THEOREM WeightsAddUp == RoundSpec => []WeightAddsUp
<1>1. RoundInit => WeightInv
  <2> SUFFICES ASSUME RoundInit PROVE WeightInv
    OBVIOUS
  <2>1. /\ aggregatorWeight = [v \in Validators |-> 0]
        /\ totalAggregatorWeight = 0
        /\ GIstate = "AggSeedLocked"
    BY DEF RoundInit
  <2>2. \A t \in Tiers : FinalizedBatches(t) = {}
    BY <2>1, RoundInitOK, FinalizedAll DEF RoundInv, After, Tiers
  <2>3. Cardinality(FinalizedBatches(1)) = 0 /\ Cardinality(FinalizedBatches(2)) = 0
    BY <2>2, FS_EmptySet DEF Tiers
  <2>4. SumFunctionOnSet(aggregatorWeight, Validators) = 0
    <3>1. PICK f : f = aggregatorWeight
      OBVIOUS
    <3> PICK zero \in Nat : zero = 0
      OBVIOUS
    <3>2. IsFiniteSet(Validators) /\ \A v \in Validators : f[v] = zero
      BY <2>1, <3>1, ConstantsAssumption
    <3>3. SumFunctionOnSet(f, Validators) = zero * Cardinality(Validators)
      BY <3>2, SumConstant
    <3> QED
      BY <3>1, <3>2, <3>3, FS_CardinalityType
  <2> QED
    BY <2>1, <2>3, <2>4 DEF WeightInv, WeightAddsUp, SumOver, BatchSize
<1>2. RoundInv /\ WeightInv /\ [RoundNext]_allVars => WeightInv'
  BY VoteInvStep, WeightInvStep
<1>3. WeightInv => WeightAddsUp
  BY DEF WeightInv
<1> QED
  BY <1>1, <1>2, <1>3, RoundInvariance, PTL DEF RoundSpec

-----------------------------------------------------------------------------
(* The accounts of DIN over a round: slashAggregators is many slashes at   *)
(* once, and the sums of their parts are the parts of their sum.           *)

LEMMA TakenTyped ==
    ASSUME IInv, FractionOK, NEW a \in Validators
    PROVE  /\ Taken(a) \in Nat
           /\ TreasuryShare(Taken(a)) \in Nat
           /\ BurnShare(Taken(a)) \in Nat
           /\ TreasuryShare(Taken(a)) + BurnShare(Taken(a)) = Taken(a)
<1>1. PICK taken : taken = Taken(a)
  OBVIOUS
<1>2. taken \in Nat
  <2>1. PICK amount \in Nat : amount = Penalty(a)
    BY PenaltyBounded
  <2>2. taken = ActualSlash(validators[a], amount)
    BY <1>1, <2>1 DEF Taken
  <2> QED
    BY <2>2, CurrentAccount, ActualSlashBounds
<1>3. PICK half : half = taken \div 2
  OBVIOUS
<1>4. half \in Nat /\ half <= taken
  BY <1>2, <1>3
<1>5. TreasuryShare(taken) = taken - half /\ BurnShare(taken) = half
  BY <1>3 DEF TreasuryShare, BurnShare
<1> QED
  BY <1>1, <1>2, <1>4, <1>5

\* Each account loses what the slash of it takes, jailed or not.
LEMMA SlashedStake ==
    ASSUME IInv, FractionOK, SlashAggregators, NEW a \in Validators
    PROVE  SlashableStake(validators'[a]) = SlashableStake(validators[a]) - Taken(a)
<1>1. PICK amount \in Nat : amount = Penalty(a)
  BY PenaltyBounded
<1>2. PICK slashed : slashed = SlashNow(validators[a], amount)
  OBVIOUS
<1>3. /\ slashed \in ValidatorInfo /\ AccountOK(slashed, now)
      /\ SlashableStake(slashed) = SlashableStake(validators[a]) - ActualSlash(validators[a], amount)
  BY <1>2, SlashTakes
<1>4. SlashableStake(slashed) = SlashableStake(validators[a]) - Taken(a)
  BY <1>1, <1>3 DEF Taken
<1>5. CASE Escalated(a)
  <2>1. amount = params.minStake
    BY <1>1, <1>5 DEF Penalty, Escalated
  <2>2. PICK duration : duration = EscalationJail
    OBVIOUS
  <2>3. duration \in Nat /\ now \in Nat
    BY <2>2, ParamsParts, IInvParts DEF RestTyped
  <2>4. PICK info : info = Jail(slashed, duration, now)
    OBVIOUS
  <2>5. JailWritten(slashed, info, now, duration)
    BY <1>3, <2>3, <2>4, JailOK
  <2>6. SlashableStake(info) = SlashableStake(slashed)
    BY <2>5 DEF JailWritten, SlashableStake
  <2>7. validators'[a] = info
    BY <1>2, <1>5, <2>1, <2>2, <2>4 DEF SlashAggregators
  <2> QED
    BY <1>4, <2>6, <2>7
<1>6. CASE ~ Escalated(a)
  <2>1. validators'[a] = slashed
    BY <1>1, <1>2, <1>6 DEF SlashAggregators
  <2> QED
    BY <1>4, <2>1
<1> QED
  BY <1>5, <1>6

LEMMA SlashKeepsBooksOfAll ==
    ASSUME IInv, PoolsTyped, FractionOK, Solvent, SlashAggregators
    PROVE  PoolsTyped' /\ Solvent'
<1>1. IsFiniteSet(Validators)
  BY ConstantsAssumption
<1>2. PICK taken : taken = [a \in Validators |-> Taken(a)]
  OBVIOUS
<1>3. PICK kept : kept = [a \in Validators |-> TreasuryShare(Taken(a))]
  OBVIOUS
<1>4. PICK shares : shares = [a \in Validators |-> BurnShare(Taken(a))]
  OBVIOUS
<1>5. \A a \in Validators : /\ taken[a] \in Nat /\ kept[a] \in Nat /\ shares[a] \in Nat
                            /\ taken[a] = kept[a] + shares[a]
                            /\ taken[a] = Taken(a)
  BY <1>2, <1>3, <1>4, TakenTyped
<1>6. PICK f, e : f = Stakes /\ e = Stakes'
  OBVIOUS
<1>7. \A a \in Validators : f[a] \in Int /\ f[a] = SlashableStake(validators[a])
  BY <1>6, SumsTyped
<1>8. \A a \in Validators : e[a] = f[a] - taken[a]
  BY <1>5, <1>6, <1>7, SlashedStake DEF Stakes
<1>9. \A a \in Validators : e[a] \in Int /\ taken[a] \in Int /\ f[a] = e[a] + taken[a]
  BY <1>5, <1>7, <1>8
<1>10. SumFunctionOnSet(f, Validators)
          = SumFunctionOnSet(e, Validators) + SumFunctionOnSet(taken, Validators)
  BY <1>1, <1>9, SumPlus
<1>11. SumFunctionOnSet(taken, Validators)
          = SumFunctionOnSet(kept, Validators) + SumFunctionOnSet(shares, Validators)
  <2>1. \A a \in Validators : kept[a] \in Int /\ shares[a] \in Int /\ taken[a] = kept[a] + shares[a]
    BY <1>5
  <2> QED
    BY <1>1, <2>1, SumPlus
<1>12. PICK p \in Int : p = SumFunctionOnSet(e, Validators)
  BY <1>1, <1>9, SumInt
<1>13. PICK n \in Nat, k \in Nat, b \in Nat :
          /\ n = SumFunctionOnSet(taken, Validators)
          /\ k = SumFunctionOnSet(kept, Validators)
          /\ b = SumFunctionOnSet(shares, Validators)
  BY <1>1, <1>5, SumNat
<1>14. PICK x \in Nat : x = IF treasurySet THEN k ELSE 0
  BY DEF RestTyped, IInv
<1>15. PICK y \in Nat : y = IF treasurySet THEN b ELSE n
  BY DEF RestTyped, IInv
<1>16. n = x + y
  <2>1. n = k + b
    BY <1>11, <1>13
  <2>2. CASE treasurySet
    BY <1>14, <1>15, <2>1, <2>2
  <2>3. CASE ~ treasurySet
    BY <1>14, <1>15, <2>3
  <2> QED
    BY <2>2, <2>3
<1>17. held' = held - n
  BY <1>2, <1>13 DEF SlashAggregators, SumOver
<1>18. treasury' = treasury + x
  BY <1>3, <1>13, <1>14 DEF SlashAggregators, SumOver
<1>19. burned' = burned + y
  <2>1. burned' = burned + SumOver([a \in Validators |->
                              IF treasurySet THEN BurnShare(Taken(a)) ELSE Taken(a)])
    BY DEF SlashAggregators
  <2>2. CASE treasurySet
    <3>1. [a \in Validators |-> IF treasurySet THEN BurnShare(Taken(a)) ELSE Taken(a)] = shares
      BY <1>4, <2>2
    <3> QED
      BY <1>13, <1>15, <2>1, <2>2, <3>1 DEF SumOver
  <2>3. CASE ~ treasurySet
    <3>1. [a \in Validators |-> IF treasurySet THEN BurnShare(Taken(a)) ELSE Taken(a)] = taken
      BY <1>2, <2>3
    <3> QED
      BY <1>13, <1>15, <2>1, <2>3, <3>1 DEF SumOver
  <2> QED
    BY <2>2, <2>3
<1>20. wallet' = wallet
  BY DEF SlashAggregators
<1>21. PICK q \in Int : q = SumFunctionOnSet(wallet, Validators)
  BY SumsTyped
<1>22. held = p + n /\ q + held + treasury + burned = Supply
  BY <1>6, <1>10, <1>12, <1>13, <1>21, SolventParts
<1>23. held \in Int /\ treasury \in Nat /\ burned \in Nat
  BY DEF PoolsTyped
<1>24. PoolsTyped'
  BY <1>17, <1>18, <1>19, <1>23 DEF PoolsTyped
<1>25. held' = p
  BY <1>17, <1>22
<1>26. q + held' + treasury' + burned' = Supply
  BY <1>16, <1>17, <1>18, <1>19, <1>22, <1>23
<1>27. Solvent'
  BY <1>6, <1>12, <1>20, <1>21, <1>25, <1>26, SolventParts2
<1> QED
  BY <1>24, <1>27

LEMMA RoundBooksInit ==
    ASSUME RoundInit PROVE PoolsTyped /\ Solvent
<1>1. IsFiniteSet(Validators) /\ InitialBalance \in Nat /\ InitialStake \in Nat
  BY ConstantsAssumption, RoundAssumption
<1>2. PICK n \in Nat : n = Cardinality(Validators)
  BY <1>1, FS_CardinalityType
<1>3. PICK c \in Nat : c = InitialBalance - InitialStake
  BY ConstantsAssumption, RoundAssumption
<1>4. PICK f, e : f = Stakes /\ e = wallet
  OBVIOUS
<1>5. \A v \in Validators : f[v] = InitialStake
  <2>1. PICK staked : staked = AddStake(NoValidator, InitialStake)
    OBVIOUS
  <2>2. NoValidator \in ValidatorInfo
    BY DEF NoValidator, ValidatorInfo, ValidatorStatus
  <2>3. staked \in ValidatorInfo /\ SlashableStake(staked) = InitialStake
    BY <1>1, <2>1, <2>2, AddStakeOK DEF AddStake, NoValidator, SlashableStake
  <2>4. PICK account : account = SyncStatus(staked, InitialParams.minStake, 0)
    OBVIOUS
  <2>5. SlashableStake(account) = SlashableStake(staked)
    <3>1. staked.withdrawAvailableAt = 0 /\ staked.jailedUntil = 0
      BY <1>1, <2>1, <2>2, AddStakeOK DEF NoValidator
    <3>2. InitialParams.minStake \in Nat \ {0}
      BY ConstantsAssumption DEF Params
    <3>3. SameBut(account, staked)
      BY <2>3, <2>4, <3>1, <3>2, SyncStatusOK
    <3> QED
      BY <3>3 DEF SameBut, SlashableStake
  <2>6. \A v \in Validators : validators[v] = account
    BY <2>1, <2>4 DEF RoundInit
  <2> QED
    BY <1>4, <2>3, <2>5, <2>6 DEF Stakes
<1>6. \A v \in Validators : e[v] = c
  BY <1>3, <1>4 DEF RoundInit
<1>7. SumFunctionOnSet(f, Validators) = InitialStake * n
  BY <1>1, <1>2, <1>5, SumConstant
<1>8. SumFunctionOnSet(e, Validators) = c * n
  BY <1>1, <1>2, <1>6, SumConstant
<1>9. c * n + InitialStake * n = InitialBalance * n
  <2>1. InitialBalance = c + InitialStake
    BY <1>1, <1>3
  <2>2. (c + InitialStake) * n = c * n + InitialStake * n
    BY <1>1
  <2> QED
    BY <2>1, <2>2
<1>10. held = InitialStake * n /\ treasury = 0 /\ burned = 0
  BY <1>2 DEF RoundInit
<1>11. c * n \in Nat /\ InitialStake * n \in Nat
  BY <1>1
<1>12. SumFunctionOnSet(wallet, Validators) + held + treasury + burned = Supply
  <2>1. PICK i \in Nat, j \in Nat : i = c * n /\ j = InitialStake * n
    BY <1>11
  <2>2. SumFunctionOnSet(wallet, Validators) = i /\ held = j /\ Supply = i + j
    BY <1>2, <1>4, <1>8, <1>9, <1>10, <2>1 DEF Supply
  <2>3. i + j + 0 + 0 = i + j
    OBVIOUS
  <2> QED
    BY <1>10, <2>2, <2>3
<1>13. PoolsTyped
  BY <1>10, <1>11 DEF PoolsTyped
<1> QED
  BY <1>4, <1>7, <1>10, <1>12, <1>13, SolventParts

\* Whatever the votes and the silences of a round, and whatever the other
\* contracts do meanwhile, slashAggregators takes from the stake contract what
\* it takes from the accounts, and treasury and fire receive all of it.
THEOREM BooksBalanceInTheRound == RoundSpec => []Solvent
<1>1. RoundInit => PoolsTyped /\ Solvent
  BY RoundBooksInit
<1>2. RoundInv /\ PoolsTyped /\ Solvent /\ [RoundNext]_allVars => PoolsTyped' /\ Solvent'
  BY OtherStepsAreStakeSteps, SlashKeepsBooksOfAll, PoolsStep, BooksStep DEF RoundInv
<1> QED
  BY <1>1, <1>2, RoundInvariance, PTL DEF RoundSpec
=============================================================================
