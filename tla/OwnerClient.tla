----------------------------- MODULE OwnerClient -----------------------------
(***************************************************************************)
(* The dincli commands with which a model owner drives global iterations:  *)
(* funding and starting one, opening and closing its phases, creating the  *)
(* batches, scoring the new global model, slashing, ending the iteration   *)
(* and releasing its registration slots.                                   *)
(*                                                                         *)
(* A command reads the iteration and its state once, checks them, and      *)
(* sends a transaction some time later.  In between a validator may lock a *)
(* seed, which moves the state, or an earlier transaction of the owner     *)
(* whose receipt was given up is mined.  What a phase needs of the         *)
(* validators (registrations, commits, reveals) is in AggregationRound.tla *)
(* and ValidatorClient.tla, the test data in TestDataAssignment.tla, and   *)
(* the waiting of ensure_batch_seed_locked in ValidatorClient.tla.         *)
(***************************************************************************)
EXTENDS Integers, Sequences, FiniteSets

CONSTANTS
    LastGI,        \* bound: the iterations that are started
    Scores,        \* the accuracies a model may be given, in percent
    MaxPending,    \* bound: the owner's transactions in the pool
    MaxFailures,   \* bound: failed sends, missed receipts and kills
    MaxDeposits,   \* bound: deposits into the pool of one iteration
    MaxScorings    \* bound: how often set-score succeeds in an iteration

ASSUME OwnerAssumption ==
    /\ LastGI \in Nat \ {0} /\ Scores \subseteq 0..100
    /\ MaxPending \in Nat \ {0} /\ MaxFailures \in Nat /\ MaxDeposits \in Nat \ {0}

GIs == 1..LastGI

VARIABLES
    GI, GIstate,
    seed,        \* per seed pair: "none", "ahead", "ready" or "locked"
    fund,        \* per iteration: [pool, emitted]
    tier2Score,  \* per iteration, 0 when never set
    released,    \* the iterations whose slots were released
    pool,        \* the owner's transactions, in nonce order
    command,     \* what the owner's machine runs
    failures,
    ghost        \* per iteration: scores set, and whether the owner was asked;
                 \* only the properties look at it

chain == <<GI, GIstate, seed, fund, tier2Score, released>>
vars == <<chain, pool, command, failures, ghost>>

Idle == [name |-> "none", step |-> "idle", gi |-> 0, arg |-> 0]

OwnerInit ==
    /\ GI = 0 /\ GIstate = "GenesisModelCreated"
    /\ seed = [audit |-> "none", agg |-> "none"]
    /\ fund = [g \in GIs |-> [pool |-> 0, emitted |-> FALSE]]
    /\ tier2Score = [g \in GIs |-> 0]
    /\ released = {}
    /\ pool = <<>>
    /\ command = Idle
    /\ failures = 0
    /\ ghost = [g \in GIs |-> [scored |-> 0, asked |-> FALSE]]

(***************************************************************************)
(* The contracts: from which state each of the owner's transactions moves  *)
(* the iteration, and to which.                                            *)
(***************************************************************************)
Moves == [
    startDINaggregatorsRegistration |-> <<"GIstarted", "DINaggregatorsRegistrationStarted">>,
    closeDINaggregatorsRegistration |->
        <<"DINaggregatorsRegistrationStarted", "DINaggregatorsRegistrationClosed">>,
    startDINauditorsRegistration |->
        <<"DINaggregatorsRegistrationClosed", "DINauditorsRegistrationStarted">>,
    closeDINauditorsRegistration |->
        <<"DINauditorsRegistrationStarted", "DINauditorsRegistrationClosed">>,
    startLMsubmissions |-> <<"DINauditorsRegistrationClosed", "LMSstarted">>,
    closeLMsubmissions |-> <<"LMSstarted", "LMSclosed">>,
    createAuditorsBatches |-> <<"AuditSeedLocked", "AuditorsBatchesCreated">>,
    setTestDataAssignedFlag |-> <<"AuditorsBatchesCreated", "AuditTestDataAssigned">>,
    startLMsubmissionsEvaluation |-> <<"AuditTestDataAssigned", "LMSevaluationStarted">>,
    startLMsubmissionsEvaluationReveal |->
        <<"LMSevaluationStarted", "LMSevaluationRevealStarted">>,
    closeLMsubmissionsEvaluation |-> <<"LMSevaluationRevealStarted", "LMSevaluationClosed">>,
    autoCreateTier1AndTier2 |-> <<"AggSeedLocked", "T1nT2Bcreated">>,
    startT1Aggregation |-> <<"T1nT2Bcreated", "T1AggregationStarted">>,
    startT1AggregationReveal |-> <<"T1AggregationStarted", "T1AggregationRevealStarted">>,
    finalizeT1Aggregation |-> <<"T1AggregationRevealStarted", "T1AggregationDone">>,
    startT2Aggregation |-> <<"T1AggregationDone", "T2AggregationStarted">>,
    startT2AggregationReveal |-> <<"T2AggregationStarted", "T2AggregationRevealStarted">>,
    finalizeT2Aggregation |-> <<"T2AggregationRevealStarted", "T2AggregationDone">>,
    slashAuditors |-> <<"T2AggregationDone", "AuditorsSlashed">>,
    slashAggregators |-> <<"AuditorsSlashed", "AggregatorsSlashed">>,
    endGI |-> <<"AggregatorsSlashed", "GIended">>,
    lockAuditSeed |-> <<"LMSclosed", "AuditSeedLocked">>,
    lockAggSeed |-> <<"LMSevaluationClosed", "AggSeedLocked">>]

SeedOf == [lockAuditSeed |-> "audit", lockAggSeed |-> "agg"]
AnchorOf == [closeLMsubmissions |-> "audit", closeLMsubmissionsEvaluation |-> "agg"]

Ended(g) == g < GI \/ (g = GI /\ GIstate = "GIended")

\* Would the transaction succeed on the latest state.
Succeeds(tx) ==
    CASE tx.fn = "startGI" ->
           /\ GIstate \in {"GenesisModelCreated", "GIended"}
           /\ tx.gi = GI + 1 /\ tx.gi \in GIs /\ fund[tx.gi].pool > 0
           /\ tx.arg \in 0..100
      [] tx.fn = "setTier2Score" -> tx.gi = GI /\ GIstate = "T2AggregationDone"
      [] tx.fn = "releaseGIRegistrationSlots" -> Ended(tx.gi) /\ tx.gi \notin released
      [] tx.fn = "depositRewards" -> tx.gi >= GI
      [] tx.fn = "fundGI" -> tx.gi >= GI /\ ~fund[tx.gi].emitted
      [] tx.fn \in DOMAIN Moves ->
           /\ tx.gi = GI /\ GIstate = Moves[tx.fn][1]
           /\ tx.fn \in DOMAIN SeedOf => seed[SeedOf[tx.fn]] = "ready"

\* What it then does.  closeLMsubmissions and closeLMsubmissionsEvaluation
\* anchor a seed in a block to come, startGI finds none.
Execute(tx) ==
    /\ GI' = IF tx.fn = "startGI" THEN tx.gi ELSE GI
    /\ GIstate' = CASE tx.fn = "startGI" -> "GIstarted"
                    [] tx.fn \in DOMAIN Moves -> Moves[tx.fn][2]
                    [] OTHER -> GIstate
    /\ seed' = CASE tx.fn = "startGI" -> [k \in DOMAIN seed |-> "none"]
                 [] tx.fn \in DOMAIN AnchorOf -> [seed EXCEPT ![AnchorOf[tx.fn]] = "ahead"]
                 [] tx.fn \in DOMAIN SeedOf -> [seed EXCEPT ![SeedOf[tx.fn]] = "locked"]
                 [] OTHER -> seed
    /\ fund' = CASE tx.fn \in {"depositRewards", "fundGI"} ->
                      [fund EXCEPT ![tx.gi] =
                         [pool |-> @.pool + 1,
                          emitted |-> @.emitted \/ tx.fn = "fundGI"]]
                 [] OTHER -> fund
    /\ tier2Score' = IF tx.fn = "setTier2Score"
                     THEN [tier2Score EXCEPT ![tx.gi] = tx.arg] ELSE tier2Score
    /\ released' = IF tx.fn = "releaseGIRegistrationSlots"
                   THEN released \cup {tx.gi} ELSE released

(***************************************************************************)
(* build_and_send_tx.                                                      *)
(***************************************************************************)
Tx == [fn |-> command.name, gi |-> command.gi, arg |-> command.arg]
SeedTx == [fn |-> command.lock, gi |-> command.gi, arg |-> 0]

\* The command goes on: after the lock of a seed it looks again, otherwise it
\* is over, with or without success.
OnReceipt == command' = IF command.step = "lock" THEN [command EXCEPT !.step = "seed"]
                        ELSE Idle

MineTx ==
    /\ pool # <<>>
    /\ pool' = Tail(pool)
    /\ LET tx == Head(pool)
       IN  /\ IF Succeeds(tx) THEN Execute(tx) ELSE UNCHANGED chain
           /\ ghost' = IF Succeeds(tx) /\ tx.fn = "setTier2Score"
                       THEN [ghost EXCEPT ![tx.gi].scored = @ + 1] ELSE ghost
           /\ IF command.step \in {"wait", "lock"} /\ Len(pool) = 1
              THEN OnReceipt ELSE UNCHANGED command
    /\ UNCHANGED failures

\* The estimate runs the call on the latest state: it fails there, or the
\* transaction goes out and its receipt is waited for.
Send(tx, waiting) ==
    /\ Succeeds(tx) /\ Len(pool) < MaxPending
    /\ pool' = Append(pool, tx)
    /\ command' = [command EXCEPT !.step = waiting]
    /\ UNCHANGED <<chain, failures, ghost>>

SendCall == command.step = "send" /\ Send(Tx, "wait")

EstimateFails ==
    /\ command.step = "send" /\ ~Succeeds(Tx)
    /\ command' = Idle
    /\ UNCHANGED <<chain, pool, failures, ghost>>

\* The node is not reached, the wait for the receipt times out, the process is
\* killed: what was sent stays in the pool.
CommandFails ==
    /\ command # Idle /\ failures < MaxFailures
    /\ failures' = failures + 1
    /\ command' = Idle
    /\ UNCHANGED <<chain, pool, ghost>>

(***************************************************************************)
(* What a command reads, and how it begins.                                *)
(***************************************************************************)
\* get_current_gi_and_state, and validate_gi_ET_curr_GI: a --gi that is given
\* must be the current one, and nothing is current before the first.
CurrentGI == GI

Begins(name, gi, arg) ==
    /\ command = Idle
    /\ command' = [name |-> name, step |-> "send", gi |-> gi, arg |-> arg]
    /\ UNCHANGED <<chain, pool, failures, ghost>>

\* A command that only checks that it concerns the current iteration leaves
\* the state to the estimate; it is of interest in the state it is meant for.
Calls(fn) == GI \in GIs /\ GIstate = Moves[fn][1] /\ Begins(fn, CurrentGI, 0)

\* validate_GIstate_ET_given_GIstate as well.
CallsIn(state, fn) == GI \in GIs /\ GIstate = state /\ Begins(fn, CurrentGI, 0)

(***************************************************************************)
(* Funding: rewards deposit, rewards fund-emission.                        *)
(***************************************************************************)
\* _resolve_funding_gi.
Fundable == {g \in GIs : g >= GI}

\* approve_din and then the deposit; the approval is for this amount, and it
\* exits when it fails.
Deposit(g) ==
    /\ g \in Fundable /\ fund[g].pool < MaxDeposits
    /\ Begins("depositRewards", g, 0)

FundEmission(g) ==
    /\ g \in Fundable /\ ~fund[g].emitted /\ fund[g].pool < MaxDeposits
    /\ Begins("fundGI", g, 0)

(***************************************************************************)
(* gi start: the pool is not empty, and the pass score, when it is used,   *)
(* is the accuracy of the latest global model less a threshold.            *)
(***************************************************************************)
Clamped(n) == IF n < 0 THEN 0 ELSE IF n > 100 THEN 100 ELSE n

\* min(100, max(0, int(accuracy - threshold))).
PassScore(accuracy, threshold) == Clamped(accuracy - threshold)

Start ==
    /\ GI + 1 \in GIs /\ fund[GI + 1].pool > 0
    /\ GIstate \in {"GenesisModelCreated", "GIended"}
    /\ \E accuracy \in Scores : Begins("startGI", GI + 1, PassScore(accuracy, 5))

AggregatorsOpen  == Calls("startDINaggregatorsRegistration")
AggregatorsClose == Calls("closeDINaggregatorsRegistration")
AuditorsOpen     == Calls("startDINauditorsRegistration")
AuditorsClose    == Calls("closeDINauditorsRegistration")

(***************************************************************************)
(* lms, auditor-batches, lms-evaluation.                                   *)
(***************************************************************************)
LmsOpen  == Calls("startLMsubmissions")
LmsClose == CallsIn("LMSstarted", "closeLMsubmissions")

\* Mutant: the state that the lock of a seed leads to is not expected.
FirstStepUnlocked(anchored, locked) == IF GIstate = anchored THEN "seed" ELSE "none"

\* The seed is locked first, unless somebody has: the state tells which.
FirstStep(anchored, locked) ==
    CASE GIstate = locked -> "send" [] GIstate = anchored -> "seed" [] OTHER -> "none"

CreatesAfterSeed(anchored, locked, lock, fn) ==
    /\ GI \in GIs /\ command = Idle
    /\ FirstStep(anchored, locked) # "none"
    /\ command' = [name |-> fn, step |-> FirstStep(anchored, locked), gi |-> CurrentGI,
                   arg |-> 0, lock |-> lock]
    /\ UNCHANGED <<chain, pool, failures, ghost>>

CreateAuditorsBatches ==
    CreatesAfterSeed("LMSclosed", "AuditSeedLocked", "lockAuditSeed", "createAuditorsBatches")

\* create-testdataset, whose last transaction is this one.
CreateTestDataset == Calls("setTestDataAssignedFlag")

StartEvaluation == CallsIn("AuditTestDataAssigned", "startLMsubmissionsEvaluation")
StartEvaluationReveal == CallsIn("LMSevaluationStarted", "startLMsubmissionsEvaluationReveal")
CloseEvaluation == CallsIn("LMSevaluationRevealStarted", "closeLMsubmissionsEvaluation")

(***************************************************************************)
(* aggregation.                                                            *)
(***************************************************************************)
CreateTier1Tier2Batches ==
    CreatesAfterSeed("LMSevaluationClosed", "AggSeedLocked", "lockAggSeed",
                     "autoCreateTier1AndTier2")

\* ensure_batch_seed_locked, after its wait for the seed's block.
EnsureBatchSeedLocked ==
    /\ command.step = "seed"
    /\ \/ /\ seed[SeedOf[command.lock]] = "locked"
          /\ command' = [command EXCEPT !.step = "send"]
          /\ UNCHANGED <<chain, pool, failures, ghost>>
       \/ seed[SeedOf[command.lock]] = "ready" /\ Send(SeedTx, "lock")

StartT1       == CallsIn("T1nT2Bcreated", "startT1Aggregation")
StartT1Reveal == CallsIn("T1AggregationStarted", "startT1AggregationReveal")
CloseT1       == CallsIn("T1AggregationRevealStarted", "finalizeT1Aggregation")
StartT2       == CallsIn("T1AggregationDone", "startT2Aggregation")
StartT2Reveal == CallsIn("T2AggregationStarted", "startT2AggregationReveal")
CloseT2       == CallsIn("T2AggregationRevealStarted", "finalizeT2Aggregation")

\* aggregation T2 set-score: the final model is scored, which takes a while.
\* It may be run again, as its only check is the state.
SetT2Score ==
    /\ GI \in GIs /\ GIstate = "T2AggregationDone" /\ ghost[GI].scored < MaxScorings
    /\ \E accuracy \in Scores : Begins("setTier2Score", CurrentGI, accuracy)

(***************************************************************************)
(* slash, gi end, gi release-slots.                                        *)
(***************************************************************************)
\* Mutant: the state alone is taken for a sign that the model was scored.
SlashUnasked(g) ==
    /\ command' = [name |-> "slashAuditors", step |-> "send", gi |-> g, arg |-> 0]
    /\ UNCHANGED ghost

\* The score tells whether set-score has run; when it reads 0, the owner is
\* asked, and here says yes.
SlashScored(g) ==
    /\ command' = [name |-> "slashAuditors", step |-> "send", gi |-> g, arg |-> 0]
    /\ ghost' = IF tier2Score[g] = 0
                THEN [ghost EXCEPT ![g].asked = TRUE] ELSE ghost

SlashAuditors ==
    /\ command = Idle
    /\ GI \in GIs /\ GIstate = "T2AggregationDone"
    /\ SlashScored(CurrentGI)
    /\ UNCHANGED <<chain, pool, failures>>

SlashAggregators == CallsIn("AuditorsSlashed", "slashAggregators")
End == CallsIn("AggregatorsSlashed", "endGI")

\* Mutant: only the current iteration's slots can be released.
ReleasesCurrent(g) == g = GI /\ GIstate = "GIended"

\* --gi names any iteration that has ended; the default is the current one.
Releases(g) == Ended(g)

ReleaseSlots(g) ==
    /\ Releases(g) /\ g \notin released
    /\ Begins("releaseGIRegistrationSlots", g, 0)

(***************************************************************************)
(* Other actors, and time.                                                 *)
(***************************************************************************)
\* A validator's command locks a seed that is ready.
ValidatorLocksSeed(fn) ==
    /\ LET tx == [fn |-> fn, gi |-> GI, arg |-> 0]
       IN  Succeeds(tx) /\ Execute(tx)
    /\ UNCHANGED <<pool, command, failures, ghost>>

\* The block a seed is anchored in is mined.
SeedBlockMined(k) ==
    /\ seed[k] = "ahead"
    /\ seed' = [seed EXCEPT ![k] = "ready"]
    /\ UNCHANGED <<GI, GIstate, fund, tier2Score, released, pool, command,
                   failures, ghost>>

OwnerCommand ==
    \/ Start \/ AggregatorsOpen \/ AggregatorsClose \/ AuditorsOpen \/ AuditorsClose
    \/ LmsOpen \/ LmsClose \/ CreateAuditorsBatches \/ CreateTestDataset
    \/ StartEvaluation \/ StartEvaluationReveal \/ CloseEvaluation
    \/ CreateTier1Tier2Batches \/ StartT1 \/ StartT1Reveal \/ CloseT1
    \/ StartT2 \/ StartT2Reveal \/ CloseT2 \/ SetT2Score
    \/ SlashAuditors \/ SlashAggregators \/ End
    \/ \E g \in GIs : Deposit(g) \/ FundEmission(g) \/ ReleaseSlots(g)

OwnerNext ==
    \/ OwnerCommand \/ EnsureBatchSeedLocked \/ SendCall \/ EstimateFails \/ CommandFails
    \/ MineTx
    \/ \E fn \in DOMAIN SeedOf : ValidatorLocksSeed(fn)
    \/ \E k \in DOMAIN seed : SeedBlockMined(k)

OwnerSpec == OwnerInit /\ [][OwnerNext]_vars

\* The owner and the participants go on as long as there is something to do,
\* and blocks are mined.
FairOwnerSpec == OwnerSpec /\ WF_vars(OwnerNext)

(***************************************************************************)
(* Properties.                                                             *)
(***************************************************************************)
AuditorsWereSlashed(g) ==
    \/ g < GI
    \/ g = GI /\ GIstate \in {"AuditorsSlashed", "AggregatorsSlashed", "GIended"}

\* The auditors of an iteration are only slashed once its model was scored or
\* the owner was asked, also when receipts were missed and commands run again
\* (slash_auditors reads the score because the state does not tell).
NoSlashUnscored ==
    \A g \in GIs : AuditorsWereSlashed(g) => ghost[g].scored > 0 \/ ghost[g].asked

\* An owner that runs its commands again ends every iteration, whoever locks
\* the seeds and whatever was lost on the way.
IterationsEnd ==
    \A g \in GIs : GI = g ~> GI = LastGI /\ GIstate = "GIended"

\* The slots of every iteration that ended are released, even when the next
\* one has begun by then (release_slots).
SlotsGetReleased == \A g \in GIs : Ended(g) ~> g \in released
=============================================================================
