-------------------------- MODULE ValidatorClient --------------------------
(***************************************************************************)
(* The dincli commands with which aggregators and auditors take part in a  *)
(* global iteration: registering, locking the seed of a batch assignment,  *)
(* committing and revealing an aggregation or an audit score.              *)
(*                                                                         *)
(* A command is a process that reads the chain, works, sends one           *)
(* transaction at a time and waits for its receipt.  Between two of its    *)
(* steps the chain moves on, another command runs, the wait for a receipt  *)
(* times out, or the process is killed; a transaction that was sent stays  *)
(* in the pool of its account and is executed in nonce order.              *)
(*                                                                         *)
(* What a commitment binds is cached in a file of the machine, one per     *)
(* slot: a slot is a tier and a batch, or a batch and a model to score.    *)
(* The contracts are in AggregationRound.tla and GILifecycle.tla; here     *)
(* they are the environment, by what these commands see of them.           *)
(***************************************************************************)
EXTENDS Integers, Sequences, FiniteSets, SequencesExt

CONSTANTS
    Accounts,
    MachineOf,     \* the machine an account runs dincli on
    Slots,         \* all slots; a command visits those of a kind by number
    Assigned,      \* the slots of each account
    Salts,         \* bound: the salts that may be in use at a time
    MaxPending,    \* bound: transactions of an account in the pool
    MaxReanchors,  \* bound: how often a seed block is moved
    Begins         \* the states a behaviour starts from, with the one it ends in

Machines == {MachineOf[a] : a \in Accounts}

ASSUME ClientAssumption ==
    /\ \A a \in Accounts : Assigned[a] \subseteq Slots
    /\ Slots \subseteq ({"t1", "t2", "audit"} \X Nat) /\ IsFiniteSet(Slots)
    /\ Salts \subseteq Nat \ {0}
    /\ MaxPending \in Nat \ {0} /\ MaxReanchors \in Nat

NoEntry == 0       \* no file, or no commitment on the chain
Torn == -1         \* a file cut off while it was written

Kind(slot) == slot[1]
Tiers == {"t1", "t2", "audit"}
CommitState == [t1 |-> "T1AggregationStarted", t2 |-> "T2AggregationStarted",
                audit |-> "LMSevaluationStarted"]
RevealState == [t1 |-> "T1AggregationRevealStarted",
                t2 |-> "T2AggregationRevealStarted",
                audit |-> "LMSevaluationRevealStarted"]
RegistrationState == [aggregator |-> "DINaggregatorsRegistrationStarted",
                      auditor |-> "DINauditorsRegistrationStarted"]

\* The seed pairs: the state a seed waits in, and the one its lock leads to.
BATCH_SEED_PAIRS == [agg |-> "LMSevaluationClosed", audit |-> "LMSclosed"]
SeedLockedState == [agg |-> "AggSeedLocked", audit |-> "AuditSeedLocked"]

\* What follows a state when the owner moves the iteration on.
OwnerMoves == [
    DINaggregatorsRegistrationStarted |-> "DINaggregatorsRegistrationClosed",
    DINaggregatorsRegistrationClosed |-> "DINauditorsRegistrationStarted",
    DINauditorsRegistrationStarted |-> "DINauditorsRegistrationClosed",
    LMSevaluationStarted |-> "LMSevaluationRevealStarted",
    LMSevaluationRevealStarted |-> "LMSevaluationClosed",
    T1AggregationStarted |-> "T1AggregationRevealStarted",
    T1AggregationRevealStarted |-> "T1AggregationDone",
    T2AggregationStarted |-> "T2AggregationRevealStarted",
    T2AggregationRevealStarted |-> "T2AggregationDone"]

VARIABLES
    GIstate,     \* state of the current iteration
    horizon,     \* the state this behaviour ends in
    seed,        \* per seed pair: [locked, block, anchors]
    registered,  \* the <<role, account>> registered
    submission,  \* per account and slot: [commitHash, revealed]
    mempool,     \* per account: its transactions, in nonce order
    commits,     \* per machine and slot: the cached commitment
    command      \* per account: the command it runs; "since" only records
                 \* what was committed when it began

chain == <<GIstate, horizon, seed, registered, submission>>
vars == <<GIstate, horizon, seed, registered, submission, mempool, commits, command>>

Idle == [name |-> "none", step |-> "idle", todo |-> <<>>, entry |-> NoEntry,
         anchors |-> 0, outcome |-> "none", since |-> {}]

\* keccak256(abi.encode(cid, salt, sender, GI, tier, batchId)): binds them all.
\* An entry stands for the CID with its salt.
AggCommitHash(entry, sender, slot) == <<entry, sender, slot>>

\* The same of (score, vote, salt, sender, GI, batchId, modelIndex).
AuditCommitHash(entry, sender, slot) == <<entry, sender, slot>>

CommitHash(entry, sender, slot) ==
    IF Kind(slot) = "audit" THEN AuditCommitHash(entry, sender, slot)
    ELSE AggCommitHash(entry, sender, slot)

NoHash == <<>>

ClientInit ==
    /\ \E b \in Begins : GIstate = b[1] /\ horizon = b[2]
    /\ seed = [k \in {"agg", "audit"} |->
                 [locked |-> FALSE, block |-> "ahead", anchors |-> 0]]
    /\ registered = {}
    /\ submission = [a \in Accounts |-> [s \in Assigned[a] |->
                       [commitHash |-> NoHash, revealed |-> FALSE]]]
    /\ mempool = [a \in Accounts |-> <<>>]
    /\ commits = [m \in Machines |-> [s \in Slots |-> NoEntry]]
    /\ command = [a \in Accounts |-> Idle]

(***************************************************************************)
(* The loop of a command over its slots.                                   *)
(***************************************************************************)
SlotOf(a) == Head(command[a].todo)

\* getAggregatorSubmission(..)[0], hasCommittedLM: on the latest state.
Committed(a, s) == submission[a][s].commitHash # NoHash

\* The command goes on to the next slot, or is done.
OnNextSlot(c) ==
    IF Len(c.todo) = 1 THEN Idle
    ELSE [c EXCEPT !.step = "check", !.todo = Tail(@), !.entry = NoEntry]

NextSlot(a) == command' = [command EXCEPT ![a] = OnNextSlot(@)]

\* exit_on_failure=False: with or without a receipt, the loop goes on; only
\* the lock of a seed looks again at what became of it.
OnReceipt(c, outcome) ==
    IF c.name = "lock-seed" THEN [c EXCEPT !.step = "receipt", !.outcome = outcome]
    ELSE OnNextSlot(c)

(***************************************************************************)
(* The chain.                                                              *)
(***************************************************************************)
\* Would the call succeed on the latest state.
Succeeds(a, tx) ==
    CASE tx.fn = "register" ->
           /\ GIstate = RegistrationState[tx.of]
           /\ <<tx.of, a>> \notin registered
      [] tx.fn = "lock" ->
           /\ GIstate = BATCH_SEED_PAIRS[tx.of]
           /\ ~seed[tx.of].locked /\ seed[tx.of].block # "ahead"
      [] tx.fn = "commit" ->
           /\ GIstate = CommitState[Kind(tx.of)]
           /\ tx.of \in Assigned[a]
           /\ submission[a][tx.of].commitHash = NoHash
      [] tx.fn = "reveal" ->
           /\ GIstate = RevealState[Kind(tx.of)]
           /\ tx.of \in Assigned[a]
           /\ ~submission[a][tx.of].revealed
           /\ submission[a][tx.of].commitHash = CommitHash(tx.entry, a, tx.of)

\* The first transaction of the account's pool is executed, or reverts. The
\* command that waits for it, if there is one, sees the receipt.
MineTx(a) ==
    /\ mempool[a] # <<>>
    /\ mempool' = [mempool EXCEPT ![a] = Tail(@)]
    /\ LET tx == Head(mempool[a])
           ok == Succeeds(a, tx)
       IN  /\ registered' = IF ok /\ tx.fn = "register"
                            THEN registered \cup {<<tx.of, a>>} ELSE registered
           /\ submission' =
                CASE ok /\ tx.fn = "commit" ->
                       [submission EXCEPT ![a][tx.of].commitHash =
                                            CommitHash(tx.entry, a, tx.of)]
                  [] ok /\ tx.fn = "reveal" ->
                       [submission EXCEPT ![a][tx.of].revealed = TRUE]
                  [] OTHER -> submission
           /\ \/ ok /\ tx.fn = "lock" /\ seed[tx.of].block = "mined"
                 /\ seed' = [seed EXCEPT ![tx.of].locked = TRUE]
                 /\ GIstate' = SeedLockedState[tx.of]
              \/ ok /\ tx.fn = "lock" /\ seed[tx.of].block = "expired"
                 /\ seed' = [seed EXCEPT ![tx.of].block = "ahead",
                                         ![tx.of].anchors = @ + 1]
                 /\ UNCHANGED GIstate
              \/ ~(ok /\ tx.fn = "lock") /\ UNCHANGED <<seed, GIstate>>
           /\ command' = IF command[a].step = "wait" /\ Len(mempool[a]) = 1
                         THEN [command EXCEPT ![a] =
                                 OnReceipt(@, IF ok THEN "ok" ELSE "reverted")]
                         ELSE command
    /\ UNCHANGED <<horizon, commits>>

\* A block is mined: the seed block is reached, or falls out of the window.
NextBlock(k) ==
    /\ GIstate = BATCH_SEED_PAIRS[k] /\ GIstate # horizon
    /\ ~seed[k].locked
    /\ \/ seed[k].block = "ahead" /\ seed' = [seed EXCEPT ![k].block = "mined"]
       \/ /\ seed[k].block = "mined" /\ seed[k].anchors < MaxReanchors
          /\ seed' = [seed EXCEPT ![k].block = "expired"]
    /\ UNCHANGED <<GIstate, horizon, registered, submission, mempool, commits, command>>

\* The model owner closes a phase and opens the next.
OwnerMovesOn ==
    /\ GIstate # horizon
    /\ GIstate \in DOMAIN OwnerMoves
    /\ GIstate' = OwnerMoves[GIstate]
    /\ UNCHANGED <<horizon, seed, registered, submission, mempool, commits, command>>

(***************************************************************************)
(* build_and_send_tx: estimate on the latest state, send with the next     *)
(* free nonce, wait for the receipt, and go on without one after a time.   *)
(***************************************************************************)
Sendable(a) == Len(mempool[a]) < MaxPending

\* The transaction goes out, is refused by the estimate, or is not accepted.
Sent(a, tx) ==
    \/ /\ Succeeds(a, tx) /\ Sendable(a)
       /\ mempool' = [mempool EXCEPT ![a] = Append(@, tx)]
       /\ command' = [command EXCEPT ![a].step = "wait"]
    \/ /\ ~Succeeds(a, tx)
       /\ command' = [command EXCEPT ![a] = OnReceipt(@, "refused")]
       /\ UNCHANGED mempool
    \/ /\ command' = [command EXCEPT ![a] = OnReceipt(@, "unsent")]
       /\ UNCHANGED mempool

BuildAndSendTx(a, tx) == Sent(a, tx) /\ UNCHANGED <<chain, commits>>

\* wait_for_transaction_receipt gives up; the transaction may still be mined.
ReceiptTimesOut(a) ==
    /\ command[a].step = "wait"
    /\ command' = [command EXCEPT ![a] = OnReceipt(@, "late")]
    /\ UNCHANGED <<chain, mempool, commits>>

(***************************************************************************)
(* Committing and revealing.                                               *)
(***************************************************************************)
Running(a, names, step) == command[a].name \in names /\ command[a].step = step

Abort(a) == command' = [command EXCEPT ![a] = Idle]

InOrder(v) == \A i, j \in DOMAIN v : i < j => v[i][2] < v[j][2]

\* The slots a command visits: those it may, or the one asked for (--batch).
Visits(slots) ==
    {v \in [1..Cardinality(slots) -> slots] : InOrder(v)} \cup {<<s>> : s \in slots}

Begin(a, name, state, slots) ==
    /\ command[a] = Idle
    /\ GIstate = state
    /\ \E v \in Visits(slots) \ {<<>>} :
         command' = [command EXCEPT ![a].name = name, ![a].step = "check", ![a].todo = v,
                       ![a].since = {s \in ToSet(v) \cap Assigned[a] : Committed(a, s)}]
    /\ UNCHANGED <<chain, mempool, commits>>

InTier(slots, k) == {s \in slots : Kind(s) = k}

AggregateT1(a) ==
    Begin(a, "aggregate-t1", "T1AggregationStarted", InTier(Assigned[a], "t1"))

AggregateT2(a) ==
    Begin(a, "aggregate-t2", "T2AggregationStarted", InTier(Assigned[a], "t2"))

EvaluateLMS(a) ==
    Begin(a, "evaluate", "LMSevaluationStarted", InTier(Assigned[a], "audit"))

Committing == {"aggregate-t1", "aggregate-t2", "evaluate"}

\* Mutant: works again whatever is on the chain.
UncheckedRetry(a) ==
    /\ Running(a, Committing, "check")
    /\ command' = [command EXCEPT ![a].step = "work"]
    /\ UNCHANGED <<chain, mempool, commits>>

\* A retry skips what is committed on the chain, before working again.
CheckCommitted(a) ==
    /\ Running(a, Committing, "check")
    /\ IF Committed(a, SlotOf(a)) THEN NextSlot(a)
       ELSE command' = [command EXCEPT ![a].step = "work"]
    /\ UNCHANGED <<chain, mempool, commits>>

\* secrets.token_bytes: a salt nobody has in use for the slot.
InUse(slot) ==
    {commits[m][slot] : m \in Machines}
    \cup {command[a].entry : a \in {b \in Accounts : /\ command[b].name \in Committing
                                                     /\ SlotOf(b) = slot}}
    \cup UNION {{tx.entry : tx \in {t \in ToSet(mempool[a]) :
                                     t.fn = "commit" /\ t.of = slot}} : a \in Accounts}
    \cup {submission[a][slot].commitHash[1] : a \in {b \in Accounts :
            slot \in Assigned[b] /\ submission[b][slot].commitHash # NoHash}}

\* Mutant: nothing is cached before the commitment is sent.
CacheLater(a, entry) == UNCHANGED commits

Cache(a, entry) == commits' = [commits EXCEPT ![MachineOf[a]][SlotOf(a)] = entry]

\* The commitment is cached, then sent.
SaveCommit(a) ==
    LET fresh == Salts \ InUse(SlotOf(a))
    IN  /\ fresh # {}
        /\ LET entry == CHOOSE x \in fresh : TRUE
           IN  /\ Cache(a, entry)
               /\ command' = [command EXCEPT ![a].step = "send", ![a].entry = entry]

\* The inputs are fetched, the worker runs and the result is uploaded: the
\* loop goes on with the result (only looked at without --submit), or skips
\* the slot when the worker failed, or ends with the error of a download or
\* of the packages.
WorkOn(a, name) ==
    /\ Running(a, {name}, "work")
    /\ \/ SaveCommit(a)
       \/ (NextSlot(a) \/ Abort(a)) /\ UNCHANGED commits
    /\ UNCHANGED <<chain, mempool>>

WorkT1(a) == WorkOn(a, "aggregate-t1")
WorkT2(a) == WorkOn(a, "aggregate-t2")
WorkAudit(a) == WorkOn(a, "evaluate")

SendCommit(a) ==
    /\ Running(a, Committing, "send")
    /\ BuildAndSendTx(a, [fn |-> "commit", of |-> SlotOf(a), entry |-> command[a].entry])

RevealT1(a) ==
    Begin(a, "reveal-t1", "T1AggregationRevealStarted", InTier(Slots, "t1"))

RevealT2(a) ==
    Begin(a, "reveal-t2", "T2AggregationRevealStarted", InTier(Slots, "t2"))

RevealLMS(a) ==
    Begin(a, "reveal", "LMSevaluationRevealStarted", InTier(Assigned[a], "audit"))

Revealing == {"reveal-t1", "reveal-t2", "reveal"}

\* The cached commitment is read back: none skips the slot, a torn file ends
\* the command with the parser's error.
LoadCommit(a) ==
    /\ Running(a, Revealing, "check")
    /\ LET cached == commits[MachineOf[a]][SlotOf(a)]
       IN  CASE cached = NoEntry -> NextSlot(a)
             [] cached = Torn -> Abort(a)
             [] OTHER -> command' = [command EXCEPT ![a].step = "send", ![a].entry = cached]
    /\ UNCHANGED <<chain, mempool, commits>>

SendReveal(a) ==
    /\ Running(a, Revealing, "send")
    /\ BuildAndSendTx(a, [fn |-> "reveal", of |-> SlotOf(a), entry |-> command[a].entry])

\* The process is killed. While it writes the cache, the file is cut off.
Killed(a) ==
    /\ command[a] # Idle
    /\ Abort(a)
    /\ \/ UNCHANGED commits
       \/ Running(a, Committing, "work") /\ Cache(a, Torn)
    /\ UNCHANGED <<chain, mempool>>

(***************************************************************************)
(* Registration.                                                           *)
(***************************************************************************)
RegisterAs(a, role) ==
    /\ command[a] = Idle
    /\ GIstate = RegistrationState[role]
    /\ <<role, a>> \notin registered
    /\ command' = [command EXCEPT ![a].name = "register", ![a].step = "send",
                                  ![a].todo = <<role>>]
    /\ UNCHANGED <<chain, mempool, commits>>

RegisterAggregator(a) == RegisterAs(a, "aggregator")
RegisterAuditor(a) == RegisterAs(a, "auditor")

SendRegistration(a) ==
    /\ Running(a, {"register"}, "send")
    /\ BuildAndSendTx(a, [fn |-> "register", of |-> SlotOf(a), entry |-> NoEntry])

(***************************************************************************)
(* Locking a seed: ensure_batch_seed_locked.                               *)
(***************************************************************************)
\* lock-seed, and the show commands that lock a pending seed first.
LockBatchSeedIfPending(a, k) ==
    /\ command[a] = Idle
    /\ GIstate = BATCH_SEED_PAIRS[k] /\ GIstate # horizon
    /\ command' = [command EXCEPT ![a].name = "lock-seed", ![a].step = "check",
                                  ![a].todo = <<k>>]
    /\ UNCHANGED <<chain, mempool, commits>>

LockAggSeed(a) == LockBatchSeedIfPending(a, "agg")
LockAuditSeed(a) == LockBatchSeedIfPending(a, "audit")

Locked(a) == seed[SlotOf(a)].locked

\* Already locked: done. Otherwise wait for the seed block read here.
ReadSeed(a) ==
    /\ Running(a, {"lock-seed"}, "check")
    /\ IF Locked(a) THEN Abort(a)
       ELSE command' = [command EXCEPT ![a].step = "poll",
                                       ![a].anchors = seed[SlotOf(a)].anchors]
    /\ UNCHANGED <<chain, mempool, commits>>

\* Mutant: polls for the seed block itself, not for a later one.
PollsForExactBlock(a) ==
    /\ Running(a, {"lock-seed"}, "poll")
    /\ seed[SlotOf(a)].block = "mined"
    /\ IF Locked(a) THEN Abort(a) ELSE command' = [command EXCEPT ![a].step = "send"]
    /\ UNCHANGED <<chain, mempool, commits>>

\* The block awaited is mined; locked meanwhile: done.
SeedBlockMined(a) ==
    /\ Running(a, {"lock-seed"}, "poll")
    /\ \/ seed[SlotOf(a)].block # "ahead"
       \/ seed[SlotOf(a)].anchors # command[a].anchors
    /\ IF Locked(a) THEN Abort(a) ELSE command' = [command EXCEPT ![a].step = "send"]
    /\ UNCHANGED <<chain, mempool, commits>>

SendLock(a) ==
    /\ Running(a, {"lock-seed"}, "send")
    /\ BuildAndSendTx(a, [fn |-> "lock", of |-> SlotOf(a), entry |-> NoEntry])

\* Mutant: a moved seed block is not noticed.
NeverReanchored(a) == FALSE

\* Not locked though the call returned: again if the block moved, else Exit 1.
Reanchored(a) == seed[SlotOf(a)].anchors # command[a].anchors

RecheckSeed(a) ==
    /\ Running(a, {"lock-seed"}, "receipt")
    /\ command' = [command EXCEPT ![a] =
                     CASE Locked(a) -> Idle
                       [] ~Locked(a) /\ Reanchored(a) ->
                            [@ EXCEPT !.step = "check", !.anchors = 0, !.outcome = "none"]
                       [] OTHER -> [@ EXCEPT !.step = "gave up"]]
    /\ UNCHANGED <<chain, mempool, commits>>

GiveUp(a) ==
    /\ Running(a, {"lock-seed"}, "gave up")
    /\ Abort(a)
    /\ UNCHANGED <<chain, mempool, commits>>

Starts(a) ==
    \/ AggregateT1(a) \/ AggregateT2(a) \/ EvaluateLMS(a)
    \/ RevealT1(a) \/ RevealT2(a) \/ RevealLMS(a)
    \/ RegisterAggregator(a) \/ RegisterAuditor(a)
    \/ LockAggSeed(a) \/ LockAuditSeed(a)

\* What a command that runs does next.
Continues(a) ==
    \/ CheckCommitted(a) \/ WorkT1(a) \/ WorkT2(a) \/ WorkAudit(a)
    \/ SendCommit(a)
    \/ LoadCommit(a) \/ SendReveal(a) \/ SendRegistration(a)
    \/ ReadSeed(a) \/ SeedBlockMined(a) \/ SendLock(a) \/ RecheckSeed(a) \/ GiveUp(a)

ClientNext ==
    \/ \E a \in Accounts : Starts(a) \/ Continues(a) \/ ReceiptTimesOut(a)
                           \/ Killed(a) \/ MineTx(a)
    \/ \E k \in {"agg", "audit"} : NextBlock(k)
    \/ OwnerMovesOn

ClientSpec == ClientInit /\ [][ClientNext]_vars

(***************************************************************************)
(* A running command takes its steps, the wait for a receipt is bounded    *)
(* (web3's timeout), and blocks are produced.                              *)
(***************************************************************************)
ClientFairness ==
    /\ \A a \in Accounts : WF_vars(Continues(a)) /\ WF_vars(ReceiptTimesOut(a))
    /\ \A k \in {"agg", "audit"} : WF_vars(NextBlock(k))

FairClientSpec == ClientSpec /\ ClientFairness

(***************************************************************************)
(* Properties.                                                             *)
(***************************************************************************)
\* The cache still holds what the commitment on the chain binds.
Revealable(a, s) ==
    submission[a][s].commitHash = CommitHash(commits[MachineOf[a]][s], a, s)

\* A command begun once a commitment was on the chain never replaces what
\* reveals it: only a command begun before it was mined does, or one of
\* another account of the same machine (aggregate_t1, aggregate_t2,
\* evaluate_lms: the check before working again).
RetryKeepsSalt ==
    [][\A a \in Accounts : \A s \in Assigned[a] :
         Committed(a, s) /\ Revealable(a, s) /\ ~Revealable(a, s)' =>
           \E b \in Accounts : /\ MachineOf[b] = MachineOf[a]
                               /\ command[b].name \in Committing
                               /\ b = a => s \notin command[b].since]_vars

\* A commitment on the chain never lacks a cached file, however often the
\* receipt was missed or the process killed: the file is written before the
\* transaction is sent (_save_agg_commit, _save_commit).
CommitNeverStranded ==
    \A a \in Accounts : \A s \in Assigned[a] :
      Committed(a, s) => commits[MachineOf[a]][s] # NoEntry

\* Losing the race for a seed's lock, or meeting a moved seed block, is no
\* error: the command gives up only when its transaction did not get through
\* (ensure_batch_seed_locked).
GivesUpOnlyUnsent ==
    \A a \in Accounts : command[a].step = "gave up" => command[a].outcome \in {"unsent", "late"}

\* Every command comes to an end, also while others race with it for the
\* seed, the seed block moves or receipts are missed.
CommandsEnd == \A a \in Accounts : (command[a] # Idle) ~> (command[a] = Idle)
=============================================================================
