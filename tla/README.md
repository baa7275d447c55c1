# DevNet in TLA+

This directory is the formal model of the DIN DevNet: the contracts in
`src/foundry/src` and the Python client `src/dincli` with which validators,
clients and model owners drive them. It holds TLA+ modules translated from that
code, the TLC configurations that check them on small instances, and TLAPS proofs.
`PROJECT.json` maps every definition to the lines it models and lists the runs,
the mutants that show each property can fail, the findings, the hazards and the
theorems.

## 1. The system

DIN trains a model in *global iterations* (GIs). A model owner deploys two task
contracts, a coordinator and an auditor, and has the model registered; validators
stake DIN once, for all models, and register as aggregators or auditors of single
iterations. All of them act through `dincli`: commands that read the chain, do
some work in files and a worker container, send transactions and wait for their
receipts.

| Component | State it keeps | Operations | What makes it correct |
|---|---|---|---|
| **Validator stake** `DinValidatorStake` | account of each validator (active stake, pending withdrawal and its deadline, jail deadline, status), rings of partial slashes, S5/S6 parameters, slashers | stake, unstake, claimUnstaked, reactivate; slash, slashPartial, recordNoParticipation, jailValidator by slashers; blacklist, parameters by the owner | status agrees with stake; no way out of a running jail; balance equals what is owed; an offence is counted once |
| **Registration counter** `DinValidatorStake`, both task contracts | one counter per validator over all models | increment on registration, decrement on release | the counter is the number of unreleased registrations |
| **GI lifecycle** `DINTaskCoordinator`, `DINShared` | GI index, 29-state `GIstate`, registration lists, two seeds | owner's transitions, registrations, permissionless seed locks, release of slots | an iteration only advances; lists are closed before the seed; every anchored seed is locked |
| **Aggregation** `DINTaskCoordinator` | batches of two tiers, commits, reveals, votes, weights | autoCreateTier1AndTier2, commit, reveal, finalise, slashAggregators | disjoint partition; the plurality wins; only faults are slashed; weights add up |
| **Disputes** `DINTaskCoordinator`, `aggregator.py`, `modelownerd/disputes.py` | disputes, bonds, their seeds | open, lock seed, resolve, settle, expire, claim | the contract holds every open bond; an upheld dispute ends |
| **Evaluation** `DINTaskAuditor`, `auditor.py`, `modelownerd/auditor_batches.py` | encrypted test data per audit batch, its disputes, the keys of owner and auditors, score commits | create, dispute, resolve, close, reassign; register a key, publish the owner's; commit and reveal | an assigned auditor can decrypt; the owner can answer a dispute |
| **Rewards** `DINTaskAuditor`, `DinEmission` | pool of each GI, claims | deposit, settle, claim; fundGI | claims never exceed the pool |
| **Validators' commands** `aggregator.py`, `auditor.py`, `utils.py` | commit files of a machine, transactions in the pool | register, lock-seed, aggregate, evaluate, reveal | a commitment can be revealed; a lost race is no error; every command ends |
| **Owner's commands** `modelownerd/*.py` | transactions in the pool | everything that moves an iteration on | nobody is slashed by an unscored model; iterations end and slots are released |
| **Commands that move money** `services/bridge.py`, `system.py`, `dintoken.py`, `rewards.py` | nonces, balances | bridge-eth, send-eth, buy, stake, claim, withdraw | a repeated command deposits once |
| **Model registration** `DINModelRegistry`, `modelownerd/deploy.py`, `setup.py`, `model.py`, `task.py`, `dinrep.py` | contracts and their confirmations, requests, models, fees, `.env` | deploy, pair, authorise, genesis, request, approve, reject, sweep | contracts that are reported work; IDs agree; fees match requests |
| **Model cache and worker** `context.py`, `utils.py`, `worker`, `client.py` | manifest and sidecar, pinned files, CID store, installed packages, local models | read the manifest, fetch, verify, install, train, submit; update of the manifest on chain | what is used is what is pinned, and was on chain; no raw model leaves a private client |
| **Workstation** `system.py`, `utils.py`, `context.py` | `config.json`, wallet files and their temporary files | configure, register and connect wallets, reset, sign | one invocation signs with one wallet; no wallet is torn |
| **Token and platform** `DinToken`, `DinTreasury`, `DinCoordinator`, `DinFeeRouter`, `DinFairLaunchDistributor` | supply, fee split, vesting | mint, route, vest, sweep | supply below the cap; splits add up |

How they interact. Contracts call each other only synchronously, inside one
transaction: the task contracts of a model read `isValidatorActive`, `getStake`
and `minStake` of the stake contract and call `slash`, `slashPartial`,
`incrementActiveRegistration` on it as authorised *slashers*; the auditor
contract reads the coordinator's `GIstate`. One validator account is shared by
every model. Commands meet on the chain, in the files of one machine, and in the
transaction pool of one account.

What is hard here. On the chain: one account acted on by several contracts
between two steps of a round; deadlines (unbonding, jails, seeds that expire
after 256 blocks, windows); rings that outlive what they counted; loops that
slash many accounts and revert as a whole; phases only an owner can close. In the
client: state read before a transaction is sent and stale when it is mined; a
wait for a receipt that gives up on a transaction that is mined later; a command
killed between writing a file and sending what the file answers for; two
terminals or two roles that write the same file without a lock. `PROJECT.json`
lists each at its line under `hazards`, with the property that would catch it or
the reason none does.

## 2. Plan and state of the plan

| # | Module | Models | State |
|---|---|---|---|
| 1 | `ValidatorAccount` | one account, pure operators | checked, lemmas proved |
| 2 | `ValidatorStake` | the stake contract | checked, proved |
| 3 | `AggregationRound` | aggregation half of a GI, composed with 2 | checked, proved |
| 4 | `RegistrationSlots` | what the shared counter promises (abstract) | implemented by 5 |
| 5 | `GILifecycle` | several models' iterations; implements 4 | checked, proved |
| 6 | `AggregationDispute` | bonds and outcome of disputes, contract and commands | checked, proved |
| 7 | `ValidatorClient` | validators' commands | checked, proved |
| 8 | `Payments` | commands that move money | checked, proved |
| 9 | `OwnerClient` | owner's commands over whole iterations | checked, proved |
| 10 | `TestDataAssignment` | encrypted test data of the audit batches | checked, proved |
| 11 | `ModelRegistration` | from deployment to a registered model | checked, proved |
| 12 | `ArtifactCache` | manifest, pinned files, packages, local models | checked, proved |
| 13 | `Workstation` | configuration and wallet files | checked, proved |
| 14 | audit batches, medians and `slashAuditors` inside `DINTaskAuditor` | | open |
| 15 | reward settlement and shares, over the weights of 3 | | open |
| 16 | token supply, fee router, fair launch | | open, small |

Next would be 14 and 15, with a claim ledger (each claimant at most once, in
total at most the pool) as the abstract specification 15 implements. Every
invariant a passing run checks is also a theorem (section 5); what is left to
prove is about the open modules. `SumTheorems` was written with 15 in mind: a pool
that is divided by weights is a sum again.

## 3. Modules and their correspondence with the code

### Contracts

A contract function is one action, a revert an action that is not enabled.

**`ValidatorAccount`** has no variables. It is `ValidatorInfo` and the internal
functions that rewrite one account: `SyncStatus` is `_syncValidatorStatus`,
`ApplySlash` is `_applySlash` (active stake first, then the pending withdrawal),
`Jail` is `_jailInternal`, `RecordInRing` is the trim-and-append of both rings.
Amounts are natural numbers; the two deadlines keep their `uint64` width
through `Uint64`, modulo the constant `Word`.

**`ValidatorStake`** is the contract: one action per external function that
changes state. `SlashPartial` and `SlashPartialEscalated` are the two outcomes of
`slashPartial`. `now` is `block.timestamp`. The DIN balances (`wallet`, `held`,
`treasury`, `burned`) are the part of `DinToken` this contract moves. History
variables exist for properties only: `reportedGI` (a slasher reports its own,
never decreasing, GI index, which is how both task contracts call it) and the
two `sinceEscalation` counters.

**`AggregationRound`** extends `ValidatorStake` with the state of one iteration
from `AggSeedLocked` to `AggregatorsSlashed`. The two tiers have the same
functions in the code, so they are one action with a tier parameter. A commit
hash binds sender, batch and CID, so a commitment is modelled by the CID it
hides. `SlashAggregators` is the whole loop of one transaction. Between any two
calls of the round other task contracts, the owner and the validators themselves
act on the accounts (`StakeMoves`).

**`RegistrationSlots`** is abstract: units occupied by registrations, a counter
per validator, the release of an iteration. **`GILifecycle`** is the code: the
coordinators of several models, their `GIstate` in the order of the enum,
registration lists, `registrationSlotsReleased`, the counter and its cap, the
two seeds. Transitions that only check the state and set the next are one action
`MoveOn` over the table `PlainStates`, which names the function of each. A seed is
kept by the age of its block, which is all the code reads, so block numbers need
no bound. The refinement mapping (`HeldSlots`, `ReleasedSlots`) reads the units
off the registration lists that have not been released.

### Commands

Every client module models a transaction the way `build_and_send_tx` treats it:
it is refused by the gas estimate, which runs on the latest state; or it does not
go out; or it enters the pool of its account, is executed in nonce order, and
succeeds or reverts by the state of *that* moment. The command waits for the
receipt, and goes on without it when the wait gives up, while the transaction
stays in the pool. A command may be killed at every step, leaving files and pool
as they are. What a command read earlier is in its own record (`command`, `cmd`,
`run` or `proc`), so what is stale in the code is stale in the model.

**`ValidatorClient`**: `register`, `lock-seed`, `aggregate-t1`, `aggregate-t2`,
`evaluate` and their three reveals. `SaveCommit` is the write of the commit file
before the transaction (`_save_agg_commit`, `_save_commit`); a salt stands with
its CID or score for an entry, and `Torn` for a file cut off by a kill.
`ReadSeed`, `SeedBlockMined`, `SendLock` and `RecheckSeed` are
`ensure_batch_seed_locked`. The contracts appear by what these commands see of
them.

**`Payments`**: `bridge-eth` over two chains, `send-eth`, buy, stake, claim,
withdraw, from terminals with one wallet. The nonce is the pending one when the
transaction is signed, so two terminals may sign the same. `told` is what the
user was told of a transaction; the user repeats a command as that message says.

**`OwnerClient`**: every command that moves an iteration, from funding to the
release of the slots. The tables `Moves` and `SeedOf` give the state each call
starts from and leads to; `ValidatorLocksSeed` moves the state under the owner's
hands. **`TestDataAssignment`**: `create-testdataset`, `resolve-test-data`,
`close-expired` and `reassign-test-data` of the owner,
`register-encryption-key`, `dispute-test-data` and the decryption of the auditors.
K is encrypted with the owner's X25519 key to each auditor's, so the payload names
both (`by`, `pubs`), and `CanDecrypt` asks for the auditor's key file and for the
owner's key in the manifest on chain, as `Box(auditor_privkey, owner_pubkey)` does
with `owner_encryption_pubkey`. The owner's key is generated when its file is missing
(`LoadOwnerKey`), put into the cached manifest by `create-testdataset` alone, and
reaches the auditors by `PublishManifest`; `manifest` has what is on chain, what the
owner has cached, and whether `get_manifest` would take that for fresh. The file of K
and the cached manifest are written in place, so a kill in the write leaves
`Truncated`. What the owner still has to send is the set `todo`, and it goes on with
the least batch of it, as the loops over the batches do. Auditors are on other
machines than the owner; the two key files, each written once, are taken to be
written whole.

**`AggregationDispute`**: the bond of a dispute from its approval to its claim or
loss, the seed of the recount, resolution, settlement and expiry, in the contract
and in the commands. Who is drawn into the recount and what they vote is the
free choice of `verdict`; the slashes that settlement and expiry end with are
`ValidatorStake`'s, and are taken not to revert, which `UpheldDisputesEnd` rests
on.

**`ModelRegistration`**: deployment, pairing and authorisation of the task
contracts, the genesis model, requests, fees, their approval or rejection, the
sweep, and the `.env` file the commands write. A contract carries the model ID it
was deployed with; the registry assigns its own.

**`ArtifactCache`**: `get_manifest`, `cache_manifest` and the sidecar,
`ensure_file_exists` and the stores of CIDs, the verification of a download, the
worker's packages and their marker, and whether the client submits its raw model.
The client reads the manifest once in a command, but `auditor.py` and
`aggregator.py` call `get_manifest_key` for each key, and each call compares the
sidecar with the chain and may fetch another manifest. `Plan` is therefore, for
each role, the sequence of its reads of the manifest (with the files whose CIDs a
read takes), its requests for files and the installation of packages; `want` is what
has been read. A download is hashed only with a usable `ipfs` binary and a provider
other than `custom` (`Verifies`); otherwise a forged answer is saved with the CID
that was asked for, as the code does after a warning. Whether there is a binary and
which provider is configured is fixed in a behaviour. Sidecar, stores and marker are
written in place, and a kill in the write leaves a sidecar or marker that matches
nothing, a store that is read as empty. The registry takes any CID but the current
one as the next manifest, so a manifest may be rolled back. Four history variables
tell what has happened: two commands overlapped (`overlapped`), a kill fell between a
content and the CID kept of it (`torn`), an answer that was not asked for was kept
(`forged`), a CID that was replaced came back (`returned`). The loops over local
models and batches read the same keys again; a command here has one of them. The
file of the genesis model and the contract addresses that are read from the manifest
are left out.
**`Workstation`**: `config.json`, truncated and rewritten in place, and the
wallet files, written to one temporary file per name which then replaces the
wallet; an open descriptor follows its file when it is moved or removed.

### Composition

`AggregationRound` runs over the variables and actions of `ValidatorStake`;
`GILifecycle` holds several models over one counter. The four modules
`MCValidatorSide`, `MCOwnerSide`, `MCSecretFiles` and `MCModelFiles` each hold
two client modules that share no state, and a constant variable `part` says which
of the two a behaviour is about: they save runs and compose nothing. The other
`MC*.tla` give constants their values; `*Proofs.tla` hold theorems.

Definitions whose comment says what a bug would do ("Mutant: …", "A reveal that
may be repeated") are the mutated forms `PROJECT.json` lists; no specification
uses them.

## 4. What the runs check

| Run | Instance | Shows |
|---|---|---|
| `stake_accounts` | 1 validator, 1 slasher, time to 3, jails of 1 or 2, MIN_STAKE and unbonding changing | status agrees with stake, no way out of a jail and none shortened, eligibility is earned, a withdrawal ends |
| `stake_recidivism` | 1 validator, 2 slashers, both S5 levels, S6, treasury set or not, odd slashes | a partial slash counts once, rings stay in their window, the balance is what is owed |
| `round_one_tier` | 3 aggregators in every order, 2 CIDs, every S2 fraction, earlier misses, one account disturbed by its owner and another model | the plurality wins, only missing work is slashed, a round takes at most MIN_STAKE |
| `round_batches` | 7 aggregators, or the 6 of them that are Active, 3 to 6 models, 2 CIDs | disjoint partition and weights that add up, over two Tier-1 batches or one and Tier 2 |
| `gi_slots` | 2 models sharing a validator, 2 + 1 iterations, cap on | the counter implements `RegistrationSlots`; roles apart; lists fixed before the seed |
| `gi_seeds` | 1 model, 2 iterations, 2 validators, window 3, delay 2 | seeds wait in their state, and every anchored seed is locked |
| `validator_terminals` | 2 accounts of one machine with slots of all tiers; 2 terminals with one wallet | a commitment never lacks its file, a retry keeps the salt, a lost race for a lock is no error, a repeated bridge deposits once, every command ends |
| `owner_commands` | 2 iterations, 2 failures; one batch, 2 challengers | a slash follows a score or the owner's answer to the warning, iterations end, slots are released; bonds are covered and an upheld dispute ends |
| `secret_files` | 2 terminals, 12 commands; one batch with every loss of a key of owner or auditor and every manifest, or 2 batches that share an auditor and lose none; 2 transactions in the pool, retries, killed writes | one invocation signs with one wallet, only overlap tears a wallet; what was confirmed, and the newest attempt whatever became of its command, can be answered for; only a lost key or an unpublished one keeps an auditor from its data |
| `model_files` | 2 owners and the DIN-Representative, a fee that is raised or lowered; 3 commands of 2 roles on a machine one after the other, 2 kills, failures or forged downloads, 2 manifests that alternate, an `ipfs` binary or none | IDs, genesis score and fees are the request's; contracts that were reported work; what the cache takes for fresh is fresh, and no raw model gets out under DP, unless a kill between two writes is followed by a roll-back, or a forged download is not verified |

Two runs expect a violation; each checks a sentence of the source that the code
does not keep, quoted under `findings`:

* `round_silent`: aggregators that commit and withhold their reveals are said to
  remain slashable, but finalisation reverts without two of three reveals, and
  with it everything that leads to their slash.
* `artifact_two_roles`: `ensure_file_exists` is said to download a file again
  when its pinned CID changed, but the CID is stored under the bare file name,
  which the `requirements.txt` of three roles share; the second role on a machine
  installs its old file.

Seen while modelling, and kept by the models as the code has it:

* A blacklisted validator's partial slash reverts when it would escalate, because
  the jail refuses a blacklisted account (`DinValidatorStake`), while the staking
  documentation calls its funds slashable.
* One reveal of a batch's CID may finalise it when the others differ, though the
  field is described as set after a majority; and there is no Tier-2 batch when
  there are too few Tier-1 batches or aggregators.
* A wallet is checked for overwriting before the user types the secret, and
  replaced after it (`system.py`); another terminal may have written it meanwhile.
* Two attempts of `create-testdataset` leave the key of the second in the file:
  until the second has its receipt, the file may hold a K other than the one on the
  chain. And the file is truncated before it is written (`auditor_batches.py:60-64`):
  a second attempt that is killed there has lost the K of the first, which may be on
  the chain, and no dispute about it can be answered. `ReceiptMeansAnswerable` says
  that the file has the right K once an attempt has its receipt and until another
  begins, `NewestCommitmentHasKey` that nothing but another attempt loses a K.
* The owner's X25519 key is generated again when its file is missing
  (`auditor_batches.py:39-49`), which makes what was encrypted with the old one
  unreadable as soon as the new one is published. `reassign-test-data` may generate
  it too but does not write it to the manifest, and `create-testdataset`, which does,
  is refused once the flag is set: a batch that was reassigned so has no manifest its
  auditors could decrypt it with. `MembersCanDecrypt` excuses a lost key of the owner.
* `create-testdataset` writes the key into the cached `manifest.json` in place: a kill
  there leaves a truncated file beside a sidecar that still counts as fresh, and the
  owner's commands that read the manifest fail until the CID on chain changes.
* `evaluate` fetches the test data of a batch only when its `.pt` file is not there
  (`auditor.py:574`): an auditor that had decrypted a batch before it was reassigned
  evaluates with the old data.
* An auditor or aggregator that reads the manifest while it is updated gets some of its
  CIDs from the old one and some from the new. `StaleOnlyByOverlap` therefore speaks
  of the CIDs taken in one read.
* Without a usable `ipfs` binary, or with the `custom` provider, a download is not
  verified (`ipfs.py:154-164`; `tests/test_ipfs_retrieval.py:406-418` has it so): what
  the provider answered is kept under the CID that was asked for, and `get_manifest`
  and `ensure_file_exists` do not look at it again. The properties of the cache claim
  nothing then (`CanVouch`).
* `send-eth` reports a failure when the transport fails after the node took the
  transaction: repeating it sends twice. `DepositedOnce` is about `bridge-eth`,
  which handles this case.
* The worker installs packages without upgrading what an earlier requirements
  file installed.
* Two commands that overlap may leave the CID store newer than the file, and a
  kill between two writes followed by a roll-back may leave a file or a manifest
  vouched for by the CID of another. `StaleOnlyByOverlap` says that, where downloads
  are verified or honest, nothing else does: neither a kill nor a roll-back alone, nor
  a failed or refused download. For the manifest: `cache_manifest` replaces it and writes the sidecar afterwards
  (`utils.py:835-839`), and `get_manifest` compares the sidecar with the CID on chain
  (`utils.py:883`); a command killed between the two leaves the new manifest with the
  old CID, and when the owner then rolls back, which `update-manifest-request` and
  the registry allow, the withdrawn manifest counts as fresh.

### Bounds

Every bound is a constant whose comment starts with "bound". `MaxTime` 3 lets a
withdrawal of 2, a jail of 2 and a renewal overlap. GIs to 2 with windows of
both lengths let an entry age out; one escalation makes a ring stale, and two
slashers let it be stale because of the other. Three aggregators are a batch;
seven are two batches and one left over, or one batch, a Tier-2 batch and one left
over. Two CIDs make agreement, a split and silence possible. Two models and two
iterations of one of them let a late release overlap the next registration.
Amounts are scaled so that a partial slash, MIN_STAKE and a stake of more than
MIN_STAKE differ, and halves are odd. `Word` is larger than any deadline of a
run, so the `uint64` width does not wrap there; the proofs make no such
assumption.

`MaxPending` 1 or 2 transactions in the pool are enough for a late one to be mined
under a later command; of the owner two are, so that one can overtake what a
command has read. `MaxReanchors` 2 and `MaxMoves` 1 let a seed move between the
reading and the lock, and again. `MaxFailures`, `MaxSurprises` and `MaxKills` 1 or
2 let a failure hit every step, and the retry where there are two. `MaxCommands` 3
of two terminals are two that overlap and one that finds what they left. `Salts`
are one more than can be in use at a time in the run, so that a fresh one is
always there. Two `Keys` let two attempts at a batch differ, as many as the pool
holds; a third attempt waits until one of the two is out of use. Two `KeyPairs` are
a key and the one generated after it was lost. `OneBatch` and `TwoBatches` divide the
cases of the test data: with one batch every key may be lost and every manifest
published; with two, whose loop goes on over failures, no key is lost and the manifest
is only published with the owner's. `MaxBegun` 3 of the commands in turn are one that
fills the cache, one that is killed or misled and one that finds what it left. They do
not overlap in the run, because the properties of the cache are about commands that do
not; the proofs are about any `MaxRunning`. `ThePlan` has the client's one read of the
manifest, and of the auditor's reads one before each file and one that takes no CID;
the proofs are about any `Plan`. Where nothing verifies a download there is one failure
(`FewFailures`), since the properties claim nothing after a forged answer. In a
registration the fee starts at 1 with any surprise, or at 2, where the only surprise is
that it is lowered before a request is mined (`OnlyFees`).

Runs say `CHECK_DEADLOCK FALSE`: with time bounded, an iteration finished, or no
command running, nothing need be enabled.

### Fairness

`stake_accounts`: blocks are mined, and a validator whose withdrawal has matured
keeps claiming it. `gi_seeds`: blocks are mined, and somebody keeps calling the
permissionless lock, not always later than the window. `validator_terminals`: a
running command takes its next step, the wait for a receipt is bounded (web3's
timeout), blocks are mined (`ClientFairness`); runs of `Payments` go on, while the
chains and the user are free. `owner_commands`: owner and participants go on as
long as there is something to do, with finitely many failures; in a dispute time
passes, the owner's loop locks its seed, and somebody who may expire it again and
again does at some time (strong fairness, because a command begun by another may
disable it meanwhile). Nothing is asked of slashers, nor of the owner in a
dispute. `round_silent` assumes an owner that carries on whenever the contract
lets it; the counterexample is an iteration the contract does not let carry on.

## 5. What is proved

The proofs hold for every value of the constants that the `ASSUME`s allow; the
bounds are arbitrary naturals, so the bounds of the runs play no part. What is
assumed, beyond types (amounts and bounds are naturals):

* `ConstantsAssumption` (`ValidatorStake`): `Validators` is finite, and the global
  S5 window is 0 exactly when its threshold is. The setter of the two enforces the
  second for later values; `initialize` sets both.
* `RoundAssumption`: the shuffles are permutations, and this round's GI is one of
  the bound's. `LifecycleAssumption`: the seed delay is inside the window.
* `ClientAssumption`: the slots are finite. `DisputeAssumption`: batches and
  challengers are finite, bonds positive, the owner is no challenger.
* `TestDataAssumption`: a batch has a member, and a key other than a given one can
  be drawn. `RegistrationAssumption`: when an owner starts with contracts, there is
  room for a coordinator and its auditor.
* `CacheAssumption`: a manifest pins every file and asks for one of the three
  modes of privacy. `PlanAssumption`: a command reads a CID before it asks for the
  file, and reads it once.
* `OwnerAssumption`, `PaymentsAssumption`, `WorkstationAssumption`: types only.

Validators, batches and challengers are finite because sums range over them, and
there are finitely many accounts on a chain; the sets of models, terminals, names,
owners, roles and files need not be.

**Sums.** `SumTheorems` has what the proofs need of `SumFunctionOnSet`: that it
exists for a finite set, what it is for one more element, and how it changes with
the function in one place, or in all. The library defines it by recursion and its
induction rules take the property as an operator, which no installed prover
instantiates. Here the subsets for which a fact fails are a set of sets instead;
strict inclusion is well-founded on them, so there is a smallest, and removing one
element of it refutes it (`SmallestSet`).

**The stake contract.** `ValidatorStakeProofs` starts with the lemmas on one
account (what `SyncStatus`, `ApplySlash`, `Jail` and the ring operators preserve).
Its theorems:

* `TypeCorrect` (`TypeOK`), `StatusAgreesWithStake` (`StatusMatchesStake`),
  `DeadlineIsPending`, `JailCannotBeEscaped` (`JailHolds`).
* `JailTermsOnlyGrow`, `DeadlinesAreKept`, `EligibilityIsEarned`: action
  properties, from the same invariant.
* `NoPartialSlashCountsTwice`: `RingsCountOnce`, for every window and threshold.
* `BooksBalance` (`Solvent`): the contract's balance is the sum of the active and
  the pending stakes, and no DIN appears or vanishes.
* `OnlyRecentOffencesCount` (`RingsWithinWindow`), under `[][S5Steady]_vars`.

The inductive invariant is a conjunction per account: its type, the agreement of
status with stake, deadline with pending stake, and jail deadline with status
(the agreement of status and stake alone is not inductive: lifting a blacklist
restores a status from the jail deadline, and a slash must know that a deadline
is zero only when nothing is pending); plus, for the rings, that the visible part
of a ring is no longer than the history counter since the escalation it was
written in, and that no ring is from a later epoch than the validator's. The
balances of DIN are typed by themselves (`PoolsTyped`): no account depends on them.

`Solvent` is a sum over all accounts. Each call writes one of them, so it changes
one term of the sum, and by what it moves: `ApplySlash` takes from active and
pending stake together exactly what goes to the treasury or is burned.

`RingsWithinWindow` is about periods in which the S5 parameters keep their values
(`S5Steady`), as the comment of the property says: a ring is trimmed when it is
written, so it says nothing of a window that was shortened since. The run keeps
them fixed by its constants, the theorem by its hypothesis. The invariant
(`RingInv`) adds that a ring is in order and holds nothing later than the clock it
is written by (the slasher's GI, or the time), without which trimming the front
would not shorten its span, and that the global window is 0 only when the threshold
is, without which a disabled ring could be compared with a threshold.

**A round.** `AggregationRoundProofs` has the theorems on a round, for any set of
aggregators, any permutations the shuffles may give and any number of batches:

* `BatchesAreDisjoint` (`PartitionIsDisjoint`) and `FinalCIDWins`
  (`PluralityWins`).
* `TheFaultlessKeepTheirStake` (`OnlyFaultsAreSlashed`) and
  `RoundCostsAtMostMinStake` (`RoundLossBounded`).
* `JailHoldsInTheRound`, `JailTermsGrowInTheRound`, `DeadlinesAreKeptInTheRound`:
  what the stake contract promises of each of its calls also holds of
  `slashAggregators`, which makes many of them in one.
* `WeightsAddUp` (`WeightAddsUp`): the denominator of the settlement is the sum of
  the aggregators' weights, and three for each finalised batch.
* `BooksBalanceInTheRound`: `Solvent` again, through the loop of `slashAggregators`.

The invariant (`RoundInv`) adds two parts to that of the stake contract. The first
is arithmetic: a seat's place in the shuffle tells its tier, batch and seat, so the
partition gives each aggregator one seat. The second says that the votes for a CID
are its supporters: a reveal adds one of each to the author's only batch, and to
no other. Neither holds without the first: with a second seat, a reveal would give
a batch a supporter its votes do not count, and an aggregator could agree with one
batch and be slashed for another. The accounts are carried through by showing
that a step of the round is a step of the stake contract, or is
`slashAggregators`, which writes each account as some slash of that contract could.

A finalisation adds one to the weight of each seat of each batch it finalises, and
three per batch to the total. That these are the same number (`WeightInv`) is the
partition again, read as a sum over seats: each belongs to one aggregator.

**Iterations.** `GILifecycleProofs` has the theorems on several models' iterations:

* `LifecycleTypeCorrect`, `NobodyHasBothRoles`, `SeedStateCorrect`: the type
  invariant, `NoDualRole` and `SeedWaitsInItsState`.
* `IterationsOnlyAdvance`, `MembersSettledBeforeSeed`: the action properties.
* `CounterExact`, `LifecycleImplementsSlots`: the counter all models share is
  exact, and the lists, releases and counter implement `RegistrationSlots`.

The inductive invariant (`LifecycleInv`) is again a conjunction, per model, of
facts about that model's values (`ModelOK`), because a call touches one model:
a seed is anchored exactly in its state; from `GIstarted` on the index is at
least 1; before `LMSclosed` the audit seed is unset; lists of iterations to come
are empty, and there are no auditors before their registration opens (neither
property about the lists is inductive without these two); only an iteration that
is over is released; the two lists are disjoint. That the states are passed in
the order of the enum is proved from the enum itself. The counter is then proved
exact and the refinement at once (`SlotsExact`, `SlotsStep`): a release subtracts
all it should only if the saturating decrement never meets a zero, and that holds
only because the counter has been exact so far.

**Files that hold secrets.** `SecretFilesProofs` has `WorkstationConsistent`,
`SignsWithOneWallet` (`OneInvocationOneWallet`) and `KillsTearNoWallet`
(`TornOnlyByOverlap`), for any number of terminals, names and kills. The inductive
invariant (`WorkInv`) says of each command that its wallet file is open only while
it dumps, and that whatever it has signed is the one pair of account and network
it resolved. Of each name that was never written by two commands at a time it says
that it has at most one writer, that the temporary file is torn only until that
writer has dumped (or is gone), and that the wallet is whole. The last part is
what makes the rename safe: the file that is moved over the wallet is the writer's
own, and complete.

It also has `TestDataConsistent`, `ReceiptsCanBeRelied` (`ReceiptMeansAnswerable`),
`NewestCanBeAnswered` (`NewestCommitmentHasKey`) and `AuditorsCanDecrypt`
(`MembersCanDecrypt`), for any batches, members, keys and length of the pool. What is
on the chain was sent by a command that may be gone and has overtaken nothing, and the
file of K may since have been torn or rewritten. The invariant (`TestDataInv`) says of
every assignment in the pool and on the chain that it was encrypted with a key the
owner has or had, to keys the auditors have unless lost, and that the file has its K if
no other attempt was begun (`Kept`); of one in the pool also that its batch has not been
told yet (`TestTxOK`); of the owner's command that what it is about to send is what the
file holds (`SavedWhatItSends`), that a payload it has yet to save has a K nobody else
has sent (`YetToSave`), and that, while it waits, its own transaction is the last in the
pool, so that whatever else is in there is mined before the receipt; of the manifests
that they have no key but the owner's (`PublishedOK`); and of an auditor that its key
file is the registered one or was lost (`KeysOK`), since `register-encryption-key` uses
a file that exists again. That the file never has the K of an *earlier* attempt to
offer is not claimed: a later one may be killed in the write.

**The owner's side.** `OwnerSideProofs` has `OwnerConsistent` and
`NobodySlashedUnscored` (`NoSlashUnscored`). The property is about the state of
the chain, but the score was read long before, by a command that may be gone: the
invariant (`OwnerInv`) follows the slash from the command to the pool, where it
may stay after its receipt was given up, and says of every `slashAuditors` about
to be sent, or pending, that its iteration was scored or the owner was asked. What
was settled stays settled (`PoolKeeps`, `CommandKeeps`); `MovesTable` shows from
the table of the contracts that no other call leads into the states after the
slash.

It also has `DisputesConsistent` and `BondsAreCovered` (`BondsCovered`), for any
batches, challengers and bonds, and any number of commands that race. The balance is
two sums, the bonds of disputes that are not over (`BondsHeld`) and those that may be
claimed; a call changes one term of one of them and the balance, or moves a bond from
one to the other. The invariant (`DisputeInv`) says what makes that true of whichever
of settlement and expiry comes second: a dispute that is over was resolved, one that
was resolved has a challenger, one without a challenger has no bond.

**The validators' side.** `ValidatorSideProofs` has `ClientInvariance`,
`NeverStranded` (`CommitNeverStranded`), `RaceIsNoError` (`GivesUpOnlyUnsent`) and
the action property `RetriesKeepSalts` (`RetryKeepsSalt`), for any accounts,
machines shared in any way, any finite set of slots, and any number of commands,
kills and moves of a seed block. The invariant (`ClientInv`) has two parts. The
first follows a commitment: a committing command that is about to send has cached
its slot, and so has every commitment in the pool, where it may stay long after
its command is gone; what was committed when a command began still is, and the
command does not work on it, which is why a retry cannot replace a salt. The
second is about a command that locks a seed: its state has not been left unless
the seed is locked; the seed block it read is the current one or an earlier one;
and whenever its lock would be refused or revert, the seed is locked or its block
has moved since the command read it (`Overtaken`). Another command's successful
lock does one of the two (`LockMined`), and the command that looks again after its
receipt finds it. Both parts survive every step of the chain by one lemma
(`CommandStays`), which needs of the step only what `ChainMoves` says: nothing
committed, cached or locked is taken back, and anchors only grow.

It also has `PaymentsInvariance` and `OneDepositLands` (`DepositedOnce`),
for any number of terminals, runs and transactions and any nonces. The invariant
(`PayInv`) looks at the deposits that are alive, that is signed, pooled or landed:
there is one at most; a run of `bridge-eth` that has not signed finds none; and one
that no run waits for was told to the user as included or as unknown, and that
message is what keeps the user from a next run. A deposit whose broadcast failed
in the transport is told as unknown, never as rejected (`ClassifyTransport`, which
the property's mutant changes).

**Registration and cache.** `ModelFilesProofs` has `RegistrationConsistent`,
`IDsMatch` (`ApprovedIDsMatch`), `ScoresAreOfGenesis` (`ScoreIsOfGenesis`),
`FeesAddUp` (`FeesMatchRequests`) and `ReportsAreTrue` (`ReportedContractsWork`),
for any owners, contracts, requests and failures. An owner's command sends several
transactions and knows of the earlier ones only their receipts. The invariant
(`RegInv`) says of every transaction in the pool, and of every command between two
transactions, what the chain already holds for it: the contract it deployed, its
token, the genesis model a score was computed for, the models there were when the
representative compared the IDs. It survives the steps of the others because a
contract only moves forward (`ContractsGrow`): its kind and ID never change, a
pairing is final, and a genesis model that is set is not replaced.

It also has `CacheConsistent`, `OnlyOverlapsAreStale` (`StaleOnlyByOverlap`) and
`RawOnlyIfOff` (`NoRawUploadUnderDP`), for any roles, files, versions, providers,
commands and kills, and for any plan of reads and downloads. A sidecar, or a CID in a
store, vouches for content it was not written for when a command was killed between the
two writes; the invariant (`CacheInv`) says why that is found out as long as commands do
not overlap and no unverified answer was forged (`Undisturbed`). Without a kill at that
place, content and CID agree except inside the one command that is between its two
writes (`IfNotTorn`). Without a CID that comes back, whatever would count as fresh is so
(`IfNotReturned`): a sidecar that equals the CID on chain is that of the cached
manifest, and a stored or wanted CID that the manifest on chain pins is pinned by the
cached one and is that of the file (`Vouched`), because what a kill left behind is older
than the chain. The same must hold of the manifest that is about to replace the cached
one, since its sidecar is written after it. `Follows` says of the one command at work
what it has in common with the disk; `Knows` says, read by read and file by file, what
it has learned: the CIDs of each read are those of a manifest that was on chain during
the command (`HasRead`), and each file it asked for is the one it wanted (`HasGot`).
The second survives the reads and downloads after it because an own file is written by
nothing but a download of the CID that was read. Nothing in it depends on the order of
the versions: a manifest may be any that was not current.

Only model-checked: the liveness properties (`WithdrawalEnds`, `SeedGetsLocked`,
`IterationsEnd`, `SlotsGetReleased`, `UpheldDisputesEnd`, `CommandsEnd`,
`RunsEnd`). They rest on fairness, whose definition has ENABLED, which the prover
does not handle. Every other property of a passing run is a theorem. Of the runs
that expect a violation nothing is proved: their traces are the evidence.

## 6. Not modelled

* Inside `DINTaskAuditor`: the drawing of audit batches, medians, eligibility and
  `slashAuditors`; the split of deposits, settlement and the shares of a pool.
  `ValidatorClient`, `TestDataAssignment` and `OwnerClient` have the commands
  around them.
* `DinEmission`'s schedule, `DinToken`, `DinTreasury`, `DinCoordinator` beyond
  the slasher gateway, `DinFeeRouter` and the fair-launch distributor: ledgers of
  one contract each.
* Disabling models, proprietary models and the three fees that are copies of the
  one in `ModelRegistration`.
* Commands that only read and print; the password cache of a process; the task
  and log directories; uploads and the HTTP of the IPFS providers.
* The numerical code of the services (training, noise, scoring), the data set
  scripts, deployment and upgrade scripts, and the superseded `hardhat`
  contracts.

Left out of every module: gas, events, views, access control of owners (an
owner's call is an action), re-entrancy guards, and the arithmetic of 256-bit
amounts near their maximum. Signatures, hashes and encryption are taken to bind
what they are applied to. Reorganisations of a chain are not modelled: a receipt
is final.
