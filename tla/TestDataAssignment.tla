------------------------ MODULE TestDataAssignment ------------------------
(***************************************************************************)
(* How the model owner hands each auditor batch its encrypted test data,   *)
(* and how a dispute about it is answered: the owner's create-testdataset, *)
(* resolve-test-data, close-expired and reassign-test-data, the auditors'  *)
(* register-encryption-key, dispute-test-data and the decryption at the    *)
(* head of evaluate.                                                       *)
(*                                                                         *)
(* The contract keeps, per batch, the key K encrypted to each auditor and  *)
(* a commitment to K and to the plaintext.  K itself is in a file of the   *)
(* owner, which is the only answer to a dispute; it is written in place.   *)
(* An auditor opens its copy of K with its own key file and the owner's    *)
(* public key, which the manifest has once the owner published it.  The    *)
(* owner's transactions may be refused, not go out, or be mined after      *)
(* their receipt was given up; a command may be killed and run again; the  *)
(* key files may be lost (reset-all --config), the cache directory is not. *)
(***************************************************************************)
EXTENDS Integers, Sequences, FiniteSets, SequencesExt

CONSTANTS
    Batches,      \* batch identifiers, 0 .. n-1
    Auditors,
    Members,      \* the auditors of each batch
    Datasets,     \* bound: versions of the owner's test set
    Keys,         \* bound: values of K in use at a time
    KeyPairs,     \* bound: X25519 keys, of an auditor and of the owner
    MaxPending,   \* bound: the owner's transactions in the pool
    Disputed      \* bound: the batches an auditor may dispute

ASSUME TestDataAssumption ==
    /\ Batches \subseteq Nat
    /\ \A b \in Batches : Members[b] \subseteq Auditors /\ Members[b] # {}
    /\ Datasets \subseteq Nat \ {0} /\ Keys \subseteq Nat \ {0} /\ KeyPairs \subseteq Nat \ {0}
    /\ \A k \in KeyPairs \cup {0} : KeyPairs \ {k} # {}    \* another key can be drawn
    /\ MaxPending \in Nat \ {0}
    /\ Disputed \subseteq Batches

None == 0
Truncated == -1    \* what a write that was killed leaves in a file

VARIABLES
    GIstate,
    assigned,   \* per batch, on the chain: [k, data, pubs, by], or NoData
    dispute,    \* per batch: "none", "active", "expired", "pending"
    pool,       \* the owner's transactions, in nonce order
    encryptionKey,  \* per auditor, on DinValidatorStake
    keyFile,    \* per auditor: its X25519 key file
    keyLost,    \* per auditor: its key file was lost after a registration
    testSet,    \* version of the owner's test_dataset.pt
    ownerKey,   \* the owner's X25519 key file, and the keys that were lost
    manifest,   \* owner_encryption_pubkey: of the manifest on chain, of the owner's cached
                \* one, and whether the CID cached with it is the one on chain
    secret,     \* per batch: the owner's file with K and the plaintext's hash
    plaintext,  \* per auditor and batch: the decrypted .pt file
    owner,      \* the owner's running command
    told,       \* per batch: did the last attempt end with a receipt
    newest      \* per batch: the K of the last attempt

onChain == <<GIstate, assigned, dispute>>
auditorFiles == <<encryptionKey, keyFile, keyLost, plaintext>>
published == <<ownerKey, manifest>>
ghosts == <<told, newest>>
vars == <<GIstate, assigned, dispute, pool, encryptionKey, keyFile, keyLost,
          testSet, ownerKey, manifest, secret, plaintext, owner, told, newest>>

NoData == [k |-> None, data |-> None, pubs |-> <<>>, by |-> None]
Idle == [name |-> "none", step |-> "idle", todo |-> {}, failed |-> {}]

TestDataInit ==
    /\ GIstate = "AuditorsBatchesCreated"
    /\ assigned = [b \in Batches |-> NoData]
    /\ dispute = [b \in Batches |-> "none"]
    /\ pool = <<>>
    /\ encryptionKey = [a \in Auditors |-> None]
    /\ keyFile = [a \in Auditors |-> None]
    /\ keyLost = [a \in Auditors |-> FALSE]
    /\ testSet \in Datasets
    /\ ownerKey = [file |-> None, lost |-> {}]
    /\ manifest = [chain |-> None, local |-> None, current |-> TRUE]
    /\ secret = [b \in Batches |-> [k |-> None, data |-> None]]
    /\ plaintext = [a \in Auditors |-> [b \in Batches |-> None]]
    /\ owner = Idle
    /\ told = [b \in Batches |-> FALSE]
    /\ newest = [b \in Batches |-> None]

(***************************************************************************)
(* The contracts.                                                          *)
(***************************************************************************)
Accepted(tx) ==
    CASE tx.fn = "assign" -> dispute[tx.batch] # "pending"
      [] tx.fn = "reassign" -> dispute[tx.batch] = "pending"
      [] tx.fn = "resolve" -> dispute[tx.batch] = "active"
      [] tx.fn = "flag" -> /\ GIstate = "AuditorsBatchesCreated"
                           /\ \A b \in Batches : assigned[b] # NoData

\* setTestDataAssignedFlag is sent for all batches: its batch is of no use.
FlagTx == [fn |-> "flag", batch |-> 0, load |-> NoData]

Execute(tx) ==
    /\ assigned' = IF tx.fn \in {"assign", "reassign"}
                   THEN [assigned EXCEPT ![tx.batch] = tx.load] ELSE assigned
    /\ dispute' =
         CASE tx.fn = "reassign" -> [dispute EXCEPT ![tx.batch] = "none"]
           [] tx.fn = "resolve" ->
                [dispute EXCEPT ![tx.batch] =
                   IF /\ tx.load.k = assigned[tx.batch].k
                      /\ tx.load.data = assigned[tx.batch].data
                   THEN "none" ELSE "pending"]
           [] OTHER -> dispute
    /\ GIstate' = IF tx.fn = "flag" THEN "AuditTestDataAssigned" ELSE GIstate

(***************************************************************************)
(* The owner's loop over the batches, as it learns what became of each     *)
(* transaction.                                                            *)
(***************************************************************************)
BatchOf == Min(owner.todo)

\* tx_receipt is None: the batch is listed as failed, and the loop goes on.
OnReceipt(got) ==
    /\ told' = IF owner.todo # {} THEN [told EXCEPT ![BatchOf] = got] ELSE told
    /\ owner' =
         CASE owner.name = "create" /\ owner.todo # {} ->
                [name |-> "create", step |-> "encrypt", todo |-> owner.todo \ {BatchOf},
                 failed |-> IF got THEN owner.failed ELSE owner.failed \cup {BatchOf}]
           [] OTHER -> Idle

\* The owner's next transaction is mined.
MineTx ==
    /\ pool # <<>>
    /\ pool' = Tail(pool)
    /\ LET tx == Head(pool)
       IN  /\ IF Accepted(tx) THEN Execute(tx) ELSE UNCHANGED onChain
           /\ IF owner.step = "wait" /\ Len(pool) = 1 THEN OnReceipt(Accepted(tx))
              ELSE UNCHANGED <<owner, told>>
    /\ UNCHANGED <<auditorFiles, testSet, published, secret, newest>>

\* build_and_send_tx: sent, refused by the estimate, or not accepted.
SendTx(tx) ==
    /\ \/ /\ Accepted(tx) /\ Len(pool) < MaxPending
          /\ pool' = Append(pool, tx)
          /\ owner' = [owner EXCEPT !.step = "wait"]
          /\ UNCHANGED told
       \/ OnReceipt(FALSE) /\ UNCHANGED pool
    /\ UNCHANGED <<onChain, auditorFiles, testSet, published, secret, newest>>

ReceiptTimesOut ==
    /\ owner.step = "wait"
    /\ OnReceipt(FALSE)
    /\ UNCHANGED <<onChain, pool, auditorFiles, testSet, published, secret, newest>>

OwnerKilled ==
    /\ owner # Idle
    /\ owner' = Idle
    /\ UNCHANGED <<onChain, pool, auditorFiles, testSet, published, secret, ghosts>>

(***************************************************************************)
(* Building the payload of a batch.                                        *)
(***************************************************************************)
AuditorsMissingEncryptionKey(b) == {a \in Members[b] : encryptionKey[a] = None}

\* On the chain, or on the way to it.
KeysInUse(b) ==
    {assigned[b].k}
    \cup {tx.load.k : tx \in {t \in ToSet(pool) : t.batch = b}}

\* The service draws a fresh K each time, and the same samples of the test
\* set for a batch; K is encrypted with the owner's key to the keys the auditors
\* have now.
EncryptBatchTestData(b) ==
    [k |-> CHOOSE x \in Keys \ KeysInUse(b) : TRUE, data |-> testSet,
     pubs |-> [a \in Members[b] |-> encryptionKey[a]], by |-> ownerKey.file]

\* A key is generated when there is no file (_load_owner_x25519_key).
LoadOwnerKey ==
    IF ownerKey.file # None THEN ownerKey.file ELSE CHOOSE x \in KeyPairs \ ownerKey.lost : TRUE
CanLoadOwnerKey == ownerKey.file # None \/ KeyPairs \ ownerKey.lost # {}

\* get_manifest: the cached file while the CID kept with it is the one on chain.
Cached == IF manifest.current THEN manifest.local ELSE manifest.chain
CachesManifest(key) == manifest' = [manifest EXCEPT !.local = key, !.current = TRUE]

(***************************************************************************)
(* create-testdataset --submit [--batch ..].                               *)
(***************************************************************************)

\* The owner's public key is put into the cached manifest, in place, before the
\* auditors' keys are looked at; the command may end there.
CreateTestDataset ==
    /\ owner = Idle
    /\ GIstate = "AuditorsBatchesCreated"
    /\ Cached # Truncated /\ CanLoadOwnerKey
    /\ ownerKey' = [ownerKey EXCEPT !.file = LoadOwnerKey]
    /\ \/ /\ CachesManifest(LoadOwnerKey)
          /\ owner' \in {Idle} \cup
               {[name |-> "create", step |-> "encrypt", todo |-> S, failed |-> {}] :
                  S \in {T \in (SUBSET Batches) \ {{}} :
                            \A b \in T : AuditorsMissingEncryptionKey(b) = {}}}
       \/ /\ Cached # LoadOwnerKey    \* killed in the write
          /\ CachesManifest(Truncated)
          /\ UNCHANGED owner
    /\ UNCHANGED <<onChain, pool, auditorFiles, testSet, secret, ghosts>>

\* The payload is built; the same in reassign-test-data.
PrepareBatch(name, fn) ==
    /\ owner.name = name /\ owner.step = "encrypt" /\ owner.todo # {}
    /\ Keys \ KeysInUse(BatchOf) # {}
    /\ LET load == EncryptBatchTestData(BatchOf)
       IN  /\ owner' = [name |-> name, step |-> "save", todo |-> owner.todo,
                        failed |-> owner.failed,
                        tx |-> [fn |-> fn, batch |-> BatchOf, load |-> load]]
           /\ newest' = [newest EXCEPT ![BatchOf] = load.k]
    /\ told' = [told EXCEPT ![BatchOf] = FALSE]
    /\ UNCHANGED <<onChain, pool, auditorFiles, testSet, published, secret>>

AssignBatch == PrepareBatch("create", "assign")

SecretOf(load) == [k |-> load.k, data |-> load.data]

\* Mutant: an existing file is kept.
KeepTestDataSecret(load) ==
    /\ secret' = IF secret[BatchOf].k # None THEN secret
                 ELSE [secret EXCEPT ![BatchOf] = SecretOf(load)]
    /\ owner' = [owner EXCEPT !.step = "send"]

\* Mutant: nothing is saved before the transaction.
SaveNoTestDataSecret(load) ==
    UNCHANGED secret /\ owner' = [owner EXCEPT !.step = "send"]

\* The file is truncated and written: whatever K it had is gone when the write
\* is killed or fails.
SaveTestDataSecret(load) ==
    \/ /\ secret' = [secret EXCEPT ![BatchOf] = SecretOf(load)]
       /\ owner' = [owner EXCEPT !.step = "send"]
    \/ /\ secret' = [secret EXCEPT ![BatchOf] = [k |-> Truncated, data |-> None]]
       /\ owner' = Idle

SavePrepared ==
    /\ owner.step = "save" /\ SaveTestDataSecret(owner.tx.load)
    /\ UNCHANGED <<onChain, pool, auditorFiles, testSet, published, ghosts>>

SendPrepared == owner.step = "send" /\ SendTx(owner.tx)

\* All batches sent: Exit 1 when one failed, else the flag, after a dry run.
SetTestDataAssignedFlag ==
    /\ owner.name = "create" /\ owner.step = "encrypt" /\ owner.todo = {}
    /\ IF owner.failed # {} \/ ~Accepted(FlagTx)
       THEN owner' = Idle
       ELSE owner' = [name |-> "flag", step |-> "send", todo |-> {},
                      failed |-> {}, tx |-> FlagTx]
    /\ UNCHANGED <<onChain, pool, auditorFiles, testSet, published, secret, ghosts>>

\* The owner uploads a manifest and has the registry point to it: the cached one
\* with its key, or one of the task directory without it.
PublishManifest ==
    /\ \E key \in {None, manifest.local} \ {Truncated} :
          manifest' = [manifest EXCEPT !.chain = key, !.current = FALSE]
    /\ UNCHANGED <<onChain, pool, auditorFiles, testSet, ownerKey, secret, owner, ghosts>>

\* reset-all --config, or another machine.
LoseOwnerKey ==
    /\ owner = Idle /\ ownerKey.file # None
    /\ ownerKey' = [file |-> None, lost |-> ownerKey.lost \cup {ownerKey.file}]
    /\ UNCHANGED <<onChain, pool, auditorFiles, testSet, manifest, secret, owner, ghosts>>

(***************************************************************************)
(* Disputes.                                                               *)
(***************************************************************************)
\* Its checks mirror the contract's, so a race between two auditors of a
\* batch only reverts the second.
DisputeTestData(a, b) ==
    /\ b \in Disputed /\ a \in Members[b]
    /\ assigned[b] # NoData
    /\ dispute[b] = "none"
    /\ dispute' = [dispute EXCEPT ![b] = "active"]
    /\ UNCHANGED <<GIstate, assigned, pool, auditorFiles, testSet, published, secret,
                   owner, ghosts>>

\* The blocks of the answer window go by.
WindowPasses(b) ==
    /\ dispute[b] = "active"
    /\ dispute' = [dispute EXCEPT ![b] = "expired"]
    /\ UNCHANGED <<GIstate, assigned, pool, auditorFiles, testSet, published, secret,
                   owner, ghosts>>

\* The owner answers from its file; without a whole one there is nothing to send.
ResolveTestData(b) ==
    /\ owner = Idle
    /\ Cached # Truncated /\ CachesManifest(Cached)
    /\ dispute[b] = "active"
    /\ secret[b].k \notin {None, Truncated}
    /\ owner' = [name |-> "resolve", step |-> "send", todo |-> {}, failed |-> {},
                 tx |-> [fn |-> "resolve", batch |-> b,
                         load |-> [NoData EXCEPT !.k = secret[b].k,
                                                 !.data = secret[b].data]]]
    /\ UNCHANGED <<onChain, pool, auditorFiles, testSet, ownerKey, secret, ghosts>>

\* Permissionless; the silence upholds the dispute.
CloseExpired(b) ==
    /\ dispute[b] = "expired"
    /\ dispute' = [dispute EXCEPT ![b] = "pending"]
    /\ UNCHANGED <<GIstate, assigned, pool, auditorFiles, testSet, published, secret,
                   owner, ghosts>>

\* The owner's key is loaded, or generated, but no manifest written.
ReassignTestData(b) ==
    /\ owner = Idle
    /\ Cached # Truncated /\ CachesManifest(Cached)
    /\ dispute[b] = "pending"
    /\ AuditorsMissingEncryptionKey(b) = {}
    /\ CanLoadOwnerKey /\ ownerKey' = [ownerKey EXCEPT !.file = LoadOwnerKey]
    /\ owner' = [name |-> "reassign", step |-> "encrypt", todo |-> {b}, failed |-> {}]
    /\ UNCHANGED <<onChain, pool, auditorFiles, testSet, secret, ghosts>>

ReassignBatch == PrepareBatch("reassign", "reassign")

(***************************************************************************)
(* The auditors.                                                           *)
(***************************************************************************)
FreshKeyFile(a) == CHOOSE x \in KeyPairs : x # keyFile[a] /\ x # encryptionKey[a]

\* Mutant: a key is generated on every call.
AlwaysGenerates(a) == CHOOSE x \in KeyPairs : x # keyFile[a]

\* The file that exists is used again.
KeyToRegister(a) == IF keyFile[a] # None THEN keyFile[a] ELSE FreshKeyFile(a)

\* The key file is written first; the transaction may not get through.
RegisterEncryptionKey(a) ==
    LET key == KeyToRegister(a)
    IN  /\ keyFile' = [keyFile EXCEPT ![a] = key]
        /\ encryptionKey' \in {encryptionKey, [encryptionKey EXCEPT ![a] = key]}
        /\ UNCHANGED <<onChain, pool, keyLost, testSet, published, secret, plaintext,
                       owner, ghosts>>

\* The auditor's disk is lost, or it works from another machine.
LoseKeyFile(a) ==
    /\ encryptionKey[a] # None /\ ~keyLost[a]
    /\ keyFile' = [keyFile EXCEPT ![a] = None]
    /\ keyLost' = [keyLost EXCEPT ![a] = TRUE]
    /\ UNCHANGED <<onChain, pool, encryptionKey, testSet, published, secret, plaintext,
                   owner, ghosts>>

\* Box(auditor_privkey, owner_pubkey).decrypt: the auditor's machine has the
\* manifest that is on chain.
CanDecrypt(a, b) ==
    /\ keyFile[a] # None /\ assigned[b].pubs[a] = keyFile[a]
    /\ manifest.chain # None /\ assigned[b].by = manifest.chain

\* evaluate decrypts K, and fetches the data once.
DecryptTestData(a, b) ==
    /\ GIstate = "LMSevaluationStarted"
    /\ a \in Members[b]
    /\ CanDecrypt(a, b)
    /\ plaintext[a][b] = None
    /\ plaintext' = [plaintext EXCEPT ![a][b] = assigned[b].data]
    /\ UNCHANGED <<onChain, pool, encryptionKey, keyFile, keyLost, testSet, published, secret,
                   owner, ghosts>>

\* lms-evaluation start.
StartEvaluation ==
    /\ GIstate = "AuditTestDataAssigned"
    /\ GIstate' = "LMSevaluationStarted"
    /\ UNCHANGED <<assigned, dispute, pool, auditorFiles, testSet, published, secret, owner, ghosts>>

\* The owner puts another test set in the place of the first.
ReplaceTestSet ==
    /\ owner = Idle
    /\ testSet' \in Datasets \ {testSet}
    /\ testSet' > testSet
    /\ UNCHANGED <<onChain, pool, auditorFiles, published, secret, owner, ghosts>>

TestDataNext ==
    \/ MineTx \/ SendPrepared \/ ReceiptTimesOut \/ OwnerKilled
    \/ CreateTestDataset \/ AssignBatch \/ SetTestDataAssignedFlag \/ ReassignBatch
    \/ SavePrepared \/ PublishManifest \/ LoseOwnerKey
    \/ StartEvaluation \/ ReplaceTestSet
    \/ \E b \in Batches : \/ WindowPasses(b) \/ ResolveTestData(b) \/ CloseExpired(b)
                          \/ ReassignTestData(b)
                          \/ \E a \in Auditors : DisputeTestData(a, b) \/ DecryptTestData(a, b)
    \/ \E a \in Auditors : RegisterEncryptionKey(a) \/ LoseKeyFile(a)

TestDataSpec == TestDataInit /\ [][TestDataNext]_vars

(***************************************************************************)
(* Properties.                                                             *)
(***************************************************************************)
Answers(b) == secret[b].k = assigned[b].k /\ secret[b].data = assigned[b].data

\* After an attempt that ended with its receipt, the owner's file answers a
\* dispute, whatever earlier attempts were given up and mined late: the
\* nonces put them before it (create_testdataset, reassign_test_data).
ReceiptMeansAnswerable == \A b \in Batches : told[b] => Answers(b)

\* The K of a batch is lost only by another attempt: the commitment of the newest
\* attempt, if it is mined at all, can be answered, though its command was killed or
\* gave up the receipt, and whatever earlier attempt tore or left the file
\* (_save_testdata_secret before the transaction).
NewestCommitmentHasKey ==
    \A b \in Batches : assigned[b] # NoData /\ assigned[b].k = newest[b] => Answers(b)

\* Only a lost key file, the auditor's or the owner's, or a manifest without the
\* owner's key keeps an auditor of the batch from its data, however often
\* register-encryption-key, create-testdataset and reassign-test-data are run.
MembersCanDecrypt ==
    \A b \in Batches : assigned[b] # NoData =>
      \A a \in Members[b] :
        \/ keyLost[a] \/ {assigned[b].by, manifest.chain} \cap ownerKey.lost # {}
        \/ manifest.chain = None
        \/ CanDecrypt(a, b)
=============================================================================
