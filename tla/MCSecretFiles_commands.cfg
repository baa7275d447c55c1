\* Two terminals, every command, three in all, one killed; one batch or two that share an
\* auditor, with retries, missed receipts, a second transaction in the pool and lost keys.
SPECIFICATION FilesSpec
CONSTANTS
    t1 = t1  t2 = t2
    Terminals = {t1, t2}
    Names = {"default", "val"}
    Networks = {"local", "op"}
    Commands = {"sign", "init", "configure-network", "configure-demo", "configure-logging",
                "configure-ipfs", "register", "connect", "set-wallet", "connect-demo",
                "reconnect-demo", "reset-all"}
    MaxCommands = 3
    MaxKills = 1
    u1 = u1
    Batches = {0, 1}
    Auditors = {u1}
    Members <- OneAuditor
    Datasets = {1}
    Keys = {1, 2}
    KeyPairs = {1, 2}
    MaxPending = 2
    Disputed = {0}
CHECK_DEADLOCK FALSE
INVARIANTS OneInvocationOneWallet TornOnlyByOverlap ReceiptMeansAnswerable NewestCommitmentHasKey MembersCanDecrypt
