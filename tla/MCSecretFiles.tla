--------------------------- MODULE MCSecretFiles ----------------------------
(***************************************************************************)
(* The secrets dincli keeps in files: the wallets (Workstation.tla), and   *)
(* the keys of the test data with the auditors' key files                  *)
(* (TestDataAssignment.tla).  The two share no state; a behaviour is one   *)
(* of them, the other is still.                                            *)
(***************************************************************************)
EXTENDS Workstation, TestDataAssignment

CONSTANTS t1, t2, u1

VARIABLE part   \* the part that this behaviour is about

OneAuditor == 0 :> {u1} @@ 1 :> {u1}

FilesInit == part \in {"wallets", "one batch", "two batches"} /\ WorkInit /\ TestDataInit

\* Bounds.  One batch is assigned, with every loss of a key and every manifest; or
\* two are, with no key lost and the manifest published once, with the owner's key.
OneBatch == owner'.todo \subseteq {0}
TwoBatches ==
    /\ UNCHANGED keyLost /\ ownerKey'.lost = {}
    /\ manifest'.local # Truncated /\ manifest'.chain \in {manifest.chain, ownerKey.file}

FilesNext ==
    /\ \/ part = "wallets" /\ WorkNext /\ UNCHANGED vars
       \/ part = "one batch" /\ TestDataNext /\ OneBatch /\ UNCHANGED workVars
       \/ part = "two batches" /\ TestDataNext /\ TwoBatches /\ UNCHANGED workVars
    /\ UNCHANGED part

FilesSpec == FilesInit /\ [][FilesNext]_<<part, workVars, vars>>
=============================================================================
