---------------------------- MODULE MCModelFiles ----------------------------
(***************************************************************************)
(* A model from its registration (ModelRegistration.tla) to the files a    *)
(* machine caches of it (ArtifactCache.tla): here a machine that is a      *)
(* client and an auditor of one model.  As in the manifest of              *)
(* cache_model_0, both roles pin the same requirements.  The two modules   *)
(* share no state; a behaviour is one of them, the other is still.         *)
(***************************************************************************)
EXTENDS ModelRegistration, ArtifactCache

CONSTANTS o1, o2, rep

VARIABLE part   \* the part that this behaviour is about

Req == [client |-> "clients/requirements.txt", auditor |-> "auditors/requirements.txt"]

TheFiles == {"model.py", Req.client, Req.auditor}

TheKeys == [f \in TheFiles |-> IF f = "model.py" THEN <<"model_0", f>>
                               ELSE <<"requirements", "requirements.txt">>]

\* The client reads the manifest once; the auditor reads the CID of model.py, and
\* then the manifest again, before it asks for the file.
ThePlan == [
    client |-> <<Read({"model.py", Req.client}), Get("model.py"), Get(Req.client), Install>>,
    auditor |-> <<Read({Req.auditor}), Get(Req.auditor), Install, Read({"model.py"}), Read({}),
                  Get("model.py")>>]

ThePins == [v \in {1, 2} |-> [f \in TheFiles |->
    IF f = "model.py" THEN <<"model1", "model2">>[v]
    ELSE <<"requirements1", "requirements2">>[v]]]

OffThenGaussian == [v \in {1, 2} |-> IF v = 1 THEN "off" ELSE "gaussian"]

\* Bounds.  A fee of 2, which may be lowered, and nothing else that surprises; or a fee
\* of 1 and any surprise.
ModelInit ==
    /\ part \in {"registration", "fees", "artifacts"}
    /\ RegistrationInit /\ CacheInit
    /\ fee = IF part = "fees" THEN 2 ELSE 1
    /\ part # "artifacts" => provider = "env" /\ binary
    /\ provider = "custom" => binary

\* Of what counts as a surprise only set-open-source-fee begins a command.
OnlyFees == surprises' = surprises \/ (command[Rep] = Idle /\ command'[Rep] # Idle)

\* Bound.  Where no download is verified, one failure: a forged answer, a kill or another.
FewFailures == Verifies \/ failures' <= 1

ModelNext ==
    /\ \/ part = "registration" /\ RegistrationNext /\ UNCHANGED cacheVars
       \/ part = "fees" /\ RegistrationNext /\ OnlyFees /\ UNCHANGED cacheVars
       \/ part = "artifacts" /\ CacheNext /\ FewFailures /\ UNCHANGED vars
    /\ UNCHANGED part

ModelSpec == ModelInit /\ [][ModelNext]_<<part, vars, cacheVars>>

\* The artifacts alone.
ArtifactsSpec == ModelSpec /\ part = "artifacts"
=============================================================================
