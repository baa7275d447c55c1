--------------------------- MODULE ModelFilesProofs ---------------------------
(***************************************************************************)
(* Theorems of ModelRegistration.tla, for any number of owners, contracts, *)
(* requests and failures, and of ArtifactCache.tla, for any roles, files,  *)
(* manifests, commands and failures.                                       *)
(*                                                                         *)
(* A transaction may be mined long after the command that sent it has gone *)
(* away.  The first invariant, RegInv, says of every transaction in the    *)
(* pool, and of every command between two transactions, what the chain     *)
(* already holds for it; the contracts only move forward, so that it goes  *)
(* on holding.  The second, CacheInv, says what the CIDs that are kept     *)
(* next to the cached files still vouch for when a command has been killed *)
(* between the two writes.                                                 *)
(***************************************************************************)
EXTENDS ModelRegistration, ArtifactCache, SumTheorems, SequenceTheorems

Kinds == {"coordinator", "auditor"}
Genesis == CIDs \cup {"none", "cid1"}
ContractType == [kind : Kinds, modelId : Nat, token : BOOLEAN, auditor : Nat, stage : 0..4,
                 genesis : Genesis, scored : Genesis]
RequestType == [owner : Owners, coord : Nat, aud : Nat, paid : Nat,
                status : {"pending", "approved", "rejected"}]
ModelType == [request : Nat, excused : BOOLEAN, forced : BOOLEAN]
EnvType == [coord : Nat, aud : [1..MaxContracts -> Nat]]

Deployed(o) == 1..Len(contracts[o])

ScoreOK(c) == IF c.stage = 4 THEN c.scored \in {"none", c.genesis} ELSE c.scored = "none"

ContractsOK ==
    /\ contracts \in [Owners -> Seq(ContractType)]
    /\ \A o \in Owners : /\ Len(contracts[o]) <= MaxContracts
                         /\ \A c \in Deployed(o) : ScoreOK(contracts[o][c])

RequestsOK ==
    /\ requests \in Seq(RequestType)
    /\ \A n \in 1..Len(requests) :
          {requests[n].coord, requests[n].aud} \subseteq Deployed(requests[n].owner)

ModelsOK ==
    /\ models \in Seq(ModelType)
    /\ \A m \in 1..Len(models) : models[m].request \in 1..Len(requests)

FeesOK == fee \in Nat /\ collected \in Nat /\ swept \in Nat

EnvOK ==
    /\ env \in [Owners -> EnvType]
    /\ \A o \in Owners : /\ env[o].coord \in 0..Len(contracts[o])
                         /\ \A c \in 1..MaxContracts : env[o].aud[c] \in 0..Len(contracts[o])

\* A coordinator that has the genesis model that a score is about.
Holds(o, c, cid) == contracts[o][c].stage = 4 /\ contracts[o][c].genesis = cid

Matches(n) == \A c \in {requests[n].coord, requests[n].aud} :
                 contracts[requests[n].owner][c].modelId = Len(models)

Slashings == {"setDINTaskCoordinatorAsSlasher", "setDINTaskAuditorAsSlasher"}
Submissions == {"setGenesisModelIpfsHash", "setTier2Score"}

RequestTx(o, tx) == tx \in [fn : {"requestModelRegistration"}, value : Nat,
                            coord : Deployed(o), aud : Deployed(o)]

OwnerTx(o, tx) ==
    \/ tx \in [fn : {"deploy"}, kind : Kinds, id : Nat]
    \/ tx \in [fn : {"setDinToken"} \cup Slashings, at : Deployed(o)]
    \/ tx \in [fn : {"setDINTaskAuditorContract"}, at : Deployed(o), aud : Deployed(o)]
    \/ /\ tx \in [fn : Submissions, at : Deployed(o), cid : CIDs]
       /\ tx.fn = "setTier2Score" => Holds(o, tx.at, tx.cid)
    \/ RequestTx(o, tx)

ApproveTx(tx) ==
    /\ tx \in [fn : {"approveModel"}, request : 1..Len(requests), forced : BOOLEAN, excused : BOOLEAN]
    /\ tx.excused \/ Matches(tx.request)

RepTx(tx) ==
    \/ tx \in [fn : {"addSlasherContract"}, contract : Owners \X Nat]
    \/ ApproveTx(tx)
    \/ tx \in [fn : {"rejectModel"}, request : 1..Len(requests)]
    \/ tx \in [fn : {"setOpenSourceFee"}, value : Nat]
    \/ tx \in [fn : {"sweepFeesToRouter"}]

PoolOK == \A a \in Accounts : pool[a] # NoTx =>
             IF a = Rep THEN RepTx(pool[a]) ELSE OwnerTx(a, pool[a])

DeployTodo(kind) ==
    IF kind = "coordinator"
    THEN {<<"deploy", "setDinToken">>, <<"setDinToken">>}
    ELSE {<<"deploy", "setDinToken", "setDINTaskAuditorContract">>,
          <<"setDinToken", "setDINTaskAuditorContract">>, <<"setDINTaskAuditorContract">>}

\* Once its contract is deployed, a command knows it; the last step of an auditor's
\* deployment comes after the token.
DeployCommand(o, c) ==
    /\ c \in [name : {"deploy"}, kind : Kinds, id : Nat, coord : Nat, new : Nat,
              todo : DeployTodo("coordinator") \cup DeployTodo("auditor"), sent : BOOLEAN]
    /\ c.todo \in DeployTodo(c.kind)
    /\ c.kind = "auditor" => c.coord \in Deployed(o)
    /\ c.todo[1] # "deploy" =>
          /\ c.new \in Deployed(o) /\ contracts[o][c.new].kind = c.kind
          /\ c.todo[1] = "setDINTaskAuditorContract" => contracts[o][c.new].token

SlasherCommand(o, c) ==
    c \in [name : {"slasher"}, todo : {<<fn>> : fn \in Slashings}, coord : Deployed(o), sent : BOOLEAN]

SubmitCommand(o, c) ==
    /\ c \in [name : {"submit"}, coord : Deployed(o), cid : CIDs, sent : BOOLEAN,
              todo : {<<"setGenesisModelIpfsHash", "setTier2Score">>, <<"setTier2Score">>}]
    /\ c.todo[1] = "setTier2Score" => Holds(o, c.coord, c.cid)

RequestCommand(o, c) ==
    /\ c.name = "request" /\ c.sent \in BOOLEAN
    /\ c = [name |-> "request", todo |-> <<"requestModelRegistration">>, tx |-> c.tx, sent |-> c.sent]
    /\ RequestTx(o, c.tx)

RepCommandOK(c) ==
    /\ c.sent \in BOOLEAN
    /\ c = [name |-> c.tx.fn, todo |-> <<c.tx.fn>>, tx |-> c.tx, sent |-> c.sent]
    /\ RepTx(c.tx)
    /\ c.tx.fn = "approveModel" /\ ~c.tx.excused /\ ~c.sent => pool[Rep] = NoTx

OwnerCommandOK(o, c) ==
    \/ DeployCommand(o, c) \/ SlasherCommand(o, c) \/ SubmitCommand(o, c) \/ RequestCommand(o, c)

CommandOK(a) ==
    command[a] # Idle =>
        /\ IF a = Rep THEN RepCommandOK(command[a]) ELSE OwnerCommandOK(a, command[a])
        /\ command[a].sent => pool[a] = TxOf(a)

CommandsOK == \A a \in Accounts : CommandOK(a)

Works(w) ==
    /\ w \in Owners \X Nat /\ w[2] \in Deployed(w[1])
    /\ contracts[w[1]][w[2]].token
    /\ contracts[w[1]][w[2]].kind = "auditor" =>
          \E c \in Deployed(w[1]) : /\ contracts[w[1]][c].stage > 0
                                    /\ contracts[w[1]][c].auditor = w[2]

ReportedOK == \A w \in reported : Works(w)

-----------------------------------------------------------------------------
(* The contracts move forward. *)

Later(c, d) ==
    /\ d.kind = c.kind /\ d.modelId = c.modelId
    /\ c.token => d.token
    /\ c.stage = 4 => d.stage = 4 /\ d.genesis = c.genesis
    /\ c.stage > 0 => d.stage > 0 /\ d.auditor = c.auditor

ContractsGrow ==
    \A o \in Owners : /\ Len(contracts[o]) <= Len(contracts'[o])
                      /\ \A c \in Deployed(o) : Later(contracts[o][c], contracts'[o][c])

RequestsGrow ==
    /\ Len(requests) <= Len(requests')
    /\ \A n \in 1..Len(requests) :
          /\ requests'[n].owner = requests[n].owner
          /\ requests'[n].coord = requests[n].coord
          /\ requests'[n].aud = requests[n].aud

LEMMA LaterSame == ASSUME NEW c PROVE Later(c, c)
  BY DEF Later

LEMMA SomeContract ==
    ASSUME ContractsOK, NEW o \in Owners
    PROVE  /\ contracts[o] \in Seq(ContractType) /\ Len(contracts[o]) \in Nat
           /\ Len(contracts[o]) <= MaxContracts
           /\ \A c \in Deployed(o) : contracts[o][c] \in ContractType /\ c \in Nat
  BY RegistrationAssumption DEF ContractsOK, Deployed, RegistrationAssumption

LEMMA ContractsStay ==
    ASSUME ContractsOK, UNCHANGED contracts
    PROVE  ContractsOK' /\ ContractsGrow
<1>1. ContractsOK'
  BY DEF ContractsOK, Deployed
<1>2. \A o \in Owners : Len(contracts[o]) <= Len(contracts'[o])
  BY SomeContract
<1> QED
  BY <1>1, <1>2, LaterSame DEF ContractsGrow

LEMMA ContractAppended ==
    ASSUME ContractsOK, NEW a \in Owners, NEW k \in ContractType, ScoreOK(k),
           Len(contracts[a]) < MaxContracts,
           contracts' = [contracts EXCEPT ![a] = Append(contracts[a], k)]
    PROVE  /\ ContractsOK' /\ ContractsGrow
           /\ Len(contracts'[a]) = Len(contracts[a]) + 1
           /\ contracts'[a][Len(contracts[a]) + 1] = k
<1>1. PICK s : s = Append(contracts[a], k)
  OBVIOUS
<1>2. /\ contracts[a] \in Seq(ContractType) /\ Len(contracts[a]) \in Nat
      /\ MaxContracts \in Nat
  BY SomeContract, RegistrationAssumption DEF RegistrationAssumption
<1>3. /\ s \in Seq(ContractType) /\ Len(s) = Len(contracts[a]) + 1
      /\ s[Len(contracts[a]) + 1] = k
      /\ \A c \in 1..Len(contracts[a]) : s[c] = contracts[a][c]
  BY <1>1, <1>2
<1>4. contracts \in [Owners -> Seq(ContractType)]
  BY DEF ContractsOK
<1>5. contracts' = [contracts EXCEPT ![a] = s]
  BY <1>1
<1>6. contracts' \in [Owners -> Seq(ContractType)] /\ contracts'[a] = s
  BY <1>3, <1>4, <1>5
<1>7. \A o \in Owners : o # a => contracts'[o] = contracts[o]
  BY <1>4, <1>5
<1>8. ASSUME NEW o \in Owners
      PROVE  /\ Len(contracts'[o]) <= MaxContracts
             /\ \A c \in 1..Len(contracts'[o]) : ScoreOK(contracts'[o][c])
  <2>1. CASE o # a
    BY <1>7, <2>1 DEF ContractsOK, Deployed
  <2>2. CASE o = a
    <3>1. Len(s) <= MaxContracts
      BY <1>2, <1>3
    <3>2. \A c \in 1..Len(s) : c \in 1..Len(contracts[a]) \/ c = Len(contracts[a]) + 1
      BY <1>2, <1>3
    <3>3. \A c \in 1..Len(contracts[a]) : ScoreOK(contracts[a][c])
      BY DEF ContractsOK, Deployed
    <3> QED
      BY <1>3, <1>6, <2>2, <3>1, <3>2, <3>3
  <2> QED
    BY <2>1, <2>2
<1>9. ContractsOK'
  BY <1>6, <1>8 DEF ContractsOK, Deployed
<1>10. ASSUME NEW o \in Owners
       PROVE  /\ Len(contracts[o]) <= Len(contracts'[o])
              /\ \A c \in Deployed(o) : contracts'[o][c] = contracts[o][c]
  <2>1. CASE o # a
    BY <1>7, <2>1, SomeContract
  <2>2. CASE o = a
    BY <1>2, <1>3, <1>6, <2>2 DEF Deployed
  <2> QED
    BY <2>1, <2>2
<1>11. ContractsGrow
  BY <1>10, LaterSame DEF ContractsGrow
<1> QED
  BY <1>3, <1>6, <1>9, <1>11

LEMMA ContractChanged ==
    ASSUME ContractsOK, NEW a \in Owners, NEW i \in Deployed(a), NEW k \in ContractType,
           ScoreOK(k), Later(contracts[a][i], k),
           contracts' = [contracts EXCEPT ![a][i] = k]
    PROVE  /\ ContractsOK' /\ ContractsGrow
           /\ contracts'[a][i] = k
           /\ \A o \in Owners : Len(contracts'[o]) = Len(contracts[o])
<1>1. PICK s : s = [contracts[a] EXCEPT ![i] = k]
  OBVIOUS
<1>2. contracts[a] \in Seq(ContractType) /\ Len(contracts[a]) \in Nat
  BY SomeContract
<1>3. /\ s \in Seq(ContractType) /\ Len(s) = Len(contracts[a]) /\ s[i] = k
      /\ \A c \in 1..Len(contracts[a]) : c # i => s[c] = contracts[a][c]
  BY <1>1, <1>2 DEF Deployed
<1>4. contracts \in [Owners -> Seq(ContractType)]
  BY DEF ContractsOK
<1>5. contracts' = [contracts EXCEPT ![a] = s]
  BY <1>1
<1>6. contracts' \in [Owners -> Seq(ContractType)] /\ contracts'[a] = s
  BY <1>3, <1>4, <1>5
<1>7. \A o \in Owners : o # a => contracts'[o] = contracts[o]
  BY <1>4, <1>5
<1>8. \A o \in Owners : Len(contracts'[o]) = Len(contracts[o])
  BY <1>3, <1>6, <1>7
<1>9. ASSUME NEW o \in Owners, NEW c \in 1..Len(contracts'[o])
      PROVE  ScoreOK(contracts'[o][c]) /\ Later(contracts[o][c], contracts'[o][c])
  <2>1. CASE o = a /\ c = i
    BY <1>3, <1>6, <2>1
  <2>2. CASE ~(o = a /\ c = i)
    <3>1. contracts'[o][c] = contracts[o][c]
      BY <1>3, <1>6, <1>7, <1>8, <2>2
    <3>2. ScoreOK(contracts[o][c])
      BY <1>8 DEF ContractsOK, Deployed
    <3> QED
      BY <3>1, <3>2, LaterSame
  <2> QED
    BY <2>1, <2>2
<1>10. ContractsOK'
  BY <1>6, <1>8, <1>9 DEF ContractsOK, Deployed
<1>11. ContractsGrow
  BY <1>8, <1>9, SomeContract DEF ContractsGrow, Deployed
<1> QED
  BY <1>3, <1>6, <1>8, <1>10, <1>11

\* What each call makes of its contract.
LEMMA ContractCall ==
    ASSUME ContractsOK, NEW a \in Owners, NEW tx, OwnerTx(a, tx), tx.fn \in ContractCalls,
           Succeeds(a, tx), OnContract(a, tx)
    PROVE  /\ ContractsOK' /\ ContractsGrow
           /\ \A o \in Owners : Len(contracts'[o]) = Len(contracts[o])
           /\ tx.at \in Deployed(a)
           /\ tx.fn = "setDinToken" => contracts'[a][tx.at].token
           /\ tx.fn = "setDINTaskAuditorContract" =>
                 contracts'[a][tx.at].stage = 1 /\ contracts'[a][tx.at].auditor = tx.aud
           /\ tx.fn = "setGenesisModelIpfsHash" =>
                 contracts'[a][tx.at].stage = 4 /\ contracts'[a][tx.at].genesis = tx.cid
<1>1. /\ tx.at \in Deployed(a)
      /\ tx.fn = "setDINTaskAuditorContract" => tx.aud \in Deployed(a)
      /\ tx.fn \in Submissions => tx.cid \in CIDs
      /\ tx.fn = "setTier2Score" => Holds(a, tx.at, tx.cid)
  BY DEF OwnerTx, RequestTx, ContractCalls, Slashings, Submissions
<1>2. PICK c : c = contracts[a][tx.at]
  OBVIOUS
<1>3. c \in ContractType /\ ScoreOK(c)
  BY <1>1, <1>2, SomeContract DEF ContractsOK
<1>4. PICK k : k = CASE tx.fn = "setDinToken" -> [c EXCEPT !.token = TRUE]
                     [] tx.fn = "setDINTaskAuditorContract" ->
                          [c EXCEPT !.auditor = tx.aud, !.stage = 1]
                     [] tx.fn = "setDINTaskCoordinatorAsSlasher" -> [c EXCEPT !.stage = 2]
                     [] tx.fn = "setDINTaskAuditorAsSlasher" -> [c EXCEPT !.stage = 3]
                     [] tx.fn = "setGenesisModelIpfsHash" ->
                          [c EXCEPT !.genesis = tx.cid, !.stage = 4]
                     [] tx.fn = "setTier2Score" -> [c EXCEPT !.scored = tx.cid]
  OBVIOUS
<1>5. contracts' = [contracts EXCEPT ![a][tx.at] = k]
  BY <1>2, <1>4 DEF OnContract, Mine
<1>6. /\ k \in ContractType /\ ScoreOK(k) /\ Later(c, k)
      /\ tx.fn = "setDinToken" => k.token
      /\ tx.fn = "setDINTaskAuditorContract" => k.stage = 1 /\ k.auditor = tx.aud
      /\ tx.fn = "setGenesisModelIpfsHash" => k.stage = 4 /\ k.genesis = tx.cid
  <2>1. CASE tx.fn = "setDinToken"
    <3>1. k = [c EXCEPT !.token = TRUE]
      BY <1>4, <2>1
    <3> QED
      BY <1>3, <2>1, <3>1 DEF ContractType, ScoreOK, Later
  <2>2. CASE tx.fn = "setDINTaskAuditorContract"
    <3>0. k = [c EXCEPT !.auditor = tx.aud, !.stage = 1]
      BY <1>4, <2>2
    <3>1. k = [kind |-> c.kind, modelId |-> c.modelId, token |-> c.token, auditor |-> tx.aud,
               stage |-> 1, genesis |-> c.genesis, scored |-> c.scored]
      BY <1>3, <3>0 DEF ContractType
    <3>2. c.stage = 0 /\ tx.aud \in Nat
      BY <1>1, <1>2, <2>2 DEF Succeeds, Mine, Deployed
    <3> QED
      BY <1>3, <2>2, <3>1, <3>2 DEF ContractType, ScoreOK, Later
  <2>3. CASE tx.fn = "setDINTaskCoordinatorAsSlasher"
    <3>1. k = [c EXCEPT !.stage = 2]
      BY <1>4, <2>3
    <3>2. c.stage = 1
      BY <1>2, <2>3 DEF Succeeds, Mine
    <3> QED
      BY <1>3, <2>3, <3>1, <3>2 DEF ContractType, ScoreOK, Later
  <2>4. CASE tx.fn = "setDINTaskAuditorAsSlasher"
    <3>1. k = [c EXCEPT !.stage = 3]
      BY <1>4, <2>4
    <3>2. c.stage = 2
      BY <1>2, <2>4 DEF Succeeds, Mine
    <3> QED
      BY <1>3, <2>4, <3>1, <3>2 DEF ContractType, ScoreOK, Later
  <2>5. CASE tx.fn = "setGenesisModelIpfsHash"
    <3>0. k = [c EXCEPT !.genesis = tx.cid, !.stage = 4]
      BY <1>4, <2>5
    <3>1. k = [kind |-> c.kind, modelId |-> c.modelId, token |-> c.token, auditor |-> c.auditor,
               stage |-> 4, genesis |-> tx.cid, scored |-> c.scored]
      BY <1>3, <3>0 DEF ContractType
    <3>2. c.stage = 3 /\ tx.cid \in CIDs
      BY <1>1, <1>2, <2>5 DEF Succeeds, Mine, Submissions
    <3> QED
      BY <1>3, <2>5, <3>1, <3>2 DEF ContractType, ScoreOK, Later, Genesis
  <2>6. CASE tx.fn = "setTier2Score"
    <3>1. k = [c EXCEPT !.scored = tx.cid]
      BY <1>4, <2>6
    <3>2. c.stage = 4 /\ c.genesis = tx.cid /\ tx.cid \in CIDs
      BY <1>1, <1>2, <2>6 DEF Holds, Submissions
    <3> QED
      BY <1>3, <2>6, <3>1, <3>2 DEF ContractType, ScoreOK, Later, Genesis
  <2> QED
    BY <2>1, <2>2, <2>3, <2>4, <2>5, <2>6 DEF ContractCalls
<1> QED
  BY <1>1, <1>2, <1>5, <1>6, ContractChanged

-----------------------------------------------------------------------------
(* The registry. *)

LEMMA SomeRequest ==
    ASSUME RequestsOK, NEW n \in 1..Len(requests)
    PROVE  /\ requests[n] \in RequestType /\ requests[n].owner \in Owners
           /\ {requests[n].coord, requests[n].aud} \subseteq Deployed(requests[n].owner)
<1>1. requests[n] \in RequestType
  BY DEF RequestsOK
<1>2. {requests[n].coord, requests[n].aud} \subseteq Deployed(requests[n].owner)
  BY DEF RequestsOK
<1> QED
  BY <1>1, <1>2 DEF RequestType

LEMMA DeployedGrows ==
    ASSUME ContractsOK, ContractsOK', ContractsGrow, NEW o \in Owners
    PROVE  /\ Deployed(o) \subseteq Deployed(o)'
           /\ \A c \in Deployed(o) : Later(contracts[o][c], contracts'[o][c])
<1>1. Len(contracts[o]) \in Nat /\ Len(contracts'[o]) \in Nat
  BY DEF ContractsOK
<1> QED
  BY <1>1 DEF ContractsGrow, Deployed

LEMMA RequestsStay ==
    ASSUME RequestsOK, ContractsOK, ContractsOK', ContractsGrow, UNCHANGED requests
    PROVE  RequestsOK' /\ RequestsGrow
<1>1. \A n \in 1..Len(requests) :
          {requests[n].coord, requests[n].aud} \subseteq 1..Len(contracts'[requests[n].owner])
  BY SomeRequest, DeployedGrows DEF Deployed
<1>2. Len(requests) \in Nat
  BY DEF RequestsOK
<1> QED
  BY <1>1, <1>2 DEF RequestsOK, RequestsGrow, Deployed

LEMMA RequestAppended ==
    ASSUME RequestsOK, NEW r \in RequestType, {r.coord, r.aud} \subseteq Deployed(r.owner),
           UNCHANGED contracts, requests' = Append(requests, r)
    PROVE  /\ RequestsOK' /\ RequestsGrow /\ Len(requests') = Len(requests) + 1
           /\ requests'[Len(requests) + 1] = r
           /\ \A n \in 1..Len(requests) : requests'[n] = requests[n]
<1>1. requests \in Seq(RequestType) /\ Len(requests) \in Nat
  BY DEF RequestsOK
<1>2. /\ requests' \in Seq(RequestType) /\ Len(requests') = Len(requests) + 1
      /\ requests'[Len(requests) + 1] = r
      /\ \A n \in 1..Len(requests) : requests'[n] = requests[n]
  BY <1>1
<1>3. \A n \in 1..Len(requests') : n \in 1..Len(requests) \/ n = Len(requests) + 1
  BY <1>1, <1>2
<1>4. \A n \in 1..Len(requests) :
         {requests[n].coord, requests[n].aud} \subseteq Deployed(requests[n].owner)
  BY SomeRequest
<1>5. {r.coord, r.aud} \subseteq 1..Len(contracts[r.owner])
  BY DEF Deployed
<1>6. \A n \in 1..Len(requests') :
         {requests'[n].coord, requests'[n].aud} \subseteq 1..Len(contracts[requests'[n].owner])
  BY <1>2, <1>3, <1>4, <1>5 DEF Deployed
<1>7. RequestsOK'
  BY <1>2, <1>6 DEF RequestsOK, Deployed
<1>8. RequestsGrow
  BY <1>1, <1>2 DEF RequestsGrow
<1> QED
  BY <1>2, <1>7, <1>8

LEMMA RequestAnswered ==
    ASSUME RequestsOK, NEW n \in 1..Len(requests), NEW s \in {"approved", "rejected"},
           UNCHANGED contracts, requests' = [requests EXCEPT ![n].status = s]
    PROVE  /\ RequestsOK' /\ RequestsGrow /\ Len(requests') = Len(requests)
           /\ \A i \in 1..Len(requests) : requests'[i].paid = requests[i].paid
<1>1. requests \in Seq(RequestType) /\ Len(requests) \in Nat /\ requests[n] \in RequestType
  BY SomeRequest DEF RequestsOK
<1>2. PICK r : r = [requests[n] EXCEPT !.status = s]
  OBVIOUS
<1>3. /\ r \in RequestType /\ r.owner = requests[n].owner /\ r.coord = requests[n].coord
      /\ r.aud = requests[n].aud /\ r.paid = requests[n].paid
  BY <1>1, <1>2 DEF RequestType
<1>4. requests' = [requests EXCEPT ![n] = r]
  BY <1>2
<1>5. /\ requests' \in Seq(RequestType) /\ Len(requests') = Len(requests)
      /\ requests'[n] = r
      /\ \A i \in 1..Len(requests) : i # n => requests'[i] = requests[i]
  BY <1>1, <1>3, <1>4
<1>6. \A i \in 1..Len(requests) :
         /\ requests'[i].owner = requests[i].owner /\ requests'[i].coord = requests[i].coord
         /\ requests'[i].aud = requests[i].aud /\ requests'[i].paid = requests[i].paid
  BY <1>3, <1>5
<1>7. \A i \in 1..Len(requests) :
         {requests[i].coord, requests[i].aud} \subseteq 1..Len(contracts[requests[i].owner])
  BY SomeRequest DEF Deployed
<1>8. \A i \in 1..Len(requests') :
         {requests'[i].coord, requests'[i].aud} \subseteq 1..Len(contracts[requests'[i].owner])
  BY <1>5, <1>6, <1>7
<1>9. RequestsOK'
  BY <1>5, <1>8 DEF RequestsOK, Deployed
<1>10. RequestsGrow
  BY <1>1, <1>5, <1>6 DEF RequestsGrow
<1> QED
  BY <1>5, <1>6, <1>9, <1>10

\* What an approved model's contracts are called does not change.
LEMMA ModelsStay ==
    ASSUME ContractsOK, ContractsOK', RequestsOK, ContractsGrow, RequestsGrow, RequestsOK',
           ModelsOK, UNCHANGED models, ApprovedIDsMatch
    PROVE  ModelsOK' /\ ApprovedIDsMatch'
<1>1. Len(requests) \in Nat /\ Len(requests') \in Nat
  BY DEF RequestsOK
<1>2. ModelsOK'
  BY <1>1 DEF ModelsOK, RequestsGrow
<1>3. DOMAIN models = 1..Len(models)
  BY DEF ModelsOK
<1>4. ASSUME NEW m \in 1..Len(models), ~models[m].excused
      PROVE  \A c \in {requests'[models[m].request].coord, requests'[models[m].request].aud} :
                contracts'[requests'[models[m].request].owner][c].modelId = m - 1
  <2>1. PICK n : n = models[m].request
    OBVIOUS
  <2>2. n \in 1..Len(requests)
    BY <2>1 DEF ModelsOK
  <2>3. /\ requests'[n].owner = requests[n].owner /\ requests'[n].coord = requests[n].coord
        /\ requests'[n].aud = requests[n].aud
    BY <2>2 DEF RequestsGrow
  <2>4. \A c \in {requests[n].coord, requests[n].aud} :
           contracts[requests[n].owner][c].modelId = m - 1
    BY <1>3, <1>4, <2>1 DEF ApprovedIDsMatch, Mine
  <2>5. /\ requests[n].owner \in Owners
        /\ {requests[n].coord, requests[n].aud} \subseteq Deployed(requests[n].owner)
    BY <2>2, SomeRequest
  <2>6. \A c \in {requests[n].coord, requests[n].aud} :
           contracts'[requests[n].owner][c].modelId = m - 1
    BY <2>4, <2>5, DeployedGrows DEF Later
  <2> QED
    BY <2>1, <2>3, <2>6
<1>5. ApprovedIDsMatch'
  BY <1>3, <1>4 DEF ApprovedIDsMatch, Mine
<1> QED
  BY <1>2, <1>5

\* The next model is the one whose number its contracts carry.
LEMMA ModelAppended ==
    ASSUME ContractsOK, RequestsOK, RequestsOK', RequestsGrow, Len(requests') = Len(requests),
           UNCHANGED contracts, ModelsOK, ApprovedIDsMatch,
           NEW k \in ModelType, k.request \in 1..Len(requests), k.excused \/ Matches(k.request),
           models' = Append(models, k)
    PROVE  ModelsOK' /\ ApprovedIDsMatch'
<1>1. models \in Seq(ModelType) /\ Len(models) \in Nat
  BY DEF ModelsOK
<1>2. /\ models' \in Seq(ModelType) /\ Len(models') = Len(models) + 1
      /\ models'[Len(models) + 1] = k
      /\ \A m \in 1..Len(models) : models'[m] = models[m]
  BY <1>1
<1>3. \A m \in 1..Len(models') : m \in 1..Len(models) \/ m = Len(models) + 1
  BY <1>1, <1>2
<1>4. \A m \in 1..Len(models) : models[m].request \in 1..Len(requests)
  BY DEF ModelsOK
<1>5. \A m \in 1..Len(models') : models'[m].request \in 1..Len(requests')
  BY <1>2, <1>3, <1>4
<1>6. ModelsOK'
  BY <1>2, <1>5 DEF ModelsOK
<1>7. DOMAIN models = 1..Len(models) /\ DOMAIN models' = 1..Len(models')
  BY <1>1, <1>2
<1>8. ASSUME NEW m \in 1..Len(models'), ~models'[m].excused
      PROVE  \A c \in {requests'[models'[m].request].coord, requests'[models'[m].request].aud} :
                contracts'[requests'[models'[m].request].owner][c].modelId = m - 1
  <2>1. PICK n : n = models'[m].request
    OBVIOUS
  <2>2. n \in 1..Len(requests)
    BY <1>5, <2>1
  <2>3. /\ requests'[n].owner = requests[n].owner /\ requests'[n].coord = requests[n].coord
        /\ requests'[n].aud = requests[n].aud
    BY <2>2 DEF RequestsGrow
  <2>4. \A c \in {requests[n].coord, requests[n].aud} :
           contracts[requests[n].owner][c].modelId = m - 1
    <3>1. CASE m \in 1..Len(models)
      <4>1. models'[m] = models[m] /\ n = models[m].request /\ ~models[m].excused
        BY <1>2, <1>8, <2>1, <3>1
      <4>2. m \in DOMAIN models
        BY <1>7, <3>1
      <4>3. \A c \in {requests[models[m].request].coord, requests[models[m].request].aud} :
               Mine(requests[models[m].request].owner, c).modelId = m - 1
        BY <4>1, <4>2, Zenon DEF ApprovedIDsMatch
      <4> QED
        BY <4>1, <4>3 DEF Mine
    <3>2. CASE m = Len(models) + 1
      <4>1. n = k.request /\ m - 1 = Len(models) /\ ~k.excused
        BY <1>1, <1>2, <1>8, <2>1, <3>2
      <4> QED
        BY <4>1 DEF Matches
    <3> QED
      BY <1>3, <3>1, <3>2
  <2> QED
    BY <2>1, <2>3, <2>4
<1>9. ApprovedIDsMatch'
  BY <1>7, <1>8 DEF ApprovedIDsMatch, Mine
<1> QED
  BY <1>6, <1>9

-----------------------------------------------------------------------------
(* The fees. *)

LEMMA FeesStay ==
    ASSUME RequestsOK, RequestsOK', FeesMatchRequests, UNCHANGED <<collected, swept>>,
           Len(requests') = Len(requests),
           \A n \in 1..Len(requests) : requests'[n].paid = requests[n].paid
    PROVE  FeesMatchRequests'
<1>1. DOMAIN requests = 1..Len(requests) /\ DOMAIN requests' = 1..Len(requests)
      /\ Len(requests) \in Nat
  BY DEF RequestsOK
<1>2. PICK f : f = [n \in DOMAIN requests |-> requests[n].paid]
  OBVIOUS
<1>3. [n \in DOMAIN requests' |-> requests'[n].paid] = f
  BY <1>1, <1>2
<1> QED
  BY <1>1, <1>2, <1>3 DEF FeesMatchRequests

LEMMA FeePaid ==
    ASSUME RequestsOK, FeesOK, FeesMatchRequests, NEW paid \in Nat,
           collected' = collected + paid, UNCHANGED swept,
           RequestsOK', Len(requests') = Len(requests) + 1,
           \A n \in 1..Len(requests) : requests'[n] = requests[n],
           requests'[Len(requests) + 1].paid = paid
    PROVE  FeesMatchRequests'
<1>1. PICK n \in Nat : n = Len(requests)
  BY DEF RequestsOK
<1>2. DOMAIN requests = 1..n /\ DOMAIN requests' = 1..(n + 1)
  BY <1>1 DEF RequestsOK
<1>3. PICK f : f = [i \in 1..n |-> requests[i].paid]
  OBVIOUS
<1>4. PICK e : e = [i \in 1..(n + 1) |-> requests'[i].paid]
  OBVIOUS
<1>5. \A i \in 1..(n + 1) : e[i] \in Int
  <2>1. \A i \in 1..Len(requests') : requests'[i] \in RequestType
    BY DEF RequestsOK
  <2> QED
    BY <1>1, <1>4, <2>1 DEF RequestType
<1>6. /\ IsFiniteSet(1..n) /\ IsFiniteSet(1..(n + 1))
      /\ (1..(n + 1)) \ {n + 1} = 1..n /\ n + 1 \in 1..(n + 1)
  <2>1. n \in Int /\ n + 1 \in Int /\ 1 \in Int
    OBVIOUS
  <2>2. IsFiniteSet(1..n)
    BY <2>1, FS_Interval
  <2>3. IsFiniteSet(1..(n + 1))
    BY <2>1, FS_Interval
  <2>4. (1..(n + 1)) \ {n + 1} = 1..n /\ n + 1 \in 1..(n + 1)
    OBVIOUS
  <2> QED
    BY <2>2, <2>3, <2>4
<1>7. SumFunctionOnSet(e, 1..(n + 1)) = e[n + 1] + SumFunctionOnSet(e, 1..n)
  <2>1. PICK S, last : S = 1..(n + 1) /\ last = n + 1
    OBVIOUS
  <2>2. IsFiniteSet(S) /\ last \in S /\ S \ {last} = 1..n /\ \A i \in S : e[i] \in Int
    BY <1>5, <1>6, <2>1
  <2>3. SumFunctionOnSet(e, S) = e[last] + SumFunctionOnSet(e, S \ {last})
    BY <2>2, SumTake, SMTT(30)
  <2> QED
    BY <2>1, <2>2, <2>3
<1>8. SumFunctionOnSet(e, 1..n) = SumFunctionOnSet(f, 1..n)
  BY <1>1, <1>3, <1>4, <1>6, SumSame
<1>9. collected + swept = SumFunctionOnSet(f, 1..n)
  BY <1>2, <1>3 DEF FeesMatchRequests
<1>10. e[n + 1] = paid
  BY <1>1, <1>4, <1>6
<1>11. collected' + swept' = SumFunctionOnSet(e, 1..(n + 1))
  <2>1. PICK t : t = SumFunctionOnSet(f, 1..n)
    OBVIOUS
  <2>2. SumFunctionOnSet(e, 1..(n + 1)) = paid + t
    BY <1>7, <1>8, <1>10, <2>1
  <2>3. collected + swept = t
    BY <1>9, <2>1
  <2> QED
    BY <2>2, <2>3 DEF FeesOK
<1> QED
  BY <1>2, <1>4, <1>11 DEF FeesMatchRequests

-----------------------------------------------------------------------------
(* What a transaction that succeeds does to the chain. *)

TxFor(a, tx) == IF a = Rep THEN RepTx(tx) ELSE OwnerTx(a, tx)

OwnerCalls == {"deploy", "requestModelRegistration"} \cup ContractCalls
RepCalls == {"addSlasherContract", "approveModel", "rejectModel", "setOpenSourceFee",
             "sweepFeesToRouter"}

LEMMA TxKinds ==
    ASSUME NEW a \in Accounts, NEW tx, TxFor(a, tx)
    PROVE  IF a = Rep THEN tx.fn \in RepCalls ELSE tx.fn \in OwnerCalls /\ a \in Owners
  BY DEF TxFor, RepTx, OwnerTx, ApproveTx, RequestTx, Accounts, OwnerCalls, RepCalls,
         ContractCalls, Submissions, Slashings

ChainOK ==
    /\ ContractsOK /\ RequestsOK /\ ModelsOK /\ FeesOK
    /\ ApprovedIDsMatch /\ FeesMatchRequests

LEMMA DeployCall ==
    ASSUME ContractsOK, NEW a \in Owners, NEW tx, OwnerTx(a, tx), tx.fn = "deploy",
           Succeeds(a, tx), Execute(a, tx)
    PROVE  /\ ContractsOK' /\ ContractsGrow
           /\ UNCHANGED <<fee, requests, models, collected, swept>>
           /\ Len(contracts'[a]) = Len(contracts[a]) + 1
           /\ contracts'[a][Len(contracts[a]) + 1].kind = tx.kind
<1>1. tx \in [fn : {"deploy"}, kind : Kinds, id : Nat]
  BY DEF OwnerTx, RequestTx, Slashings, Submissions
<1>2. PICK k : k = NewContract(tx.kind, tx.id)
  OBVIOUS
<1>3. k \in ContractType /\ ScoreOK(k) /\ k.kind = tx.kind
  BY <1>1, <1>2 DEF NewContract, ContractType, ScoreOK, Genesis
<1>4. /\ contracts' = [contracts EXCEPT ![a] = Append(contracts[a], k)]
      /\ UNCHANGED <<fee, requests, models, collected, swept>>
  BY <1>2 DEF Execute, ContractCalls
<1>5. Len(contracts[a]) < MaxContracts
  BY DEF Succeeds
<1> QED
  BY <1>3, <1>4, <1>5, ContractAppended

LEMMA ChainStep ==
    ASSUME ChainOK, NEW a \in Accounts, NEW tx, TxFor(a, tx), Succeeds(a, tx), Execute(a, tx)
    PROVE  /\ ChainOK' /\ ContractsGrow /\ RequestsGrow
           /\ tx.fn # "approveModel" => UNCHANGED models
<1> USE DEF ChainOK
<1>1. CASE tx.fn = "deploy" \/ tx.fn \in ContractCalls
  <2>1. a \in Owners /\ OwnerTx(a, tx)
    BY <1>1, TxKinds DEF RepCalls, ContractCalls, TxFor
  <2>2. /\ ContractsOK' /\ ContractsGrow
        /\ UNCHANGED <<fee, requests, models, collected, swept>>
    <3>1. CASE tx.fn = "deploy"
      BY <2>1, <3>1, DeployCall
    <3>2. CASE tx.fn \in ContractCalls
      <4>1. OnContract(a, tx) /\ UNCHANGED <<fee, requests, models, collected, swept>>
        BY <3>2 DEF Execute, ContractCalls
      <4> QED
        BY <2>1, <3>2, <4>1, ContractCall
    <3> QED
      BY <1>1, <3>1, <3>2
  <2>3. RequestsOK' /\ RequestsGrow
    BY <2>2, RequestsStay
  <2>4. ModelsOK' /\ ApprovedIDsMatch'
    BY <2>2, <2>3, ModelsStay
  <2>5. FeesOK' /\ FeesMatchRequests'
    BY <2>2 DEF FeesOK, FeesMatchRequests
  <2> QED
    BY <2>2, <2>3, <2>4, <2>5
<1>2. CASE tx.fn = "requestModelRegistration"
  <2>1. a \in Owners /\ RequestTx(a, tx)
    BY <1>2, TxKinds DEF RepCalls, TxFor, OwnerTx, RequestTx, Slashings, Submissions
  <2>2. PICK r : r = [owner |-> a, coord |-> tx.coord, aud |-> tx.aud, paid |-> fee,
                      status |-> "pending"]
    OBVIOUS
  <2>3. /\ requests' = Append(requests, r) /\ collected' = collected + fee
        /\ UNCHANGED <<contracts, fee, models, swept>>
    BY <1>2, <2>2 DEF Execute, ContractCalls, Charge
  <2>4. r \in RequestType /\ {r.coord, r.aud} \subseteq Deployed(r.owner) /\ r.paid = fee
    BY <2>1, <2>2 DEF RequestType, RequestTx, FeesOK, Deployed
  <2>5. /\ RequestsOK' /\ RequestsGrow /\ Len(requests') = Len(requests) + 1
        /\ requests'[Len(requests) + 1] = r
        /\ \A n \in 1..Len(requests) : requests'[n] = requests[n]
    BY <2>3, <2>4, RequestAppended
  <2>6. ContractsOK' /\ ContractsGrow
    BY <2>3, ContractsStay
  <2>7. ModelsOK' /\ ApprovedIDsMatch'
    BY <2>3, <2>5, <2>6, ModelsStay
  <2>8. FeesOK'
    BY <2>3 DEF FeesOK
  <2>9. FeesMatchRequests'
    BY <2>3, <2>4, <2>5, FeePaid DEF FeesOK
  <2> QED
    BY <2>3, <2>5, <2>6, <2>7, <2>8, <2>9
<1>3. CASE tx.fn \in {"approveModel", "rejectModel"}
  <2>1. RepTx(tx)
    BY <1>3, TxKinds DEF OwnerCalls, ContractCalls, TxFor
  <2>2. tx.request \in 1..Len(requests)
    BY <1>3, <2>1 DEF RepTx, ApproveTx
  <2>3. PICK s \in {"approved", "rejected"} : requests' = [requests EXCEPT ![tx.request].status = s]
    BY <1>3 DEF Execute, ContractCalls
  <2>4. UNCHANGED <<contracts, fee, collected, swept>>
    BY <1>3 DEF Execute, ContractCalls
  <2>5. /\ RequestsOK' /\ RequestsGrow /\ Len(requests') = Len(requests)
        /\ \A i \in 1..Len(requests) : requests'[i].paid = requests[i].paid
    BY <2>2, <2>3, <2>4, RequestAnswered
  <2>6. ContractsOK' /\ ContractsGrow
    BY <2>4, ContractsStay
  <2>7. ModelsOK' /\ ApprovedIDsMatch' /\ (tx.fn # "approveModel" => UNCHANGED models)
    <3>1. CASE tx.fn = "approveModel"
      <4>1. PICK k : k = [request |-> tx.request, excused |-> tx.excused, forced |-> tx.forced]
        OBVIOUS
      <4>2. models' = Append(models, k)
        BY <3>1, <4>1 DEF Execute, ContractCalls
      <4>3. ApproveTx(tx)
        BY <2>1, <3>1 DEF RepTx
      <4>4. /\ k \in ModelType /\ k.request \in 1..Len(requests)
            /\ k.excused \/ Matches(k.request)
        BY <4>1, <4>3 DEF ApproveTx, ModelType
      <4> QED
        BY <2>4, <2>5, <3>1, <4>2, <4>4, ModelAppended
    <3>2. CASE tx.fn = "rejectModel"
      <4>1. UNCHANGED models
        BY <3>2 DEF Execute, ContractCalls
      <4> QED
        BY <2>5, <2>6, <4>1, ModelsStay
    <3> QED
      BY <1>3, <3>1, <3>2
  <2>8. FeesOK' /\ FeesMatchRequests'
    BY <2>4, <2>5, FeesStay DEF FeesOK
  <2> QED
    BY <2>5, <2>6, <2>7, <2>8
<1>4. CASE tx.fn \in {"addSlasherContract", "setOpenSourceFee", "sweepFeesToRouter"}
  <2>1. RepTx(tx)
    BY <1>4, TxKinds DEF OwnerCalls, ContractCalls, TxFor
  <2>2. UNCHANGED <<contracts, requests, models>>
    BY <1>4 DEF Execute, ContractCalls
  <2>3. FeesOK' /\ collected' + swept' = collected + swept
    <3>1. CASE tx.fn = "addSlasherContract"
      <4>1. UNCHANGED <<fee, collected, swept>>
        BY <3>1 DEF Execute, ContractCalls
      <4> QED
        BY <4>1 DEF FeesOK
    <3>2. CASE tx.fn = "setOpenSourceFee"
      <4>1. fee' = tx.value /\ UNCHANGED <<collected, swept>>
        BY <3>2 DEF Execute, ContractCalls
      <4>2. tx.value \in Nat
        BY <2>1, <3>2 DEF RepTx, ApproveTx
      <4> QED
        BY <4>1, <4>2 DEF FeesOK
    <3>3. CASE tx.fn = "sweepFeesToRouter"
      <4>1. fee' = fee /\ swept' = swept + collected /\ collected' = 0
        BY <3>3 DEF Execute, ContractCalls
      <4> QED
        BY <4>1 DEF FeesOK
    <3> QED
      BY <1>4, <3>1, <3>2, <3>3
  <2>4. ContractsOK' /\ ContractsGrow
    BY <2>2, ContractsStay
  <2>5. RequestsOK' /\ RequestsGrow
    BY <2>2, <2>4, RequestsStay
  <2>6. ModelsOK' /\ ApprovedIDsMatch'
    BY <2>2, <2>4, <2>5, ModelsStay
  <2>7. FeesMatchRequests'
    BY <2>2, <2>3 DEF FeesMatchRequests
  <2> QED
    BY <1>4, <2>2, <2>3, <2>4, <2>5, <2>6, <2>7
<1> QED
  BY <1>1, <1>2, <1>3, <1>4, TxKinds DEF OwnerCalls, RepCalls

\* Nothing on the chain.
LEMMA ChainStays ==
    ASSUME ChainOK, UNCHANGED chain
    PROVE  ChainOK' /\ ContractsGrow /\ RequestsGrow /\ UNCHANGED models
<1>1. UNCHANGED <<contracts, fee, requests, models, collected, swept>>
  BY DEF chain
<1>2. ContractsOK' /\ ContractsGrow
  BY <1>1, ContractsStay DEF ChainOK
<1>3. RequestsOK' /\ RequestsGrow
  BY <1>1, <1>2, RequestsStay DEF ChainOK
<1>4. ModelsOK' /\ ApprovedIDsMatch'
  BY <1>1, <1>2, <1>3, ModelsStay DEF ChainOK
<1>5. FeesOK' /\ FeesMatchRequests'
  BY <1>1 DEF ChainOK, FeesOK, FeesMatchRequests
<1> QED
  BY <1>1, <1>2, <1>3, <1>4, <1>5 DEF ChainOK

-----------------------------------------------------------------------------
(* What was said of the transactions, the commands, .env and the reports    *)
(* goes on holding while the chain grows.                                    *)

LEMMA OwnerTxKeeps ==
    ASSUME ContractsOK, ContractsOK', ContractsGrow, NEW o \in Owners, NEW tx, OwnerTx(o, tx)
    PROVE  OwnerTx(o, tx)'
<1>1. /\ Deployed(o) \subseteq Deployed(o)'
      /\ \A c \in Deployed(o) : Later(contracts[o][c], contracts'[o][c])
  BY DeployedGrows
<1>2. \A c \in Deployed(o) : \A cid : Holds(o, c, cid) => Holds(o, c, cid)'
  BY <1>1 DEF Holds, Later
<1>3. PICK D, E : D = Deployed(o) /\ E = Deployed(o)' /\ D \subseteq E
  BY <1>1
<1> QED
  BY <1>2, <1>3 DEF OwnerTx, RequestTx

LEMMA MatchesKeeps ==
    ASSUME ContractsOK, ContractsOK', ContractsGrow, RequestsOK, RequestsGrow, UNCHANGED models,
           NEW n \in 1..Len(requests), Matches(n)
    PROVE  Matches(n)'
<1>1. /\ requests'[n].owner = requests[n].owner /\ requests'[n].coord = requests[n].coord
      /\ requests'[n].aud = requests[n].aud
  BY DEF RequestsGrow
<1>2. /\ requests[n].owner \in Owners
      /\ {requests[n].coord, requests[n].aud} \subseteq Deployed(requests[n].owner)
  BY SomeRequest
<1>3. \A c \in {requests[n].coord, requests[n].aud} :
         contracts'[requests[n].owner][c].modelId = contracts[requests[n].owner][c].modelId
  BY <1>2, DeployedGrows DEF Later
<1> QED
  BY <1>1, <1>3 DEF Matches

LEMMA RepTxKeeps ==
    ASSUME ContractsOK, ContractsOK', ContractsGrow, RequestsOK, RequestsOK', RequestsGrow,
           NEW tx, RepTx(tx),
           tx.fn = "approveModel" => tx.excused \/ UNCHANGED models
    PROVE  RepTx(tx)'
<1>1. 1..Len(requests) \subseteq 1..Len(requests')
  BY DEF RequestsGrow, RequestsOK
<1>2. ApproveTx(tx) => ApproveTx(tx)'
  <2> SUFFICES ASSUME ApproveTx(tx) PROVE ApproveTx(tx)'
    OBVIOUS
  <2>1. tx.fn = "approveModel" /\ tx.request \in 1..Len(requests)
    BY DEF ApproveTx
  <2>2. tx.excused \/ Matches(tx.request)'
    BY <2>1, MatchesKeeps DEF ApproveTx
  <2> QED
    BY <1>1, <2>2 DEF ApproveTx
<1> QED
  BY <1>1, <1>2 DEF RepTx

LEMMA EnvKeeps ==
    ASSUME ContractsOK, ContractsOK', ContractsGrow, EnvOK, UNCHANGED env
    PROVE  EnvOK'
<1>1. \A o \in Owners : 0..Len(contracts[o]) \subseteq 0..Len(contracts'[o])
  BY DEF ContractsOK, ContractsGrow
<1> QED
  BY <1>1 DEF EnvOK

LEMMA WorksKeeps ==
    ASSUME ContractsOK, ContractsOK', ContractsGrow, NEW w, Works(w)
    PROVE  Works(w)'
<1>1. w \in Owners \X Nat /\ w[1] \in Owners /\ w[2] \in Deployed(w[1])
  BY DEF Works
<1>2. PICK o, i : o = w[1] /\ i = w[2] /\ o \in Owners
  BY <1>1
<1>3. /\ Deployed(o) \subseteq Deployed(o)'
      /\ \A c \in Deployed(o) : Later(contracts[o][c], contracts'[o][c])
  BY <1>2, DeployedGrows
<1>4. /\ contracts[o][i].token
      /\ contracts[o][i].kind = "auditor" =>
            \E c \in Deployed(o) : contracts[o][c].stage > 0 /\ contracts[o][c].auditor = i
  BY <1>2 DEF Works
<1>5. i \in Deployed(o)' /\ contracts'[o][i].token
  BY <1>1, <1>2, <1>3, <1>4 DEF Later
<1>6. contracts'[o][i].kind = "auditor" =>
         \E c \in Deployed(o)' : contracts'[o][c].stage > 0 /\ contracts'[o][c].auditor = i
  BY <1>1, <1>2, <1>3, <1>4 DEF Later
<1> QED
  BY <1>1, <1>2, <1>5, <1>6 DEF Works

LEMMA ReportedKeeps ==
    ASSUME ContractsOK, ContractsOK', ContractsGrow, ReportedOK, UNCHANGED reported
    PROVE  ReportedOK'
  BY WorksKeeps DEF ReportedOK

LEMMA ReportedMore ==
    ASSUME ContractsOK, ContractsOK', ContractsGrow, ReportedOK, NEW o \in Owners, NEW i \in Nat,
           reported' = reported \cup {<<o, i>>}, i \in Deployed(o)', contracts'[o][i].token,
           contracts'[o][i].kind = "auditor" =>
              \E c \in Deployed(o)' : contracts'[o][c].stage > 0 /\ contracts'[o][c].auditor = i
    PROVE  ReportedOK'
<1>1. PICK w : w = <<o, i>>
  OBVIOUS
<1>2. w[1] = o /\ w[2] = i /\ w \in Owners \X Nat
  BY <1>1
<1>3. Works(w)'
  BY <1>2 DEF Works
<1>4. reported' = reported \cup {w}
  BY <1>1
<1> QED
  BY <1>3, <1>4, WorksKeeps DEF ReportedOK

LEMMA OwnerCommandKeeps ==
    ASSUME ContractsOK, ContractsOK', ContractsGrow, NEW o \in Owners, NEW c, OwnerCommandOK(o, c)
    PROVE  OwnerCommandOK(o, c)'
<1>1. /\ Deployed(o) \subseteq Deployed(o)'
      /\ \A i \in Deployed(o) : Later(contracts[o][i], contracts'[o][i])
  BY DeployedGrows
<1>2. PICK D, E : D = Deployed(o) /\ E = Deployed(o)' /\ D \subseteq E
  BY <1>1
<1>3. CASE DeployCommand(o, c)
  <2>1. DeployCommand(o, c)'
    BY <1>1, <1>2, <1>3 DEF DeployCommand, Later
  <2> QED
    BY <2>1 DEF OwnerCommandOK
<1>4. CASE SlasherCommand(o, c)
  <2>1. SlasherCommand(o, c)'
    BY <1>2, <1>4 DEF SlasherCommand
  <2> QED
    BY <2>1 DEF OwnerCommandOK
<1>5. CASE SubmitCommand(o, c)
  <2>1. c.coord \in D
    BY <1>2, <1>5 DEF SubmitCommand
  <2>2. Holds(o, c.coord, c.cid) => Holds(o, c.coord, c.cid)'
    BY <1>1, <1>2, <2>1 DEF Holds, Later
  <2>3. SubmitCommand(o, c)'
    BY <1>2, <1>5, <2>2 DEF SubmitCommand
  <2> QED
    BY <2>3 DEF OwnerCommandOK
<1>6. CASE RequestCommand(o, c)
  <2>1. RequestCommand(o, c)'
    BY <1>2, <1>6 DEF RequestCommand, RequestTx
  <2> QED
    BY <2>1 DEF OwnerCommandOK
<1> QED
  BY <1>3, <1>4, <1>5, <1>6 DEF OwnerCommandOK

LEMMA RepCommandKeeps ==
    ASSUME ContractsOK, ContractsOK', ContractsGrow, RequestsOK, RequestsOK', RequestsGrow,
           NEW c, RepCommandOK(c),
           c.tx.fn = "approveModel" /\ ~c.tx.excused =>
              UNCHANGED models /\ (c.sent \/ pool'[Rep] = NoTx)
    PROVE  RepCommandOK(c)'
<1>1. RepTx(c.tx)
  BY DEF RepCommandOK
<1>2. PICK tx : tx = c.tx
  OBVIOUS
<1>3. RepTx(tx)'
  BY <1>1, <1>2, RepTxKeeps
<1> QED
  BY <1>2, <1>3 DEF RepCommandOK

-----------------------------------------------------------------------------
(* What a command sends. *)

Sent(c) ==
    LET fn == Head(c.todo)
    IN  CASE fn = "deploy" -> [fn |-> fn, kind |-> c.kind, id |-> c.id]
          [] fn = "setDinToken" -> [fn |-> fn, at |-> c.new]
          [] fn = "setDINTaskAuditorContract" -> [fn |-> fn, at |-> c.coord, aud |-> c.new]
          [] fn \in {"setDINTaskCoordinatorAsSlasher", "setDINTaskAuditorAsSlasher"} ->
               [fn |-> fn, at |-> c.coord]
          [] fn \in {"setGenesisModelIpfsHash", "setTier2Score"} ->
               [fn |-> fn, at |-> c.coord, cid |-> c.cid]
          [] OTHER -> c.tx

LEMMA TxOfIsSent == ASSUME NEW a PROVE TxOf(a) = Sent(command[a])
  BY DEF TxOf, Sent

LEMMA Todos ==
    /\ \A x : Head(<<x>>) = x /\ Tail(<<x>>) = <<>> /\ <<x>>[1] = x
    /\ \A x, y : Head(<<x, y>>) = x /\ Tail(<<x, y>>) = <<y>> /\ <<x, y>>[1] = x
    /\ \A x, y, z : /\ Head(<<x, y, z>>) = x /\ Tail(<<x, y, z>>) = <<y, z>>
                    /\ <<x, y, z>>[1] = x
    /\ \A x, y : <<x>> # <<>> /\ <<x, y>> # <<>>
  OBVIOUS

\* The steps of a deployment: where a command stands, and what it has left.
LEMMA DeployTodos ==
    ASSUME NEW o, NEW c, DeployCommand(o, c)
    PROVE  /\ c.kind \in Kinds /\ Head(c.todo) = c.todo[1]
           /\ c.todo[1] \in {"deploy", "setDinToken", "setDINTaskAuditorContract"}
           /\ c.todo[1] = "deploy" =>
                 Tail(c.todo) = IF c.kind = "coordinator" THEN <<"setDinToken">>
                                ELSE <<"setDinToken", "setDINTaskAuditorContract">>
           /\ c.todo[1] = "setDinToken" =>
                 Tail(c.todo) = IF c.kind = "coordinator" THEN <<>>
                                ELSE <<"setDINTaskAuditorContract">>
           /\ c.todo[1] = "setDINTaskAuditorContract" => c.kind = "auditor" /\ Tail(c.todo) = <<>>
<1>1. c.kind \in Kinds /\ c.todo \in DeployTodo(c.kind)
  BY DEF DeployCommand
<1>2. CASE c.kind = "coordinator" /\ c.todo = <<"deploy", "setDinToken">>
  BY <1>2 DEF Kinds
<1>3. CASE c.kind = "coordinator" /\ c.todo = <<"setDinToken">>
  BY <1>3 DEF Kinds
<1>4. CASE /\ c.kind = "auditor"
           /\ c.todo = <<"deploy", "setDinToken", "setDINTaskAuditorContract">>
  BY <1>4 DEF Kinds
<1>5. CASE c.kind = "auditor" /\ c.todo = <<"setDinToken", "setDINTaskAuditorContract">>
  BY <1>5 DEF Kinds
<1>6. CASE c.kind = "auditor" /\ c.todo = <<"setDINTaskAuditorContract">>
  BY <1>6 DEF Kinds
<1> QED
  BY <1>1, <1>2, <1>3, <1>4, <1>5, <1>6 DEF DeployTodo, Kinds

LEMMA OwnerSends ==
    ASSUME NEW o \in Owners, NEW c, OwnerCommandOK(o, c)
    PROVE  OwnerTx(o, Sent(c))
<1>1. CASE DeployCommand(o, c)
  <2>1. /\ c.kind \in Kinds /\ c.id \in Nat
        /\ c.kind = "auditor" => c.coord \in Deployed(o)
        /\ c.todo[1] # "deploy" => c.new \in Deployed(o)
    BY <1>1 DEF DeployCommand
  <2>2. CASE c.todo[1] = "deploy"
    <3>1. Sent(c) = [fn |-> "deploy", kind |-> c.kind, id |-> c.id]
      BY <1>1, <2>2, DeployTodos DEF Sent
    <3> QED
      BY <2>1, <3>1 DEF OwnerTx
  <2>3. CASE c.todo[1] = "setDinToken"
    <3>1. Sent(c) = [fn |-> "setDinToken", at |-> c.new]
      BY <1>1, <2>3, DeployTodos DEF Sent
    <3> QED
      BY <2>1, <2>3, <3>1 DEF OwnerTx
  <2>4. CASE c.todo[1] = "setDINTaskAuditorContract"
    <3>1. Sent(c) = [fn |-> "setDINTaskAuditorContract", at |-> c.coord, aud |-> c.new]
      BY <1>1, <2>4, DeployTodos DEF Sent
    <3>2. c.kind = "auditor"
      BY <1>1, <2>4, DeployTodos
    <3> QED
      BY <2>1, <2>4, <3>1, <3>2 DEF OwnerTx
  <2> QED
    BY <1>1, <2>2, <2>3, <2>4, DeployTodos
<1>2. CASE SlasherCommand(o, c)
  <2>1. PICK fn \in Slashings : c.todo = <<fn>>
    BY <1>2 DEF SlasherCommand
  <2>2. Head(c.todo) = fn /\ c.coord \in Deployed(o)
    BY <1>2, <2>1, Todos DEF SlasherCommand
  <2>3. Sent(c) = [fn |-> fn, at |-> c.coord]
    BY <2>2 DEF Sent, Slashings
  <2> QED
    BY <2>2, <2>3 DEF OwnerTx
<1>3. CASE SubmitCommand(o, c)
  <2>1. /\ c.todo \in {<<"setGenesisModelIpfsHash", "setTier2Score">>, <<"setTier2Score">>}
        /\ c.coord \in Deployed(o) /\ c.cid \in CIDs
        /\ c.todo[1] = "setTier2Score" => Holds(o, c.coord, c.cid)
    BY <1>3 DEF SubmitCommand
  <2>2. Head(c.todo) = c.todo[1] /\ Head(c.todo) \in Submissions
    BY <2>1, Todos DEF Submissions
  <2>3. Sent(c) = [fn |-> Head(c.todo), at |-> c.coord, cid |-> c.cid]
    BY <2>2 DEF Sent, Submissions
  <2> QED
    BY <2>1, <2>2, <2>3 DEF OwnerTx
<1>4. CASE RequestCommand(o, c)
  <2>1. c.todo = <<"requestModelRegistration">> /\ RequestTx(o, c.tx)
    BY <1>4 DEF RequestCommand
  <2>2. Head(c.todo) = "requestModelRegistration"
    BY <2>1, Todos
  <2>3. Sent(c) = c.tx
    BY <2>2 DEF Sent
  <2> QED
    BY <2>1, <2>3 DEF OwnerTx
<1> QED
  BY <1>1, <1>2, <1>3, <1>4 DEF OwnerCommandOK

LEMMA RepSends ==
    ASSUME NEW c, RepCommandOK(c)
    PROVE  RepTx(Sent(c)) /\ Sent(c) = c.tx /\ c.todo = <<c.tx.fn>> /\ c.tx.fn \in RepCalls
<1>1. RepTx(c.tx) /\ c.todo = <<c.tx.fn>>
  BY DEF RepCommandOK
<1>2. c.tx.fn \in RepCalls
  BY <1>1 DEF RepTx, ApproveTx, RepCalls
<1>3. Head(c.todo) = c.tx.fn
  BY <1>1, Todos
<1>4. Sent(c) = c.tx
  BY <1>2, <1>3 DEF Sent, RepCalls
<1> QED
  BY <1>1, <1>2, <1>4

-----------------------------------------------------------------------------
(* The steps. *)

RegInv ==
    /\ ChainOK /\ EnvOK /\ ReportedOK
    /\ pool = [a \in Accounts |-> pool[a]] /\ PoolOK
    /\ DOMAIN command = Accounts /\ CommandsOK

\* The other accounts do not notice a step, unless it approves a model.
LEMMA CommandStays ==
    ASSUME ContractsOK, ContractsOK', ContractsGrow, RequestsOK, RequestsOK', RequestsGrow,
           NEW a \in Accounts, CommandOK(a), command'[a] = command[a], pool'[a] = pool[a],
           a = Rep => UNCHANGED models
    PROVE  CommandOK(a)'
<1> SUFFICES ASSUME command'[a] # Idle PROVE CommandOK(a)'
  BY DEF CommandOK
<1>1. PICK c : c = command[a] /\ c = command'[a]
  OBVIOUS
<1>2. IF a = Rep THEN RepCommandOK(c) ELSE OwnerCommandOK(a, c)
  BY <1>1 DEF CommandOK
<1>3. c.sent => pool'[a] = Sent(c)
  BY <1>1, TxOfIsSent DEF CommandOK
<1>4. a = Rep => RepCommandOK(c)'
  <2> SUFFICES ASSUME a = Rep PROVE RepCommandOK(c)'
    OBVIOUS
  <2>1. RepCommandOK(c)
    BY <1>2
  <2>2. c.tx.fn = "approveModel" /\ ~c.tx.excused => c.sent \/ pool'[Rep] = NoTx
    BY <2>1 DEF RepCommandOK
  <2> QED
    BY <2>1, <2>2, RepCommandKeeps
<1>5. a # Rep => OwnerCommandOK(a, c)'
  BY <1>2, OwnerCommandKeeps DEF Accounts
<1>6. TxOf(a)' = Sent(c)
  BY <1>1 DEF TxOf, Sent
<1> QED
  BY <1>1, <1>3, <1>4, <1>5, <1>6 DEF CommandOK

LEMMA TxStays ==
    ASSUME ContractsOK, ContractsOK', ContractsGrow, RequestsOK, RequestsOK', RequestsGrow,
           NEW a \in Accounts, NEW tx, TxFor(a, tx), a = Rep => UNCHANGED models
    PROVE  TxFor(a, tx)'
<1>1. CASE a = Rep
  BY <1>1, RepTxKeeps DEF TxFor
<1>2. CASE a # Rep
  BY <1>2, OwnerTxKeeps DEF TxFor, Accounts
<1> QED
  BY <1>1, <1>2

\* The pool, where at most the transaction of one account is new.
LEMMA PoolStep ==
    ASSUME RegInv, ChainOK', ContractsGrow, RequestsGrow, NEW a \in Accounts, NEW tx,
           pool' = [pool EXCEPT ![a] = tx], tx # NoTx => TxFor(a, tx)',
           a = Rep \/ UNCHANGED models
    PROVE  pool' = [b \in Accounts |-> pool'[b]] /\ PoolOK'
<1>1. DOMAIN pool = Accounts /\ pool' = [b \in Accounts |-> pool'[b]]
  BY DEF RegInv
<1>2. ASSUME NEW b \in Accounts, NEW t, t = pool'[b], t # NoTx
      PROVE  TxFor(b, t)'
  <2>1. CASE b = a
    <3>1. t = tx
      BY <1>1, <1>2, <2>1
    <3> QED
      BY <1>2, <2>1, <3>1
  <2>2. CASE b # a
    <3>1. t = pool[b]
      BY <1>1, <1>2, <2>2
    <3>2. TxFor(b, t)
      BY <1>2, <3>1 DEF RegInv, PoolOK, TxFor
    <3> QED
      BY <2>2, <3>2, TxStays DEF RegInv, ChainOK
  <2> QED
    BY <2>1, <2>2
<1> QED
  BY <1>1, <1>2 DEF PoolOK, TxFor

LEMMA CommandsStep ==
    ASSUME RegInv, ChainOK', ContractsGrow, RequestsGrow, NEW a \in Accounts, NEW c, NEW tx,
           command' = [command EXCEPT ![a] = c], pool' = [pool EXCEPT ![a] = tx], CommandOK(a)',
           a = Rep \/ UNCHANGED models
    PROVE  DOMAIN command' = Accounts /\ CommandsOK'
<1>1. DOMAIN command = Accounts /\ DOMAIN command' = Accounts /\ DOMAIN pool = Accounts
  BY DEF RegInv
<1>2. ASSUME NEW b \in Accounts, b # a
      PROVE  CommandOK(b)'
  <2>1. command'[b] = command[b] /\ pool'[b] = pool[b]
    BY <1>1, <1>2
  <2> QED
    BY <1>2, <2>1, CommandStays DEF RegInv, ChainOK, CommandsOK
<1> QED
  BY <1>1, <1>2 DEF CommandsOK

LEMMA IdleIsOK ==
    ASSUME NEW a, command'[a] = Idle PROVE CommandOK(a)'
  BY DEF CommandOK

\* An account's own entries when they do not change.
LEMMA SamePool ==
    ASSUME RegInv, NEW a \in Accounts, UNCHANGED pool
    PROVE  pool' = [pool EXCEPT ![a] = pool[a]] /\ (pool[a] # NoTx => TxFor(a, pool[a]))
  BY DEF RegInv, PoolOK, TxFor

\* A step that ends a command and leaves the chain alone.
LEMMA QuitStep ==
    ASSUME RegInv, NEW a \in Accounts, Quit(a), UNCHANGED <<chain, pool>>
    PROVE  RegInv'
<1>1. ChainOK' /\ ContractsGrow /\ RequestsGrow /\ UNCHANGED models
  BY ChainStays DEF RegInv
<1>2. /\ command' = [command EXCEPT ![a] = Idle] /\ UNCHANGED <<env, reported>>
  BY DEF Quit
<1>3. EnvOK' /\ ReportedOK'
  BY <1>1, <1>2, EnvKeeps, ReportedKeeps DEF RegInv, ChainOK
<1>4. command'[a] = Idle
  BY <1>2 DEF RegInv
<1>5. PICK tx : /\ tx = pool[a] /\ pool' = [pool EXCEPT ![a] = tx]
                /\ tx # NoTx => TxFor(a, tx)
  BY SamePool
<1>6. tx # NoTx => TxFor(a, tx)'
  BY <1>1, <1>5, TxStays DEF RegInv, ChainOK
<1>7. pool' = [b \in Accounts |-> pool'[b]] /\ PoolOK'
  BY <1>1, <1>5, <1>6, PoolStep
<1>8. DOMAIN command' = Accounts /\ CommandsOK'
  BY <1>1, <1>2, <1>4, <1>5, IdleIsOK, CommandsStep
<1> QED
  BY <1>1, <1>3, <1>7, <1>8 DEF RegInv

\* A command begins.
LEMMA RunStep ==
    ASSUME RegInv, NEW a \in Accounts, NEW c, Runs(a, c), ~c.sent,
           IF a = Rep THEN RepCommandOK(c) ELSE OwnerCommandOK(a, c)
    PROVE  RegInv'
<1>1. /\ command' = [command EXCEPT ![a] = c]
      /\ UNCHANGED <<chain, pool, env, reported>>
  BY DEF Runs
<1>2. ChainOK' /\ ContractsGrow /\ RequestsGrow /\ UNCHANGED models
  BY <1>1, ChainStays DEF RegInv
<1>3. EnvOK' /\ ReportedOK'
  BY <1>1, <1>2, EnvKeeps, ReportedKeeps DEF RegInv, ChainOK
<1>4. command'[a] = c
  BY <1>1 DEF RegInv
<1>5. PICK tx : /\ tx = pool[a] /\ pool' = [pool EXCEPT ![a] = tx]
                /\ tx # NoTx => TxFor(a, tx)
  BY <1>1, SamePool
<1>6. tx # NoTx => TxFor(a, tx)'
  BY <1>2, <1>5, TxStays DEF RegInv, ChainOK
<1>7. pool' = [b \in Accounts |-> pool'[b]] /\ PoolOK'
  BY <1>2, <1>5, <1>6, PoolStep
<1>8. CommandOK(a)'
  <2>1. CASE a = Rep
    <3>1. RepCommandOK(c) /\ pool'[Rep] = pool[Rep]
      BY <1>1, <2>1
    <3>2. RepCommandOK(c)'
      BY <1>2, <3>1, RepCommandKeeps DEF RegInv, ChainOK, RepCommandOK
    <3> QED
      BY <1>4, <2>1, <3>2 DEF CommandOK
  <2>2. CASE a # Rep
    <3>1. OwnerCommandOK(a, c)'
      BY <1>2, <2>2, OwnerCommandKeeps DEF RegInv, ChainOK, Accounts
    <3> QED
      BY <1>4, <2>2, <3>1 DEF CommandOK
  <2> QED
    BY <2>1, <2>2
<1>9. DOMAIN command' = Accounts /\ CommandsOK'
  BY <1>1, <1>2, <1>5, <1>8, CommandsStep
<1> QED
  BY <1>2, <1>3, <1>7, <1>9 DEF RegInv

-----------------------------------------------------------------------------
(* A transaction goes out. *)

SentNow(c) == [c EXCEPT !.sent = TRUE]

LEMMA RecordMarked ==
    ASSUME NEW n, NEW u, NEW t, NEW s \in BOOLEAN, NEW c,
           c = [name |-> n, todo |-> u, tx |-> t, sent |-> s]
    PROVE  [c EXCEPT !.sent = TRUE] = [name |-> n, todo |-> u, tx |-> t, sent |-> TRUE]
<1>1. c \in [name : {n}, todo : {u}, tx : {t}, sent : BOOLEAN]
  OBVIOUS
<1>2. PICK d : d = [c EXCEPT !.sent = TRUE]
  OBVIOUS
<1>3. d = [name |-> c.name, todo |-> c.todo, tx |-> c.tx, sent |-> TRUE]
  BY <1>1, <1>2
<1>4. c.name = n /\ c.todo = u /\ c.tx = t
  OBVIOUS
<1> QED
  BY <1>2, <1>3, <1>4

LEMMA OwnerMarked ==
    ASSUME NEW o \in Owners, NEW c, OwnerCommandOK(o, c)
    PROVE  OwnerCommandOK(o, SentNow(c)) /\ Sent(SentNow(c)) = Sent(c)
<1>1. PICK d : d = SentNow(c)
  OBVIOUS
<1>2. CASE DeployCommand(o, c)
  <2>1. d = [name |-> c.name, kind |-> c.kind, id |-> c.id, coord |-> c.coord, new |-> c.new,
             todo |-> c.todo, sent |-> TRUE]
    BY <1>1, <1>2 DEF SentNow, DeployCommand
  <2>2. DeployCommand(o, d)
    BY <1>2, <2>1 DEF DeployCommand
  <2>3. Sent(d) = Sent(c)
    BY <1>2, <2>1, DeployTodos DEF Sent
  <2> QED
    BY <1>1, <2>2, <2>3 DEF OwnerCommandOK
<1>3. CASE SlasherCommand(o, c)
  <2>1. d = [name |-> c.name, todo |-> c.todo, coord |-> c.coord, sent |-> TRUE]
    BY <1>1, <1>3 DEF SentNow, SlasherCommand
  <2>2. SlasherCommand(o, d)
    BY <1>3, <2>1 DEF SlasherCommand
  <2>3. Head(c.todo) \in Slashings
    BY <1>3, Todos DEF SlasherCommand
  <2>4. Sent(d) = Sent(c)
    BY <2>1, <2>3 DEF Sent, Slashings
  <2> QED
    BY <1>1, <2>2, <2>4 DEF OwnerCommandOK
<1>4. CASE SubmitCommand(o, c)
  <2>1. d = [name |-> c.name, todo |-> c.todo, coord |-> c.coord, cid |-> c.cid, sent |-> TRUE]
    BY <1>1, <1>4 DEF SentNow, SubmitCommand
  <2>2. SubmitCommand(o, d)
    BY <1>4, <2>1 DEF SubmitCommand
  <2>3. Head(c.todo) \in Submissions
    BY <1>4, Todos DEF SubmitCommand, Submissions
  <2>4. Sent(d) = Sent(c)
    BY <2>1, <2>3 DEF Sent, Submissions
  <2> QED
    BY <1>1, <2>2, <2>4 DEF OwnerCommandOK
<1>5. CASE RequestCommand(o, c)
  <2>1. c = [name |-> "request", todo |-> <<"requestModelRegistration">>, tx |-> c.tx,
             sent |-> c.sent]
    BY <1>5 DEF RequestCommand
  <2>2. d = [name |-> "request", todo |-> <<"requestModelRegistration">>, tx |-> c.tx,
             sent |-> TRUE]
    BY <1>1, <1>5, <2>1, RecordMarked DEF SentNow, RequestCommand
  <2>3. RequestCommand(o, d)
    BY <1>5, <2>2 DEF RequestCommand
  <2>4. Head(<<"requestModelRegistration">>) = "requestModelRegistration"
    BY Todos
  <2>5. Sent(d) = Sent(c)
    BY <2>1, <2>2, <2>4 DEF Sent
  <2> QED
    BY <1>1, <2>3, <2>5 DEF OwnerCommandOK
<1> QED
  BY <1>2, <1>3, <1>4, <1>5 DEF OwnerCommandOK

LEMMA SendStep ==
    ASSUME RegInv, NEW a \in Accounts, SendTx(a)
    PROVE  RegInv'
<1>1. CASE /\ pool' = [pool EXCEPT ![a] = TxOf(a)] /\ pool[a] = NoTx
           /\ command' = [command EXCEPT ![a].sent = TRUE]
           /\ UNCHANGED <<chain, env, reported, surprises>>
  <2>1. ChainOK' /\ ContractsGrow /\ RequestsGrow /\ UNCHANGED models
    BY <1>1, ChainStays DEF RegInv
  <2>2. EnvOK' /\ ReportedOK'
    BY <1>1, <2>1, EnvKeeps, ReportedKeeps DEF RegInv, ChainOK
  <2>3. PICK c : c = command[a]
    OBVIOUS
  <2>4. IF a = Rep THEN RepCommandOK(c) ELSE OwnerCommandOK(a, c)
    BY <2>3 DEF SendTx, Running, RegInv, CommandsOK, CommandOK
  <2>5. PICK d : d = SentNow(c)
    OBVIOUS
  <2>6. command' = [command EXCEPT ![a] = d] /\ command'[a] = d
    BY <1>1, <2>3, <2>5 DEF SentNow, RegInv
  <2>7. PICK tx : tx = Sent(c)
    OBVIOUS
  <2>8. pool' = [pool EXCEPT ![a] = tx] /\ pool'[a] = tx
    BY <1>1, <2>3, <2>7, TxOfIsSent DEF RegInv
  <2>9. TxFor(a, tx)
    BY <2>4, <2>7, RepSends, OwnerSends DEF TxFor, Accounts
  <2>10. pool' = [b \in Accounts |-> pool'[b]] /\ PoolOK'
    <3>1. TxFor(a, tx)'
      BY <2>1, <2>9, TxStays DEF RegInv, ChainOK
    <3> QED
      BY <2>1, <2>8, <3>1, PoolStep
  <2>11. CommandOK(a)'
    <3>1. CASE a = Rep
      <4>1. RepCommandOK(c)
        BY <2>4, <3>1
      <4>2. c = [name |-> c.tx.fn, todo |-> <<c.tx.fn>>, tx |-> c.tx, sent |-> c.sent]
        BY <4>1 DEF RepCommandOK
      <4>3. d = [name |-> c.tx.fn, todo |-> <<c.tx.fn>>, tx |-> c.tx, sent |-> TRUE]
        BY <2>5, <4>1, <4>2, RecordMarked DEF SentNow, RepCommandOK
      <4>4. RepCommandOK(d) /\ d.sent /\ d.tx = c.tx
        BY <4>1, <4>3 DEF RepCommandOK
      <4>5. Sent(d) = tx
        BY <2>7, <4>1, <4>4, RepSends
      <4>6. RepCommandOK(d)'
        BY <2>1, <4>4, RepCommandKeeps DEF RegInv, ChainOK
      <4>7. TxOf(a)' = Sent(d)
        BY <2>6 DEF TxOf, Sent
      <4> QED
        BY <2>6, <2>8, <3>1, <4>5, <4>6, <4>7 DEF CommandOK
    <3>2. CASE a # Rep
      <4>1. OwnerCommandOK(a, d) /\ Sent(d) = tx
        BY <2>4, <2>5, <2>7, <3>2, OwnerMarked DEF Accounts
      <4>2. OwnerCommandOK(a, d)'
        BY <2>1, <3>2, <4>1, OwnerCommandKeeps DEF RegInv, ChainOK, Accounts
      <4>3. TxOf(a)' = Sent(d)
        BY <2>6 DEF TxOf, Sent
      <4> QED
        BY <2>6, <2>8, <3>2, <4>1, <4>2, <4>3 DEF CommandOK
    <3> QED
      BY <3>1, <3>2
  <2>12. DOMAIN command' = Accounts /\ CommandsOK'
    BY <2>1, <2>6, <2>8, <2>11, CommandsStep
  <2> QED
    BY <2>1, <2>2, <2>10, <2>12 DEF RegInv
<1>2. CASE Quit(a) /\ UNCHANGED <<chain, pool>>
  BY <1>2, QuitStep
<1> QED
  BY <1>1, <1>2 DEF SendTx, OnFailure

-----------------------------------------------------------------------------
(* A transaction is mined, and its command goes on. *)

LEMMA EnvSaves ==
    ASSUME ContractsOK, ContractsOK', ContractsGrow, EnvOK, NEW o \in Owners,
           NEW new \in 0..Len(contracts'[o]),
           \/ env' = [env EXCEPT ![o].coord = new]
           \/ \E c \in 1..MaxContracts : env' = [env EXCEPT ![o].aud[c] = new]
    PROVE  EnvOK'
<1>1. \A p \in Owners : 0..Len(contracts[p]) \subseteq 0..Len(contracts'[p])
  BY DEF ContractsOK, ContractsGrow
<1>2. env[o] \in EnvType /\ new \in Nat
  BY DEF EnvOK
<1>3. PICK e : /\ e \in EnvType /\ env' = [env EXCEPT ![o] = e]
               /\ e.coord \in 0..Len(contracts'[o])
               /\ \A c \in 1..MaxContracts : e.aud[c] \in 0..Len(contracts'[o])
  <2>1. CASE env' = [env EXCEPT ![o].coord = new]
    <3>1. PICK e : e = [env[o] EXCEPT !.coord = new]
      OBVIOUS
    <3>2. e \in EnvType /\ e.coord = new /\ e.aud = env[o].aud
      BY <1>2, <3>1 DEF EnvType
    <3>3. env' = [env EXCEPT ![o] = e]
      BY <2>1, <3>1
    <3> QED
      BY <1>1, <3>2, <3>3 DEF EnvOK
  <2>2. CASE \E c \in 1..MaxContracts : env' = [env EXCEPT ![o].aud[c] = new]
    <3>1. PICK c \in 1..MaxContracts : env' = [env EXCEPT ![o].aud[c] = new]
      BY <2>2
    <3>2. PICK f : f = [env[o].aud EXCEPT ![c] = new]
      OBVIOUS
    <3>3. /\ f \in [1..MaxContracts -> Nat] /\ f[c] = new
          /\ \A i \in 1..MaxContracts : i # c => f[i] = env[o].aud[i]
      BY <1>2, <3>2 DEF EnvType
    <3>4. PICK e : e = [env[o] EXCEPT !.aud = f]
      OBVIOUS
    <3>5. e \in EnvType /\ e.coord = env[o].coord /\ e.aud = f
      BY <1>2, <3>3, <3>4 DEF EnvType
    <3>6. env' = [env EXCEPT ![o] = e]
      BY <3>1, <3>2, <3>4
    <3>7. env[o].coord \in 0..Len(contracts'[o])
      BY <1>1 DEF EnvOK
    <3>8. \A i \in 1..MaxContracts : f[i] \in 0..Len(contracts'[o])
      BY <1>1, <3>3 DEF EnvOK
    <3> QED
      BY <3>5, <3>6, <3>7, <3>8
  <2> QED
    BY <2>1, <2>2
<1>4. env' \in [Owners -> EnvType] /\ env'[o] = e
  BY <1>3 DEF EnvOK
<1>5. \A p \in Owners : p # o => env'[p] = env[p]
  BY <1>3 DEF EnvOK
<1>6. ASSUME NEW p \in Owners
      PROVE  /\ env'[p].coord \in 0..Len(contracts'[p])
             /\ \A c \in 1..MaxContracts : env'[p].aud[c] \in 0..Len(contracts'[p])
  <2>1. CASE p = o
    BY <1>3, <1>4, <2>1
  <2>2. CASE p # o
    BY <1>1, <1>5, <2>2 DEF EnvOK
  <2> QED
    BY <2>1, <2>2
<1> QED
  BY <1>4, <1>6 DEF EnvOK

\* What GoOn makes of a command that goes on after another transaction than a
\* deployment, and of one that has none left.
LEMMA GoesOn ==
    ASSUME NEW a, GoOn(a), NEW c, c = command[a], {"todo", "sent"} \subseteq DOMAIN c,
           Head(c.todo) # "deploy"
    PROVE  /\ UNCHANGED env
           /\ Tail(c.todo) = <<>> => command' = [command EXCEPT ![a] = Idle]
           /\ Tail(c.todo) # <<>> =>
                 command' = [command EXCEPT ![a] = [c EXCEPT !.todo = Tail(c.todo), !.sent = FALSE]]
           /\ reported' = IF Tail(c.todo) = <<>> /\ c.name = "deploy"
                          THEN reported \cup {<<a, c.new>>} ELSE reported
<1>1. PICK d : d = [c EXCEPT !.todo = Tail(c.todo), !.sent = FALSE]
  OBVIOUS
<1>2. d.todo = Tail(c.todo)
  BY <1>1
<1>3. command' = [command EXCEPT ![a] = IF d.todo = <<>> THEN Idle ELSE d]
  BY <1>1 DEF GoOn
<1>4. reported' = IF d.todo = <<>> /\ c.name = "deploy"
                  THEN reported \cup {<<a, c.new>>} ELSE reported
  BY <1>1 DEF GoOn
<1>5. UNCHANGED env
  BY DEF GoOn
<1> QED
  BY <1>1, <1>2, <1>3, <1>4, <1>5

GoneOn(a) ==
    /\ EnvOK' /\ ReportedOK'
    /\ \E d : /\ command' = [command EXCEPT ![a] = d]
              /\ d = Idle \/ (OwnerCommandOK(a, d)' /\ ~d.sent)

LEMMA DeployGoesOn ==
    ASSUME RegInv, NEW a \in Owners, NEW c, c = command[a], DeployCommand(a, c),
           NEW tx, tx = Sent(c), OwnerTx(a, tx), Succeeds(a, tx), Execute(a, tx), GoOn(a),
           ContractsOK', ContractsGrow
    PROVE  GoneOn(a)
<1>1. /\ ContractsOK /\ EnvOK /\ ReportedOK
      /\ Deployed(a) \subseteq Deployed(a)'
      /\ \A i \in Deployed(a) : Later(contracts[a][i], contracts'[a][i])
  BY DeployedGrows DEF RegInv, ChainOK
<1>2. PICK n \in Nat : n = Len(contracts[a]) /\ n <= MaxContracts
  BY <1>1, SomeContract
<1>3. /\ c.name = "deploy" /\ c.kind \in Kinds /\ c.id \in Nat /\ c.coord \in Nat /\ c.new \in Nat
      /\ DOMAIN c = {"name", "kind", "id", "coord", "new", "todo", "sent"}
      /\ c.kind = "auditor" => c.coord \in Deployed(a)
      /\ c.todo[1] # "deploy" => c.new \in Deployed(a) /\ contracts[a][c.new].kind = c.kind
      /\ c.todo[1] = "setDINTaskAuditorContract" => contracts[a][c.new].token
  BY DEF DeployCommand
<1>4. CASE c.todo[1] = "deploy"
  <2>1. tx = [fn |-> "deploy", kind |-> c.kind, id |-> c.id]
    BY <1>4, DeployTodos DEF Sent
  <2>2. Len(contracts'[a]) = n + 1 /\ contracts'[a][n + 1].kind = c.kind
    BY <1>1, <1>2, <2>1, DeployCall
  <2>3. PICK t : t = Tail(c.todo)
    OBVIOUS
  <2>4. t \in DeployTodo(c.kind) /\ t[1] = "setDinToken" /\ t # <<>>
    <3>1. t = IF c.kind = "coordinator" THEN <<"setDinToken">>
              ELSE <<"setDinToken", "setDINTaskAuditorContract">>
      BY <1>4, <2>3, DeployTodos
    <3>2. CASE c.kind = "coordinator"
      BY <3>1, <3>2 DEF DeployTodo
    <3>3. CASE c.kind = "auditor"
      BY <3>1, <3>3 DEF DeployTodo
    <3> QED
      BY <1>3, <3>2, <3>3 DEF Kinds
  <2>5. PICK d : d = [c EXCEPT !.todo = t, !.sent = FALSE, !.new = n + 1]
    OBVIOUS
  <2>6. d = [name |-> "deploy", kind |-> c.kind, id |-> c.id, coord |-> c.coord, new |-> n + 1,
             todo |-> t, sent |-> FALSE]
    BY <2>5 DEF DeployCommand
  <2>7. Head(c.todo) = "deploy"
    BY <1>4, DeployTodos
  <2>8. /\ command' = [command EXCEPT ![a] = d]
        /\ SaveAddress(a, n + 1)
        /\ reported' = reported
    <3>1. d = [c EXCEPT !.todo = Tail(c.todo), !.sent = FALSE, !.new = Len(contracts'[a])]
      BY <2>2, <2>3, <2>5
    <3>2. d.todo # <<>>
      BY <2>4, <2>6
    <3>3. command' = [command EXCEPT ![a] = IF d.todo = <<>> THEN Idle ELSE d]
      BY <2>7, <3>1 DEF GoOn
    <3>4. SaveAddress(a, Len(contracts'[a]))
      BY <2>7 DEF GoOn
    <3>5. reported' = IF d.todo = <<>> /\ c.name = "deploy"
                      THEN reported \cup {<<a, c.new>>} ELSE reported
      BY <2>7, <3>1 DEF GoOn
    <3> QED
      BY <2>2, <3>2, <3>3, <3>4, <3>5
  <2>9. d.new \in Deployed(a)' /\ contracts'[a][d.new].kind = d.kind
    BY <1>2, <2>2, <2>6 DEF Deployed
  <2>10. DeployCommand(a, d)'
    <3>1. d \in [name : {"deploy"}, kind : Kinds, id : Nat, coord : Nat, new : Nat,
                 todo : DeployTodo("coordinator") \cup DeployTodo("auditor"), sent : BOOLEAN]
      BY <1>2, <1>3, <2>4, <2>6 DEF Kinds
    <3>2. d.todo \in DeployTodo(d.kind) /\ d.todo[1] = "setDinToken"
      BY <2>4, <2>6
    <3>3. d.kind = "auditor" => d.coord \in Deployed(a)'
      BY <1>1, <1>3, <2>6
    <3> QED
      BY <2>9, <3>1, <3>2, <3>3 DEF DeployCommand
  <2>11. ReportedOK'
    BY <1>1, <2>8, ReportedKeeps
  <2>12. EnvOK'
    <3>1. n + 1 \in 0..Len(contracts'[a])
      BY <1>2, <2>2
    <3>2. c.kind # "coordinator" => c.coord \in 1..MaxContracts
      <4>1. c.kind # "coordinator" => c.coord \in Deployed(a)
        BY <1>3 DEF Kinds
      <4>2. Deployed(a) \subseteq 1..MaxContracts
        BY <1>2, RegistrationAssumption DEF Deployed, RegistrationAssumption
      <4> QED
        BY <4>1, <4>2
    <3>3. \/ env' = [env EXCEPT ![a].coord = n + 1]
          \/ c.coord \in 1..MaxContracts /\ env' = [env EXCEPT ![a].aud[c.coord] = n + 1]
      BY <2>8, <3>2 DEF SaveAddress
    <3>4. PICK new : new = n + 1
      OBVIOUS
    <3>5. /\ new \in 0..Len(contracts'[a])
          /\ \/ env' = [env EXCEPT ![a].coord = new]
             \/ \E i \in 1..MaxContracts : env' = [env EXCEPT ![a].aud[i] = new]
      BY <3>1, <3>3, <3>4
    <3> QED
      BY <1>1, <3>5, EnvSaves
  <2>13. OwnerCommandOK(a, d)' /\ ~d.sent
    BY <2>6, <2>10 DEF OwnerCommandOK
  <2> QED
    BY <2>8, <2>11, <2>12, <2>13 DEF GoneOn
<1>5. CASE c.todo[1] = "setDinToken"
  <2>1. tx = [fn |-> "setDinToken", at |-> c.new]
    BY <1>5, DeployTodos DEF Sent
  <2>2. OnContract(a, tx)
    BY <2>1 DEF Execute, ContractCalls
  <2>3. tx.fn \in ContractCalls
    BY <2>1 DEF ContractCalls
  <2>4. contracts'[a][c.new].token
    BY <1>1, <2>1, <2>2, <2>3, ContractCall
  <2>5. c.new \in Deployed(a) /\ c.new \in Deployed(a)' /\ contracts'[a][c.new].kind = c.kind
    BY <1>1, <1>3, <1>5 DEF Later
  <2>6. Head(c.todo) # "deploy" /\ {"todo", "sent"} \subseteq DOMAIN c
    BY <1>3, <1>5, DeployTodos
  <2>7. EnvOK'
    BY <1>1, <2>6, EnvKeeps, GoesOn
  <2>8. CASE c.kind = "coordinator"
    <3>1. Tail(c.todo) = <<>>
      BY <1>5, <2>8, DeployTodos
    <3>2. command' = [command EXCEPT ![a] = Idle] /\ reported' = reported \cup {<<a, c.new>>}
      BY <1>3, <2>6, <3>1, GoesOn
    <3>3. contracts'[a][c.new].kind # "auditor"
      BY <2>5, <2>8
    <3>4. ReportedOK'
      BY <1>1, <1>3, <2>4, <2>5, <3>2, <3>3, ReportedMore
    <3> QED
      BY <2>7, <3>2, <3>4 DEF GoneOn
  <2>9. CASE c.kind = "auditor"
    <3>1. PICK t : t = Tail(c.todo)
      OBVIOUS
    <3>2. t = <<"setDINTaskAuditorContract">> /\ t # <<>> /\ t[1] = "setDINTaskAuditorContract"
      <4>1. t = <<"setDINTaskAuditorContract">>
        BY <1>5, <2>9, <3>1, DeployTodos
      <4> QED
        BY <4>1
    <3>3. PICK d : d = [c EXCEPT !.todo = t, !.sent = FALSE]
      OBVIOUS
    <3>4. command' = [command EXCEPT ![a] = d] /\ reported' = reported
      <4>1. d = [c EXCEPT !.todo = Tail(c.todo), !.sent = FALSE] /\ Tail(c.todo) # <<>>
        BY <3>1, <3>2, <3>3
      <4> QED
        BY <2>6, <4>1, GoesOn
    <3>5. d = [name |-> "deploy", kind |-> c.kind, id |-> c.id, coord |-> c.coord,
               new |-> c.new, todo |-> t, sent |-> FALSE]
      BY <3>3 DEF DeployCommand
    <3>6. t \in DeployTodo(c.kind)
      BY <2>9, <3>2 DEF DeployTodo
    <3>7. d \in [name : {"deploy"}, kind : Kinds, id : Nat, coord : Nat, new : Nat,
                 todo : DeployTodo("coordinator") \cup DeployTodo("auditor"), sent : BOOLEAN]
      BY <1>3, <2>9, <3>5, <3>6
    <3>8. DeployCommand(a, d)'
      BY <1>1, <1>3, <2>4, <2>5, <3>2, <3>5, <3>6, <3>7 DEF DeployCommand
    <3>9. ReportedOK'
      BY <1>1, <3>4, ReportedKeeps
    <3>10. OwnerCommandOK(a, d)' /\ ~d.sent
      BY <3>5, <3>8 DEF OwnerCommandOK
    <3> QED
      BY <2>7, <3>4, <3>9, <3>10 DEF GoneOn
  <2> QED
    BY <1>3, <2>8, <2>9 DEF Kinds
<1>6. CASE c.todo[1] = "setDINTaskAuditorContract"
  <2>1. tx = [fn |-> "setDINTaskAuditorContract", at |-> c.coord, aud |-> c.new]
    BY <1>6, DeployTodos DEF Sent
  <2>2. OnContract(a, tx)
    BY <2>1 DEF Execute, ContractCalls
  <2>3. tx.fn \in ContractCalls
    BY <2>1 DEF ContractCalls
  <2>4. /\ c.coord \in Deployed(a)
        /\ contracts'[a][c.coord].stage = 1 /\ contracts'[a][c.coord].auditor = c.new
    BY <1>1, <2>1, <2>2, <2>3, ContractCall
  <2>5. c.new \in Deployed(a)' /\ contracts'[a][c.new].token
    BY <1>1, <1>3, <1>6 DEF Later
  <2>6. \E i \in Deployed(a)' : contracts'[a][i].stage > 0 /\ contracts'[a][i].auditor = c.new
    BY <1>1, <2>4
  <2>7. Head(c.todo) # "deploy" /\ {"todo", "sent"} \subseteq DOMAIN c
    BY <1>3, <1>6, DeployTodos
  <2>8. Tail(c.todo) = <<>>
    BY <1>6, DeployTodos
  <2>9. /\ UNCHANGED env /\ command' = [command EXCEPT ![a] = Idle]
        /\ reported' = reported \cup {<<a, c.new>>}
    BY <1>3, <2>7, <2>8, GoesOn
  <2>10. EnvOK'
    BY <1>1, <2>9, EnvKeeps
  <2>11. ReportedOK'
    BY <1>1, <1>3, <2>5, <2>6, <2>9, ReportedMore
  <2> QED
    BY <2>9, <2>10, <2>11 DEF GoneOn
<1> QED
  BY <1>4, <1>5, <1>6, DeployTodos

LEMMA OwnerGoesOn ==
    ASSUME RegInv, NEW a \in Owners, NEW c, c = command[a], OwnerCommandOK(a, c),
           NEW tx, tx = Sent(c), OwnerTx(a, tx), Succeeds(a, tx), Execute(a, tx), GoOn(a),
           ContractsOK', ContractsGrow
    PROVE  GoneOn(a)
<1>1. ContractsOK /\ EnvOK /\ ReportedOK
  BY DEF RegInv, ChainOK
<1>2. CASE DeployCommand(a, c)
  BY <1>2, DeployGoesOn
<1>3. CASE SlasherCommand(a, c) \/ RequestCommand(a, c)
  <2>1. /\ Head(c.todo) # "deploy" /\ Tail(c.todo) = <<>> /\ c.name # "deploy"
        /\ {"todo", "sent"} \subseteq DOMAIN c
    <3>1. CASE SlasherCommand(a, c)
      <4>1. PICK fn \in Slashings : c.todo = <<fn>>
        BY <3>1 DEF SlasherCommand
      <4>2. Head(c.todo) = fn /\ Tail(c.todo) = <<>>
        BY <4>1, Todos
      <4> QED
        BY <3>1, <4>2 DEF SlasherCommand, Slashings
    <3>2. CASE RequestCommand(a, c)
      <4>1. c.todo = <<"requestModelRegistration">> /\ c.name = "request"
        BY <3>2 DEF RequestCommand
      <4>2. Head(c.todo) = "requestModelRegistration" /\ Tail(c.todo) = <<>>
        BY <4>1, Todos
      <4>3. DOMAIN c = {"name", "todo", "tx", "sent"}
        <5>1. PICK n, u, t, s : c = [name |-> n, todo |-> u, tx |-> t, sent |-> s]
          BY <3>2 DEF RequestCommand
        <5> QED
          BY <5>1
      <4> QED
        BY <4>1, <4>2, <4>3
    <3> QED
      BY <1>3, <3>1, <3>2
  <2>2. UNCHANGED <<env, reported>> /\ command' = [command EXCEPT ![a] = Idle]
    BY <2>1, GoesOn
  <2>3. EnvOK' /\ ReportedOK'
    BY <1>1, <2>2, EnvKeeps, ReportedKeeps
  <2> QED
    BY <2>2, <2>3 DEF GoneOn
<1>4. CASE SubmitCommand(a, c)
  <2>1. /\ c.todo \in {<<"setGenesisModelIpfsHash", "setTier2Score">>, <<"setTier2Score">>}
        /\ c.coord \in Deployed(a) /\ c.cid \in CIDs /\ c.name = "submit"
        /\ DOMAIN c = {"name", "coord", "cid", "sent", "todo"}
    BY <1>4 DEF SubmitCommand
  <2>2. CASE c.todo = <<"setTier2Score">>
    <3>1. Head(c.todo) # "deploy" /\ Tail(c.todo) = <<>>
      BY <2>2, Todos
    <3>2. UNCHANGED <<env, reported>> /\ command' = [command EXCEPT ![a] = Idle]
      BY <2>1, <3>1, GoesOn
    <3>3. EnvOK' /\ ReportedOK'
      BY <1>1, <3>2, EnvKeeps, ReportedKeeps
    <3> QED
      BY <3>2, <3>3 DEF GoneOn
  <2>3. CASE c.todo = <<"setGenesisModelIpfsHash", "setTier2Score">>
    <3>1. /\ Head(c.todo) = "setGenesisModelIpfsHash" /\ Tail(c.todo) = <<"setTier2Score">>
          /\ Tail(c.todo) # <<>>
      BY <2>3, Todos
    <3>2. PICK t : t = Tail(c.todo)
      OBVIOUS
    <3>3. t = <<"setTier2Score">> /\ t[1] = "setTier2Score"
      BY <3>1, <3>2, Todos
    <3>4. PICK d : d = [c EXCEPT !.todo = t, !.sent = FALSE]
      OBVIOUS
    <3>5. UNCHANGED <<env, reported>> /\ command' = [command EXCEPT ![a] = d]
      <4>1. d = [c EXCEPT !.todo = Tail(c.todo), !.sent = FALSE]
        BY <3>2, <3>4
      <4>2. {"todo", "sent"} \subseteq DOMAIN c
        BY <2>1
      <4>3. Head(c.todo) # "deploy" /\ c.name # "deploy" /\ Tail(c.todo) # <<>>
        BY <2>1, <3>1
      <4>4. /\ UNCHANGED env
            /\ Tail(c.todo) # <<>> =>
                  command' = [command EXCEPT ![a] = [c EXCEPT !.todo = Tail(c.todo), !.sent = FALSE]]
            /\ reported' = IF Tail(c.todo) = <<>> /\ c.name = "deploy"
                           THEN reported \cup {<<a, c.new>>} ELSE reported
        BY <4>2, <4>3, GoesOn
      <4> QED
        BY <4>1, <4>3, <4>4
    <3>6. d = [name |-> "submit", coord |-> c.coord, cid |-> c.cid, sent |-> FALSE, todo |-> t]
      BY <3>4, <1>4 DEF SubmitCommand
    <3>7. tx = [fn |-> "setGenesisModelIpfsHash", at |-> c.coord, cid |-> c.cid]
      BY <3>1 DEF Sent
    <3>8. OnContract(a, tx) /\ tx.fn \in ContractCalls
      BY <3>7 DEF Execute, ContractCalls
    <3>9. Holds(a, c.coord, c.cid)'
      <4>1. contracts'[a][c.coord].stage = 4 /\ contracts'[a][c.coord].genesis = c.cid
        BY <1>1, <3>7, <3>8, ContractCall
      <4> QED
        BY <4>1 DEF Holds
    <3>10. c.coord \in Deployed(a)'
      BY <1>1, <2>1, DeployedGrows
    <3>11. SubmitCommand(a, d)'
      BY <2>1, <3>3, <3>6, <3>9, <3>10 DEF SubmitCommand
    <3>12. OwnerCommandOK(a, d)' /\ ~d.sent
      BY <3>6, <3>11 DEF OwnerCommandOK
    <3>13. EnvOK' /\ ReportedOK'
      BY <1>1, <3>5, EnvKeeps, ReportedKeeps
    <3> QED
      BY <3>5, <3>12, <3>13 DEF GoneOn
  <2> QED
    BY <2>1, <2>2, <2>3
<1> QED
  BY <1>2, <1>3, <1>4 DEF OwnerCommandOK

LEMMA RepGoesOn ==
    ASSUME NEW c, c = command[Rep], RepCommandOK(c), GoOn(Rep)
    PROVE  UNCHANGED <<env, reported>> /\ command' = [command EXCEPT ![Rep] = Idle]
<1>1. c.todo = <<c.tx.fn>> /\ c.tx.fn \in RepCalls /\ c.name = c.tx.fn
  BY RepSends DEF RepCommandOK
<1>2. Head(c.todo) = c.tx.fn /\ Tail(c.todo) = <<>>
  BY <1>1, Todos
<1>3. Head(c.todo) # "deploy" /\ c.name # "deploy"
  BY <1>1, <1>2 DEF RepCalls
<1>4. {"todo", "sent"} \subseteq DOMAIN c
  <2>1. PICK n, u, t, s : c = [name |-> n, todo |-> u, tx |-> t, sent |-> s]
    BY DEF RepCommandOK
  <2> QED
    BY <2>1
<1> QED
  BY <1>2, <1>3, <1>4, GoesOn

\* A command that does not wait for the transaction that is mined.
LEMMA BystanderKeeps ==
    ASSUME RegInv, ChainOK', ContractsGrow, RequestsGrow, NEW a \in Accounts, pool[a] # NoTx,
           ~Waiting(a), command' = command,
           a = Rep \/ UNCHANGED models
    PROVE  CommandOK(a)'
<1> SUFFICES ASSUME command[a] # Idle PROVE CommandOK(a)'
  BY DEF CommandOK
<1>1. PICK c : c = command[a] /\ c = command'[a]
  OBVIOUS
<1>2. IF a = Rep THEN RepCommandOK(c) ELSE OwnerCommandOK(a, c)
  BY <1>1 DEF RegInv, CommandsOK, CommandOK
<1>3. ~c.sent
  BY <1>1 DEF Waiting, Running
<1>4. CASE a = Rep
  <2>1. RepCommandOK(c)
    BY <1>2, <1>4
  <2>2. ~(c.tx.fn = "approveModel" /\ ~c.tx.excused)
    BY <1>3, <1>4, <2>1 DEF RepCommandOK
  <2>3. RepCommandOK(c)'
    BY <2>1, <2>2, RepCommandKeeps DEF RegInv, ChainOK
  <2> QED
    BY <1>1, <1>3, <1>4, <2>3 DEF CommandOK
<1>5. CASE a # Rep
  <2>1. OwnerCommandOK(a, c)'
    BY <1>2, <1>5, OwnerCommandKeeps DEF RegInv, ChainOK, Accounts
  <2> QED
    BY <1>1, <1>3, <1>5, <2>1 DEF CommandOK
<1> QED
  BY <1>4, <1>5

LEMMA MineStep ==
    ASSUME RegInv, NEW a \in Accounts, MineTx(a)
    PROVE  RegInv'
<1>1. PICK tx : tx = pool[a]
  OBVIOUS
<1>2. /\ tx # NoTx /\ pool' = [pool EXCEPT ![a] = NoTx]
      /\ IF Succeeds(a, tx) THEN Execute(a, tx) ELSE UNCHANGED chain
      /\ CASE Waiting(a) /\ Succeeds(a, tx) -> GoOn(a)
           [] Waiting(a) /\ ~Succeeds(a, tx) -> OnFailure(a)
           [] OTHER -> UNCHANGED <<command, env, reported>>
  BY <1>1 DEF MineTx
<1>3. TxFor(a, tx)
  BY <1>1, <1>2 DEF RegInv, PoolOK, TxFor
<1>4. ChainOK' /\ ContractsGrow /\ RequestsGrow /\ (a = Rep \/ UNCHANGED models)
  <2>1. CASE Succeeds(a, tx)
    <3>1. a # Rep => tx.fn # "approveModel"
      BY <1>3, TxKinds DEF OwnerCalls, ContractCalls
    <3> QED
      BY <1>2, <1>3, <2>1, <3>1, ChainStep DEF RegInv
  <2>2. CASE ~Succeeds(a, tx)
    BY <1>2, <2>2, ChainStays DEF RegInv
  <2> QED
    BY <2>1, <2>2
<1>5. pool' = [b \in Accounts |-> pool'[b]] /\ PoolOK'
  <2>1. PICK none : none = NoTx
    OBVIOUS
  <2> QED
    BY <1>2, <1>4, <2>1, PoolStep
<1>6. PICK none : none = NoTx /\ pool' = [pool EXCEPT ![a] = none]
  BY <1>2
<1>7. PICK c : c = command[a]
  OBVIOUS
<1>8. CASE Waiting(a) /\ Succeeds(a, tx)
  <2>1. GoOn(a) /\ Execute(a, tx)
    BY <1>2, <1>8
  <2>2. /\ IF a = Rep THEN RepCommandOK(c) ELSE OwnerCommandOK(a, c)
        /\ tx = Sent(c)
    BY <1>1, <1>7, <1>8, TxOfIsSent DEF Waiting, Running, RegInv, CommandsOK, CommandOK
  <2>3. CASE a = Rep
    <3>1. UNCHANGED <<env, reported>> /\ command' = [command EXCEPT ![a] = Idle]
      BY <1>7, <2>1, <2>2, <2>3, RepGoesOn
    <3>2. EnvOK' /\ ReportedOK'
      BY <1>4, <3>1, EnvKeeps, ReportedKeeps DEF RegInv, ChainOK
    <3>3. CommandOK(a)'
      BY <3>1, IdleIsOK DEF RegInv
    <3>4. PICK d : d = Idle /\ command' = [command EXCEPT ![a] = d]
      BY <3>1
    <3>5. DOMAIN command' = Accounts /\ CommandsOK'
      BY <1>4, <1>6, <3>3, <3>4, CommandsStep
    <3> QED
      BY <1>4, <1>5, <3>2, <3>5 DEF RegInv
  <2>4. CASE a # Rep
    <3>1. a \in Owners /\ OwnerTx(a, tx) /\ OwnerCommandOK(a, c)
      BY <1>3, <2>2, <2>4 DEF TxFor, Accounts
    <3>2. GoneOn(a)
      BY <1>4, <1>7, <1>8, <2>1, <2>2, <3>1, OwnerGoesOn DEF ChainOK
    <3>3. PICK d : /\ command' = [command EXCEPT ![a] = d]
                   /\ d = Idle \/ (OwnerCommandOK(a, d)' /\ ~d.sent)
      BY <3>2 DEF GoneOn
    <3>4. command'[a] = d
      BY <3>3 DEF RegInv
    <3>5. CommandOK(a)'
      BY <2>4, <3>3, <3>4 DEF CommandOK
    <3>6. DOMAIN command' = Accounts /\ CommandsOK'
      BY <1>4, <1>6, <3>3, <3>5, CommandsStep
    <3> QED
      BY <1>4, <1>5, <3>2, <3>6 DEF RegInv, GoneOn
  <2> QED
    BY <2>3, <2>4
<1>9. CASE Waiting(a) /\ ~Succeeds(a, tx)
  <2>1. command' = [command EXCEPT ![a] = Idle] /\ UNCHANGED <<env, reported>>
    BY <1>2, <1>9 DEF OnFailure, Quit
  <2>2. EnvOK' /\ ReportedOK'
    BY <1>4, <2>1, EnvKeeps, ReportedKeeps DEF RegInv, ChainOK
  <2>3. CommandOK(a)'
    BY <2>1, IdleIsOK DEF RegInv
  <2>4. PICK d : d = Idle /\ command' = [command EXCEPT ![a] = d]
    BY <2>1
  <2>5. DOMAIN command' = Accounts /\ CommandsOK'
    BY <1>4, <1>6, <2>3, <2>4, CommandsStep
  <2> QED
    BY <1>4, <1>5, <2>2, <2>5 DEF RegInv
<1>10. CASE ~Waiting(a)
  <2>1. UNCHANGED <<command, env, reported>>
    BY <1>2, <1>10
  <2>2. EnvOK' /\ ReportedOK'
    BY <1>4, <2>1, EnvKeeps, ReportedKeeps DEF RegInv, ChainOK
  <2>3. CommandOK(a)'
    BY <1>1, <1>2, <1>4, <1>10, <2>1, BystanderKeeps
  <2>4. \A b \in Accounts : b # a => pool'[b] = pool[b] /\ command'[b] = command[b]
    BY <1>2, <2>1 DEF RegInv
  <2>5. \A b \in Accounts : b # a => CommandOK(b)'
    BY <1>4, <2>4, CommandStays DEF RegInv, ChainOK, CommandsOK
  <2>6. DOMAIN command' = Accounts /\ CommandsOK'
    BY <2>1, <2>3, <2>5 DEF RegInv, CommandsOK
  <2> QED
    BY <1>4, <1>5, <2>2, <2>6 DEF RegInv
<1> QED
  BY <1>8, <1>9, <1>10

-----------------------------------------------------------------------------
(* The commands begin. *)

LEMMA EnvAddresses ==
    ASSUME RegInv, NEW o \in Owners
    PROVE  /\ env[o].coord # 0 => env[o].coord \in Deployed(o)
           /\ \A c \in 1..MaxContracts : env[o].aud[c] # 0 => env[o].aud[c] \in Deployed(o)
           /\ Deployed(o) \subseteq 1..MaxContracts
           /\ Len(models) \in Nat /\ fee \in Nat /\ o # Rep /\ o \in Accounts
  BY SomeContract, RegistrationAssumption
     DEF RegInv, ChainOK, EnvOK, Deployed, ModelsOK, FeesOK, Accounts, RegistrationAssumption

LEMMA OwnerBegins ==
    ASSUME RegInv, NEW o \in Owners, OwnerCommand(o)
    PROVE  RegInv'
<1> SUFFICES \E c : Runs(o, c) /\ ~c.sent /\ OwnerCommandOK(o, c)
  BY EnvAddresses, RunStep
<1>1. CASE DeployTaskCoordinator(o)
  <2>1. PICK c : c = [name |-> "deploy", kind |-> "coordinator", id |-> Total, coord |-> 0,
                      new |-> 0, todo |-> <<"deploy", "setDinToken">>, sent |-> FALSE]
    OBVIOUS
  <2>2. Runs(o, c)
    BY <1>1, <2>1 DEF DeployTaskCoordinator
  <2>3. /\ c.todo \in DeployTodo("coordinator") /\ c.kind = "coordinator"
        /\ c.todo[1] = "deploy" /\ ~c.sent
    BY <2>1 DEF DeployTodo
  <2>4. c \in [name : {"deploy"}, kind : Kinds, id : Nat, coord : Nat, new : Nat,
               todo : DeployTodo("coordinator") \cup DeployTodo("auditor"), sent : BOOLEAN]
    BY <2>1, <2>3, EnvAddresses DEF Total, Kinds
  <2>5. DeployCommand(o, c)
    BY <2>3, <2>4 DEF DeployCommand
  <2> QED
    BY <2>2, <2>3, <2>5 DEF OwnerCommandOK
<1>2. CASE DeployTaskAuditor(o)
  <2>1. PICK i : i = env[o].coord
    OBVIOUS
  <2>2. i \in Deployed(o) /\ i \in Nat /\ Mine(o, i).modelId \in Nat
    BY <1>2, <2>1, EnvAddresses, SomeContract
       DEF DeployTaskAuditor, Mine, RegInv, ChainOK, ContractType
  <2>3. PICK c : c = [name |-> "deploy", kind |-> "auditor", coord |-> i, new |-> 0,
                      id |-> Mine(o, i).modelId, sent |-> FALSE,
                      todo |-> <<"deploy", "setDinToken", "setDINTaskAuditorContract">>]
    OBVIOUS
  <2>4. Runs(o, c)
    BY <1>2, <2>1, <2>3 DEF DeployTaskAuditor
  <2>5. /\ c.todo \in DeployTodo("auditor") /\ c.kind = "auditor"
        /\ c.todo[1] = "deploy" /\ ~c.sent /\ c.coord = i
    BY <2>3 DEF DeployTodo
  <2>6. c \in [name : {"deploy"}, kind : Kinds, id : Nat, coord : Nat, new : Nat,
               todo : DeployTodo("coordinator") \cup DeployTodo("auditor"), sent : BOOLEAN]
    BY <2>2, <2>3, <2>5 DEF Kinds
  <2>7. DeployCommand(o, c)
    BY <2>2, <2>5, <2>6 DEF DeployCommand
  <2> QED
    BY <2>4, <2>5, <2>7 DEF OwnerCommandOK
<1>3. CASE ConfirmSlasher(o)
  <2>1. PICK fn \in Slashings :
           Runs(o, [name |-> "slasher", todo |-> <<fn>>, coord |-> env[o].coord, sent |-> FALSE])
    BY <1>3 DEF ConfirmSlasher, Slashings
  <2>2. PICK c : c = [name |-> "slasher", todo |-> <<fn>>, coord |-> env[o].coord, sent |-> FALSE]
    OBVIOUS
  <2>3. env[o].coord \in Deployed(o)
    BY <1>3, EnvAddresses DEF ConfirmSlasher
  <2>4. SlasherCommand(o, c) /\ ~c.sent
    BY <2>2, <2>3 DEF SlasherCommand
  <2> QED
    BY <2>1, <2>2, <2>4 DEF OwnerCommandOK
<1>4. CASE \E cid \in CIDs : SubmitGenesisModel(o, cid)
  <2>1. PICK cid \in CIDs : SubmitGenesisModel(o, cid)
    BY <1>4
  <2>2. PICK i : i = env[o].coord
    OBVIOUS
  <2>3. PICK todo \in {<<"setGenesisModelIpfsHash", "setTier2Score">>, <<"setTier2Score">>} :
           /\ IF Len(todo) = 2 THEN Stage(o) = 3
              ELSE Stage(o) = 4 /\ ScoreOnlyRerun(o, cid)
           /\ Runs(o, [name |-> "submit", todo |-> todo, coord |-> i, cid |-> cid, sent |-> FALSE])
    BY <2>1, <2>2 DEF SubmitGenesisModel
  <2>4. i \in Deployed(o)
    BY <2>1, <2>2, EnvAddresses DEF SubmitGenesisModel
  <2>5. PICK c : c = [name |-> "submit", todo |-> todo, coord |-> i, cid |-> cid, sent |-> FALSE]
    OBVIOUS
  <2>6. todo[1] = "setTier2Score" => Holds(o, i, cid)
    <3>1. CASE todo = <<"setTier2Score">>
      <4>1. Stage(o) = 4 /\ ScoreOnlyRerun(o, cid)
        BY <2>3, <3>1
      <4> QED
        BY <2>2, <4>1 DEF Stage, ScoreOnlyRerun, MatchesOnChain, Mine, Holds
    <3>2. CASE todo # <<"setTier2Score">>
      BY <3>2, Todos
    <3> QED
      BY <3>1, <3>2
  <2>7. SubmitCommand(o, c) /\ ~c.sent
    BY <2>4, <2>5, <2>6 DEF SubmitCommand
  <2> QED
    BY <2>3, <2>5, <2>7 DEF OwnerCommandOK
<1>5. CASE RegisterRequest(o)
  <2>1. PICK i, j : i = env[o].coord /\ j = env[o].aud[i]
    OBVIOUS
  <2>2. i \in Deployed(o) /\ j \in Deployed(o)
    BY <1>5, <2>1, EnvAddresses DEF RegisterRequest
  <2>3. PICK tx : tx = [fn |-> "requestModelRegistration", value |-> fee, coord |-> i, aud |-> j]
    OBVIOUS
  <2>4. RequestTx(o, tx)
    BY <2>2, <2>3, EnvAddresses DEF RequestTx
  <2>5. PICK c : c = [name |-> "request", todo |-> <<"requestModelRegistration">>,
                      sent |-> FALSE, tx |-> tx]
    OBVIOUS
  <2>6. Runs(o, c)
    BY <1>5, <2>1, <2>3, <2>5 DEF RegisterRequest
  <2>7. c.tx = tx /\ c.name = "request" /\ c.sent = FALSE
    BY <2>5
  <2>8. c = [name |-> "request", todo |-> <<"requestModelRegistration">>, tx |-> c.tx,
             sent |-> c.sent]
    BY <2>5
  <2>9. RequestCommand(o, c)
    BY <2>4, <2>7, <2>8 DEF RequestCommand
  <2> QED
    BY <2>6, <2>7, <2>9 DEF OwnerCommandOK
<1> QED
  BY <1>1, <1>2, <1>3, <1>4, <1>5 DEF OwnerCommand

LEMMA RepBegins ==
    ASSUME RegInv, NEW tx, Sends(tx), RepTx(tx),
           tx.fn = "approveModel" /\ ~tx.excused => pool[Rep] = NoTx
    PROVE  RegInv'
<1>1. PICK c : c = [name |-> tx.fn, todo |-> <<tx.fn>>, tx |-> tx, sent |-> FALSE]
  OBVIOUS
<1>2. Runs(Rep, c)
  BY <1>1 DEF Sends
<1>3. c.tx = tx /\ c.sent = FALSE
  BY <1>1
<1>4. c = [name |-> c.tx.fn, todo |-> <<c.tx.fn>>, tx |-> c.tx, sent |-> c.sent]
  BY <1>1, <1>3
<1>5. RepCommandOK(c)
  BY <1>3, <1>4 DEF RepCommandOK
<1> QED
  BY <1>2, <1>3, <1>5, RunStep DEF Accounts

LEMMA RequestIndexes ==
    ASSUME RegInv PROVE DOMAIN requests = 1..Len(requests)
  BY DEF RegInv, ChainOK, RequestsOK

LEMMA RepStep ==
    ASSUME RegInv, RepCommand \/ \E f \in Fees : SetOpenSourceFee(f)
    PROVE  RegInv'
<1>1. CASE \E o \in Owners, i \in 1..MaxContracts : AddSlasher(o, i)
  <2>1. PICK o \in Owners, i \in 1..MaxContracts :
           Sends([fn |-> "addSlasherContract", contract |-> <<o, i>>])
    BY <1>1 DEF AddSlasher
  <2>2. PICK tx : tx = [fn |-> "addSlasherContract", contract |-> <<o, i>>]
    OBVIOUS
  <2>3. tx \in [fn : {"addSlasherContract"}, contract : Owners \X Nat]
    BY <2>2
  <2>4. RepTx(tx) /\ tx.fn # "approveModel"
    BY <2>2, <2>3 DEF RepTx
  <2> QED
    BY <2>1, <2>2, <2>4, RepBegins
<1>2. CASE \E n \in DOMAIN requests, force \in BOOLEAN : ApproveRegistrationRequest(n, force)
  <2>1. PICK n \in 1..Len(requests), force \in BOOLEAN : ApproveRegistrationRequest(n, force)
    BY <1>2, RequestIndexes
  <2>2. PICK excused \in BOOLEAN : excused = (force \/ pool[Rep] # NoTx)
    OBVIOUS
  <2>3. PICK tx : tx = [fn |-> "approveModel", request |-> n, forced |-> force,
                        excused |-> excused]
    OBVIOUS
  <2>4. Sends(tx)
    BY <2>1, <2>2, <2>3 DEF ApproveRegistrationRequest
  <2>5. tx.excused \/ Matches(tx.request)
    <3>1. CASE force
      BY <2>2, <2>3, <3>1
    <3>2. CASE ~force
      <4>1. Mismatched(requests[n]) = {}
        BY <2>1, <3>2 DEF ApproveRegistrationRequest, MayApprove
      <4>2. Matches(n)
        BY <4>1 DEF Mismatched, Matches, Mine, Total
      <4> QED
        BY <2>3, <4>2
    <3> QED
      BY <3>1, <3>2
  <2>6. RepTx(tx)
    BY <2>3, <2>5 DEF RepTx, ApproveTx
  <2>7. ~tx.excused => pool[Rep] = NoTx
    BY <2>2, <2>3
  <2> QED
    BY <2>4, <2>6, <2>7, RepBegins
<1>3. CASE \E n \in DOMAIN requests : RejectRegistrationRequest(n)
  <2>1. PICK n \in 1..Len(requests) : Sends([fn |-> "rejectModel", request |-> n])
    BY <1>3, RequestIndexes DEF RejectRegistrationRequest
  <2>2. PICK tx : tx = [fn |-> "rejectModel", request |-> n]
    OBVIOUS
  <2>3. RepTx(tx) /\ tx.fn # "approveModel"
    BY <2>2 DEF RepTx
  <2> QED
    BY <2>1, <2>2, <2>3, RepBegins
<1>4. CASE SweepFees
  <2>1. PICK tx : tx = [fn |-> "sweepFeesToRouter"]
    OBVIOUS
  <2>2. RepTx(tx) /\ tx.fn # "approveModel"
    BY <2>1 DEF RepTx
  <2>3. Sends(tx)
    BY <1>4, <2>1 DEF SweepFees
  <2> QED
    BY <2>2, <2>3, RepBegins
<1>5. CASE \E f \in Fees : SetOpenSourceFee(f)
  <2>1. PICK f \in Fees : SetOpenSourceFee(f)
    BY <1>5
  <2>2. PICK tx : tx = [fn |-> "setOpenSourceFee", value |-> f]
    OBVIOUS
  <2>3. RepTx(tx) /\ tx.fn # "approveModel"
    BY <2>2, RegistrationAssumption DEF RepTx, RegistrationAssumption
  <2>4. Sends(tx)
    BY <2>1, <2>2 DEF SetOpenSourceFee
  <2> QED
    BY <2>3, <2>4, RepBegins
<1> QED
  BY <1>1, <1>2, <1>3, <1>4, <1>5 DEF RepCommand

-----------------------------------------------------------------------------
(* The theorems. *)

LEMMA ReadyAreTyped ==
           /\ ReadyContracts \in Seq(ContractType) /\ Len(ReadyContracts) = 2
           /\ \A c \in 1..2 : ScoreOK(ReadyContracts[c])
<1>1. PICK n, m : /\ n = NewContract("coordinator", 0) /\ m = NewContract("auditor", 0)
  OBVIOUS
<1>2. /\ n = [kind |-> "coordinator", modelId |-> 0, token |-> FALSE, auditor |-> 0, stage |-> 0,
              genesis |-> "none", scored |-> "none"]
      /\ m = [kind |-> "auditor", modelId |-> 0, token |-> FALSE, auditor |-> 0, stage |-> 0,
              genesis |-> "none", scored |-> "none"]
  BY <1>1 DEF NewContract
<1>3. PICK c, d :
         /\ c = [n EXCEPT !.token = TRUE, !.auditor = 2, !.stage = 4,
                          !.genesis = "cid1", !.scored = "cid1"]
         /\ d = [m EXCEPT !.token = TRUE]
  OBVIOUS
<1>4. /\ c = [kind |-> "coordinator", modelId |-> 0, token |-> TRUE, auditor |-> 2, stage |-> 4,
              genesis |-> "cid1", scored |-> "cid1"]
      /\ d = [kind |-> "auditor", modelId |-> 0, token |-> TRUE, auditor |-> 0, stage |-> 0,
              genesis |-> "none", scored |-> "none"]
  BY <1>2, <1>3
<1>5. c \in ContractType /\ d \in ContractType /\ ScoreOK(c) /\ ScoreOK(d)
  BY <1>4 DEF ContractType, ScoreOK, Genesis, Kinds
<1>6. ReadyContracts = <<c, d>>
  BY <1>1, <1>3 DEF ReadyContracts
<1> QED
  BY <1>5, <1>6

LEMMA InitInv == RegistrationInit => RegInv
<1> SUFFICES ASSUME RegistrationInit PROVE RegInv
  OBVIOUS
<1>1. ContractsOK
  <2>1. PICK rc : rc = ReadyContracts
    OBVIOUS
  <2>2. /\ rc \in Seq(ContractType) /\ Len(rc) = 2 /\ \A c \in 1..2 : ScoreOK(rc[c])
        /\ Ready # {} => 2 <= MaxContracts
    BY <2>1, ReadyAreTyped, RegistrationAssumption DEF RegistrationAssumption
  <2>3. contracts = [o \in Owners |-> IF o \in Ready THEN rc ELSE <<>>]
    BY <2>1 DEF RegistrationInit
  <2>4. contracts \in [Owners -> Seq(ContractType)]
    BY <2>2, <2>3
  <2>5. ASSUME NEW o \in Owners
        PROVE  /\ Len(contracts[o]) <= MaxContracts
               /\ \A c \in 1..Len(contracts[o]) : ScoreOK(contracts[o][c])
    <3>1. CASE o \in Ready
      <4>1. contracts[o] = rc /\ Ready # {} /\ MaxContracts \in Nat
        BY <2>3, <3>1, RegistrationAssumption DEF RegistrationAssumption
      <4> QED
        BY <2>2, <4>1
    <3>2. CASE o \notin Ready
      <4>1. contracts[o] = <<>> /\ Len(contracts[o]) = 0 /\ MaxContracts \in Nat
        BY <2>3, <3>2, RegistrationAssumption DEF RegistrationAssumption
      <4> QED
        BY <4>1
    <3> QED
      BY <3>1, <3>2
  <2> QED
    BY <2>4, <2>5 DEF ContractsOK, Deployed
<1>2. RequestsOK /\ ModelsOK /\ FeesOK /\ ApprovedIDsMatch
  BY RegistrationAssumption
     DEF RegistrationInit, RequestsOK, ModelsOK, FeesOK, ApprovedIDsMatch, RegistrationAssumption
<1>3. FeesMatchRequests
  <2>1. collected + swept = 0 /\ DOMAIN requests = {}
    BY DEF RegistrationInit
  <2> QED
    BY <2>1, SumEmpty DEF FeesMatchRequests
<1>4. EnvOK
  <2>1. \A o \in Ready : o \in Owners /\ Len(contracts[o]) = 2
    BY ReadyAreTyped, RegistrationAssumption DEF RegistrationInit, RegistrationAssumption
  <2>2. \A o \in Owners : Len(contracts[o]) \in Nat
    BY <1>1, SomeContract
  <2>3. env = [o \in Owners |->
                 [coord |-> IF o \in Ready THEN 1 ELSE 0,
                  aud |-> [c \in 1..MaxContracts |-> IF o \in Ready /\ c = 1 THEN 2 ELSE 0]]]
    BY DEF RegistrationInit
  <2>4. env \in [Owners -> EnvType]
    BY <2>3 DEF EnvType
  <2>5. ASSUME NEW o \in Owners
        PROVE  /\ env[o].coord \in 0..Len(contracts[o])
               /\ \A c \in 1..MaxContracts : env[o].aud[c] \in 0..Len(contracts[o])
    <3>1. PICK f : f = [c \in 1..MaxContracts |-> IF o \in Ready /\ c = 1 THEN 2 ELSE 0]
      OBVIOUS
    <3>2. env[o].coord = (IF o \in Ready THEN 1 ELSE 0) /\ env[o].aud = f
      BY <2>3, <3>1
    <3>3. \A c \in 1..MaxContracts : f[c] \in {0, 2} /\ (o \notin Ready => f[c] = 0)
      BY <3>1
    <3>4. PICK n \in Nat : n = Len(contracts[o]) /\ (o \in Ready => n = 2)
      BY <2>1, <2>2
    <3>5. env[o].coord \in {0, 1} /\ (o \notin Ready => env[o].coord = 0)
      BY <3>2
    <3>6. CASE o \in Ready
      <4>1. 0 \in 0..Len(contracts[o]) /\ 1 \in 0..Len(contracts[o]) /\ 2 \in 0..Len(contracts[o])
        <5>1. Len(contracts[o]) = 2
          BY <3>4, <3>6
        <5>2. 0 \in 0..2 /\ 1 \in 0..2 /\ 2 \in 0..2
          OBVIOUS
        <5> QED
          BY <5>1, <5>2
      <4>2. \A c \in 1..MaxContracts : f[c] \in 0..Len(contracts[o])
        BY <3>3, <4>1
      <4>3. env[o].coord \in 0..Len(contracts[o])
        BY <3>5, <4>1
      <4> QED
        BY <3>2, <4>2, <4>3
    <3>7. CASE o \notin Ready
      BY <3>2, <3>3, <3>4, <3>5, <3>7
    <3> QED
      BY <3>6, <3>7
  <2> QED
    BY <2>4, <2>5 DEF EnvOK
<1>5. ReportedOK
  BY DEF RegistrationInit, ReportedOK
<1>6. pool = [a \in Accounts |-> pool[a]] /\ PoolOK
  BY DEF RegistrationInit, PoolOK
<1>7. DOMAIN command = Accounts /\ CommandsOK
  BY DEF RegistrationInit, CommandsOK, CommandOK
<1> QED
  BY <1>1, <1>2, <1>3, <1>4, <1>5, <1>6, <1>7 DEF RegInv, ChainOK

LEMMA NextInv == RegInv /\ [RegistrationNext]_vars => RegInv'
<1> SUFFICES ASSUME RegInv, [RegistrationNext]_vars PROVE RegInv'
  OBVIOUS
<1>1. CASE \E o \in Owners : OwnerCommand(o) /\ UNCHANGED surprises
  BY <1>1, OwnerBegins
<1>2. CASE RepCommand /\ UNCHANGED surprises
  BY <1>2, RepStep
<1>3. CASE \E f \in Fees : SetOpenSourceFee(f)
  BY <1>3, RepStep
<1>4. CASE \E a \in Accounts : SendTx(a) \/ MineTx(a) \/ ReceiptTimesOut(a)
  <2>1. PICK a \in Accounts : SendTx(a) \/ MineTx(a) \/ ReceiptTimesOut(a)
    BY <1>4
  <2>2. CASE SendTx(a)
    BY <2>2, SendStep
  <2>3. CASE MineTx(a)
    BY <2>3, MineStep
  <2>4. CASE ReceiptTimesOut(a)
    <3>1. Quit(a) /\ UNCHANGED <<chain, pool>>
      BY <2>4 DEF ReceiptTimesOut, OnFailure
    <3> QED
      BY <3>1, QuitStep
  <2> QED
    BY <2>1, <2>2, <2>3, <2>4
<1>5. CASE UNCHANGED vars
  <2>1. UNCHANGED <<chain, pool, command, env, reported>>
    BY <1>5 DEF vars
  <2>2. ChainOK' /\ ContractsGrow /\ RequestsGrow /\ UNCHANGED models
    BY <2>1, ChainStays DEF RegInv
  <2>3. EnvOK' /\ ReportedOK'
    BY <2>1, <2>2, EnvKeeps, ReportedKeeps DEF RegInv, ChainOK
  <2>4. \A a \in Accounts : CommandOK(a)'
    BY <2>1, <2>2, CommandStays DEF RegInv, ChainOK, CommandsOK
  <2>5. pool' = [b \in Accounts |-> pool'[b]] /\ PoolOK'
    <3>1. PICK tx : /\ tx = pool[Rep] /\ pool' = [pool EXCEPT ![Rep] = tx]
                    /\ tx # NoTx => TxFor(Rep, tx)
      BY <2>1, SamePool DEF Accounts
    <3>2. tx # NoTx => TxFor(Rep, tx)'
      BY <2>2, <3>1, TxStays DEF RegInv, ChainOK, Accounts
    <3> QED
      BY <2>2, <3>1, <3>2, PoolStep DEF Accounts
  <2> QED
    BY <2>1, <2>2, <2>3, <2>4, <2>5 DEF RegInv, CommandsOK
<1> QED
  BY <1>1, <1>2, <1>3, <1>4, <1>5 DEF RegistrationNext

\* The invariant: what the chain holds for every transaction in a pool and for
\* every command between two transactions (build_and_send_tx of contract_utils.py and
\* the commands that call it).
THEOREM RegistrationConsistent == RegistrationSpec => []RegInv
  BY InitInv, NextInv, PTL DEF RegistrationSpec

\* A model's contracts carry the ID that the registry gave it, unless the approval was
\* forced or an earlier approval was still unconfirmed (dinrep.py).
THEOREM IDsMatch == RegistrationSpec => []ApprovedIDsMatch
<1>1. RegInv => ApprovedIDsMatch
  BY DEF RegInv, ChainOK
<1> QED
  BY <1>1, RegistrationConsistent, PTL

\* A score on the chain is of the genesis model on the chain, in whichever way
\* submit-genesis-model failed and was run again (model.py).
THEOREM ScoresAreOfGenesis == RegistrationSpec => []ScoreIsOfGenesis
<1>1. RegInv => ScoreIsOfGenesis
  <2> SUFFICES ASSUME RegInv, NEW o \in Owners, NEW c \in DOMAIN contracts[o]
               PROVE  Mine(o, c).scored \in {"none", Mine(o, c).genesis}
    BY DEF ScoreIsOfGenesis
  <2>1. c \in Deployed(o)
    BY SomeContract DEF RegInv, ChainOK, Deployed
  <2>2. ScoreOK(contracts[o][c])
    BY <2>1 DEF RegInv, ChainOK, ContractsOK
  <2> QED
    BY <2>2 DEF ScoreOK, Mine
<1> QED
  BY <1>1, RegistrationConsistent, PTL

\* What the registry holds and has swept is what its requests paid, whatever the fee
\* was changed to in between (DINModelRegistry.sol).
THEOREM FeesAddUp == RegistrationSpec => []FeesMatchRequests
<1>1. RegInv => FeesMatchRequests
  BY DEF RegInv, ChainOK
<1> QED
  BY <1>1, RegistrationConsistent, PTL

\* A deploy command that reported success left a contract that works: with its token and,
\* an auditor, paired with its coordinator (deploy.py).
THEOREM ReportsAreTrue == RegistrationSpec => []ReportedContractsWork
<1>1. RegInv => ReportedContractsWork
  <2> SUFFICES ASSUME RegInv, NEW w \in reported
               PROVE  /\ Mine(w[1], w[2]).token
                      /\ Mine(w[1], w[2]).kind = "auditor" =>
                            \E c \in DOMAIN contracts[w[1]] : Mine(w[1], c).auditor = w[2]
    BY DEF ReportedContractsWork
  <2>1. Works(w)
    BY DEF RegInv, ReportedOK
  <2>2. DOMAIN contracts[w[1]] = Deployed(w[1])
    BY <2>1, SomeContract DEF Works, RegInv, ChainOK, Deployed
  <2> QED
    BY <2>1, <2>2 DEF Works, Mine
<1> QED
  BY <1>1, RegistrationConsistent, PTL
-----------------------------------------------------------------------------
(* The files that a machine caches of a model (ArtifactCache.tla).           *)
(*                                                                         *)
(* The CID that is kept of a content is written after the content, so the  *)
(* two agree except between the two writes (IfNotTorn), and a kill between *)
(* them leaves the older CID, which nothing on chain asks for until it     *)
(* returns (IfNotReturned).  Either is enough for the freshness checks to  *)
(* be right, and they give what the one command at work knows of the disk  *)
(* (Knows).                                                                *)

Own(f) == \A g \in Files : Key[g] = Key[f] => g = f

StoreKeys == {Key[f] : f \in Files}

Contents == {None, Other} \cup {Pins[vf[1]][vf[2]] : vf \in Versions \X Files}

EverPinned(f) == {None} \cup {Pins[u][f] : u \in onChain.was}

Reading == {"manifest", "fetch", "download manifest", "sidecar", "open"}

WithFile == {"download", "arrived", "store"}

Steps == Reading \cup WithFile \cup {"idle", "submit", "get", "packages", "marker", "run"}

Awake(r) == proc[r].step # "idle"

Command ==
    [cmd : {None, "work", "submit"}, step : Steps, v : Versions \cup {0}, i : Nat \ {0},
     cid : Contents, want : [Files -> Contents], snap : [StoreKeys -> Contents],
     seen : SUBSET Versions]

ManifestOnChainOK ==
    /\ onChain \in [cid : Versions, pending : SUBSET Versions, was : SUBSET Versions]
    /\ onChain.cid \in onChain.was

DiskOK ==
    /\ manifest \in [cid : Versions \cup {0}, sidecar : Versions \cup {0}]
    /\ manifest.sidecar \in onChain.was \cup {0}
    /\ file \in [Files -> Contents] /\ store \in [StoreKeys -> Contents]

\* Where the plan of r is at its i-th operation.
AtStep(r, c, step, i) ==
    /\ step \in Reading /\ c # "submit" => i \in Reads(r)
    /\ step \in WithFile \cup {"get"} => i \in Gets(r)
    /\ step \in {"packages", "marker"} => i \notin Reads(r) \cup Gets(r)
    /\ step = "run" => i > Len(Plan[r])

\* p is a command of role r.
IsCommand(r, p) ==
    /\ p \in Command /\ AtStep(r, p.cmd, p.step, p.i)
    /\ p.step \in {"download manifest", "sidecar"} => p.v \in onChain.was
    /\ p.step \in {"sidecar", "open"} => manifest.cid # 0
    /\ p.step # "idle" => onChain.cid \in p.seen
    /\ p.step = "idle" => p = Sleeping

ProcOK == DOMAIN proc = Roles /\ \A r \in Roles : IsCommand(r, proc[r])

OneAtATime ==
    ~overlapped => \A r, s \in Roles : Awake(r) /\ Awake(s) => r = s

Undisturbed == ~overlapped /\ (Verifies \/ ~forged)

\* What is kept was on chain at some time.
PinnedOnce ==
    /\ manifest.cid \in onChain.was \cup {0}
    /\ \A f \in Files : Own(f) => store[Key[f]] \in EverPinned(f)

\* What the only command at work has in common with the disk.
Follows(r, p) ==
    /\ \A f \in Files : p.want[f] \in EverPinned(f)
    /\ p.step \in {"download manifest", "sidecar"} => p.v \in p.seen
    /\ p.step = "sidecar" => p.v = manifest.cid
    /\ p.step \in WithFile => p.snap = store
    /\ p.step \in {"arrived", "store"} => p.cid = p.want[Plan[r][p.i].file]
    /\ p.step = "store" => file[Plan[r][p.i].file] = p.want[Plan[r][p.i].file]

\* The CIDs of the j-th operation were read from a manifest that was on chain.
HasRead(r, p, j) == \E v \in p.seen : \A f \in Plan[r][j].files : p.want[f] = Pins[v][f]

HasGot(r, p, j) == Own(Plan[r][j].file) => file[Plan[r][j].file] = p.want[Plan[r][j].file]

\* A file whose stored CID is the wanted one is the wanted one.
Trusts(p) ==
    \A f \in Files : Own(f) /\ p.want[f] # None /\ store[Key[f]] = p.want[f] =>
        file[f] \in {None, p.want[f]}

Knows(r, p) ==
    /\ p.step = "open" => manifest.cid \in p.seen
    /\ p.step = "submit" => p.v \in p.seen
    /\ \A j \in Reads(r) : j < p.i => HasRead(r, p, j)
    /\ \A j \in Gets(r) : j < p.i => HasGot(r, p, j)
    /\ Trusts(p)

\* Of one file, when v is the manifest on disk and w its CID that is wanted: a CID of
\* it that is kept and pinned on chain is pinned by v, and when v pins the stored one,
\* this is the CID of the file, and no other is wanted.
FileVouched(v, w, f) ==
    /\ \A x \in {store[Key[f]], w} : x = Pins[onChain.cid][f] => v # 0 /\ x = Pins[v][f]
    /\ v # 0 /\ store[Key[f]] = Pins[v][f] =>
         file[f] \in {None, store[Key[f]]} /\ w \in {None, store[Key[f]]}

\* Were v the manifest on disk, nothing would vouch for other content.
Vouched(v, want) ==
    /\ manifest.sidecar = onChain.cid => manifest.sidecar = v
    /\ \A f \in Files : Own(f) => FileVouched(v, want[f], f)

IfNotReturned ==
    Undisturbed /\ ~returned =>
        \A r \in Roles :
            /\ Vouched(manifest.cid, proc[r].want)
            /\ On(r, "download manifest") => Vouched(proc[r].v, proc[r].want)

IfNotTorn ==
    Undisturbed /\ ~torn =>
        /\ (\A r \in Roles : ~On(r, "sidecar")) => manifest.sidecar = manifest.cid
        /\ \A f \in Files :
             Own(f) /\ (\A r \in Roles : On(r, "store") => Wanted(r) # f) =>
               file[f] \in {None, store[Key[f]]}

GhostsOK == {overlapped, torn, returned, forged} \subseteq BOOLEAN

CacheInv ==
    /\ ManifestOnChainOK /\ DiskOK /\ ProcOK /\ GhostsOK /\ OneAtATime
    /\ Undisturbed => PinnedOnce
    /\ Undisturbed => \A r \in Roles : Follows(r, proc[r])
    /\ CanVouch => \A r \in Roles : Knows(r, proc[r])
    /\ IfNotReturned /\ IfNotTorn
    /\ NoRawUploadUnderDP

LEMMA ContentsPinned ==
    \A v \in Versions, f \in Files : Pins[v][f] \in Contents
  PROOF
  <1>1. SUFFICES ASSUME NEW v \in Versions, NEW f \in Files PROVE Pins[v][f] \in Contents
    OBVIOUS
  <1>2. <<v, f>> \in Versions \X Files
    OBVIOUS
  <1>3. <<v, f>>[1] = v /\ <<v, f>>[2] = f
    OBVIOUS
  <1> QED BY <1>2, <1>3 DEF Contents

LEMMA StoreKeyOf == \A f \in Files : Key[f] \in StoreKeys
  PROOF BY DEF StoreKeys

\* A role without a command wants nothing.
LEMMA SleepingIs ==
    /\ Sleeping \in Command /\ Sleeping.cmd = None /\ Sleeping.step = "idle" /\ Sleeping.v = 0
    /\ Sleeping.i = 1 /\ Sleeping.seen = {} /\ \A f \in Files : Sleeping.want[f] = None
  PROOF
  <1>1. None \in Contents
    BY DEF Contents
  <1>2. NoStore \in [StoreKeys -> Contents]
    BY <1>1 DEF NoStore, StoreKeys
  <1>3. [f \in Files |-> None] \in [Files -> Contents]
    BY <1>1
  <1> QED BY <1>1, <1>2, <1>3 DEF Sleeping, Command, Steps, Reading, WithFile

LEMMA SleepingIsCommand ==
    ASSUME NEW r \in Roles
    PROVE  IsCommand(r, Sleeping) /\ IsCommand(r, Sleeping)'
  PROOF
  <1>1. AtStep(r, Sleeping.cmd, Sleeping.step, Sleeping.i)
    BY SleepingIs DEF AtStep, Reading, WithFile
  <1> QED BY <1>1, SleepingIs DEF IsCommand

\* It knows nothing of the disk that could change.
LEMMA SleepingFollows ==
    ASSUME NEW r \in Roles
    PROVE  /\ Follows(r, Sleeping) /\ Follows(r, Sleeping)'
           /\ Knows(r, Sleeping) /\ Knows(r, Sleeping)'
  PROOF
  <1>1. \A j \in Reads(r) \cup Gets(r) : ~(j < Sleeping.i)
    <2>1. \A j \in DOMAIN Plan[r] : j \in Nat \ {0}
      BY PlanAssumption DEF PlanAssumption
    <2> QED BY <2>1, SleepingIs DEF Reads, Gets
  <1> QED BY <1>1, SleepingIs DEF Follows, Knows, Trusts, EverPinned, WithFile

LEMMA NothingWanted ==
    ASSUME CacheAssumption, NEW v, NEW want, Vouched(v, want), onChain.cid \in Versions
    PROVE  Vouched(v, Sleeping.want)
  PROOF
  <1>1. \A f \in Files : Pins[onChain.cid][f] # None
    BY DEF CacheAssumption
  <1> QED BY <1>1, SleepingIs DEF Vouched, FileVouched

LEMMA StepAtOK ==
    ASSUME PlanAssumption, NEW r \in Roles, NEW i \in Nat \ {0}, NEW c
    PROVE  /\ StepAt(r, i) \in {"manifest", "get", "packages", "run"}
           /\ AtStep(r, c, StepAt(r, i), i)
  PROOF
  <1>1. CASE i > Len(Plan[r])
    <2>1. StepAt(r, i) = "run"
      BY <1>1 DEF StepAt
    <2> QED BY <1>1, <2>1 DEF AtStep, Reading, WithFile
  <1>2. CASE ~(i > Len(Plan[r]))
    <2>1. Plan[r] \in Seq(Operations) /\ i \in DOMAIN Plan[r] /\ Plan[r][i] \in Operations
      BY <1>2 DEF PlanAssumption
    <2>2. PICK o : o = Plan[r][i].op
      OBVIOUS
    <2>3. o \in {"read", "get", "install"}
      BY <2>1, <2>2 DEF Operations
    <2>4. StepAt(r, i) = [read |-> "manifest", get |-> "get", install |-> "packages"][o]
      BY <1>2, <2>2 DEF StepAt
    <2>5. CASE o = "read"
      <3>1. StepAt(r, i) = "manifest" /\ Plan[r][i].op = "read"
        BY <2>2, <2>4, <2>5
      <3>2. i \in Reads(r)
        BY <2>1, <3>1 DEF Reads
      <3> QED BY <3>1, <3>2 DEF AtStep, Reading, WithFile
    <2>6. CASE o = "get"
      <3>1. StepAt(r, i) = "get" /\ Plan[r][i].op = "get"
        BY <2>2, <2>4, <2>6
      <3>2. i \in Gets(r)
        BY <2>1, <3>1 DEF Gets
      <3> QED BY <3>1, <3>2 DEF AtStep, Reading, WithFile
    <2>7. CASE o = "install"
      <3>1. StepAt(r, i) = "packages" /\ Plan[r][i].op = "install"
        BY <2>2, <2>4, <2>7
      <3>2. i \notin Reads(r) \cup Gets(r)
        BY <3>1 DEF Reads, Gets
      <3> QED BY <3>1, <3>2 DEF AtStep, Reading, WithFile
    <2> QED BY <2>3, <2>5, <2>6, <2>7
  <1> QED BY <1>1, <1>2

LEMMA AdvancedIs ==
    ASSUME PlanAssumption, NEW r \in Roles, NEW p \in Command, NEW q, q = Advanced(r, p)
    PROVE  /\ q \in Command /\ AtStep(r, q.cmd, q.step, q.i)
           /\ q.step \in {"manifest", "get", "packages", "run"}
           /\ q.cmd = p.cmd /\ q.i = p.i + 1 /\ q.want = p.want /\ q.seen = p.seen
  PROOF
  <1>1. PICK n \in Nat \ {0} : n = p.i + 1
    BY DEF Command
  <1>2. PICK s : s = StepAt(r, n)
    OBVIOUS
  <1>3. s \in {"manifest", "get", "packages", "run"} /\ AtStep(r, p.cmd, s, n)
    BY <1>2, StepAtOK
  <1>4. q = [p EXCEPT !.i = n, !.step = s, !.v = 0, !.cid = None, !.snap = NoStore]
    BY <1>1, <1>2 DEF Advanced
  <1>5. None \in Contents /\ NoStore \in [StoreKeys -> Contents] /\ s \in Steps
    BY <1>3 DEF Contents, NoStore, StoreKeys, Steps, Reading
  <1>6. q \in Command /\ q.step = s /\ q.i = n /\ q.cmd = p.cmd /\ q.want = p.want /\ q.seen = p.seen
    <2>1. /\ p.cmd \in {None, "work", "submit"} /\ p.want \in [Files -> Contents]
          /\ p.seen \in SUBSET Versions
          /\ p = [cmd |-> p.cmd, step |-> p.step, v |-> p.v, i |-> p.i, cid |-> p.cid,
                  want |-> p.want, snap |-> p.snap, seen |-> p.seen]
      BY DEF Command
    <2>2. q = [cmd |-> p.cmd, step |-> s, v |-> 0, i |-> n, cid |-> None,
               want |-> p.want, snap |-> NoStore, seen |-> p.seen]
      BY <1>4, <2>1
    <2> QED BY <1>1, <1>5, <2>1, <2>2 DEF Command
  <1> QED BY <1>1, <1>3, <1>6

LEMMA WantedIsFile ==
    ASSUME PlanAssumption, NEW r \in Roles, NEW i \in Gets(r)
    PROVE  Plan[r][i].file \in Files
  PROOF
  <1>1. Plan[r] \in Seq(Operations) /\ i \in DOMAIN Plan[r] /\ Plan[r][i].op = "get"
    BY DEF PlanAssumption, Gets
  <1>2. Plan[r][i] \in Operations
    BY <1>1
  <1> QED BY <1>1, <1>2 DEF Operations

\* A command that is alone with the disk is the only one that is not asleep.
LEMMA Alone ==
    ASSUME ProcOK, OneAtATime, NEW r \in Roles, Awake(r), ~overlapped
    PROVE  \A s \in Roles \ {r} : proc[s] = Sleeping
  PROOF BY DEF ProcOK, OneAtATime, Awake, IsCommand

LEMMA Calmer ==
    ASSUME UNCHANGED host, overlapped => overlapped', torn => torn', forged => forged',
           returned => returned'
    PROVE  (Undisturbed' => Undisturbed) /\ (CanVouch' => CanVouch)
  PROOF BY DEF Undisturbed, CanVouch, Verifies, host

LEMMA VouchIsUndisturbed == CanVouch => Undisturbed /\ ~(torn /\ returned)
  PROOF BY DEF CanVouch, Undisturbed

LEMMA KnowsNext ==
    ASSUME NEW s \in Roles, NEW p, proc'[s] = p, Knows(s, p)'
    PROVE  Knows(s, proc[s])'
  PROOF
  <1>1. Trusts(proc[s])'
    BY DEF Knows, Trusts
  <1>2. ASSUME NEW j \in Reads(s), j < proc'[s].i PROVE HasRead(s, proc[s], j)'
    <2>1. HasRead(s, p, j)'
      BY <1>2 DEF Knows
    <2> QED BY <2>1 DEF HasRead
  <1>3. \A j \in Gets(s) : j < proc'[s].i => HasGot(s, proc[s], j)'
    BY DEF Knows, HasGot
  <1> QED BY <1>1, <1>2, <1>3 DEF Knows

LEMMA VouchedNext ==
    ASSUME NEW s \in Roles, NEW p, proc'[s] = p, Vouched(manifest.cid, p.want)',
           p.step = "download manifest" => Vouched(p.v, p.want)'
    PROVE  /\ Vouched(manifest.cid, proc[s].want)'
           /\ On(s, "download manifest")' => Vouched(proc[s].v, proc[s].want)'
  PROOF
  <1>1. Vouched(manifest.cid, proc[s].want)'
    BY DEF Vouched, FileVouched
  <1>2. ASSUME On(s, "download manifest")' PROVE Vouched(proc[s].v, proc[s].want)'
    <2>1. Vouched(p.v, p.want)'
      BY <1>2 DEF On
    <2> QED BY <2>1 DEF Vouched, FileVouched
  <1> QED BY <1>1, <1>2

LEMMA NothingWantedNext ==
    ASSUME NEW want, Vouched(manifest.cid, want)', \A f \in Files : Pins[onChain'.cid][f] # None
    PROVE  Vouched(manifest.cid, Sleeping.want)'
  PROOF
  <1>1. ASSUME NEW f \in Files, Own(f) PROVE FileVouched(manifest.cid, Sleeping.want[f], f)'
    <2>1. FileVouched(manifest.cid, want[f], f)'
      BY <1>1 DEF Vouched
    <2> QED BY <2>1, SleepingIs DEF FileVouched
  <1> QED BY <1>1 DEF Vouched

LEMMA VouchedOnDisk ==
    ASSUME NEW m, NEW w, manifest'.cid = m, Vouched(m, w)'
    PROVE  Vouched(manifest.cid, w)'
  PROOF BY DEF Vouched, FileVouched

LEMMA VouchedAfter ==
    ASSUME NEW s \in Roles, NEW m, NEW w, NEW u,
           manifest'.cid = m, proc'[s].want = w, proc'[s].v = u,
           Vouched(m, w)', On(s, "download manifest")' => Vouched(u, w)'
    PROVE  /\ Vouched(manifest.cid, proc[s].want)'
           /\ On(s, "download manifest")' => Vouched(proc[s].v, proc[s].want)'
  PROOF
  <1>1. Vouched(manifest.cid, proc[s].want)'
    BY DEF Vouched, FileVouched
  <1>2. ASSUME On(s, "download manifest")' PROVE Vouched(proc[s].v, proc[s].want)'
    <2>1. Vouched(u, w)'
      BY <1>2
    <2> QED BY <2>1 DEF Vouched, FileVouched
  <1> QED BY <1>1, <1>2

\* One command does a step: what the step has to show.
LEMMA CommandStep ==
    ASSUME CacheAssumption, CacheInv, NEW r \in Roles, NEW p,
           proc' = [proc EXCEPT ![r] = p], UNCHANGED <<onChain, host, returned>>, GhostsOK',
           overlapped => overlapped', torn => torn', forged => forged',
           ~overlapped' => \A s \in Roles \ {r} : proc[s] = Sleeping,
           IsCommand(r, p)', DiskOK', manifest.cid # 0 => manifest'.cid # 0,
           Undisturbed' => PinnedOnce' /\ Follows(r, p)',
           CanVouch' => Knows(r, p)',
           Undisturbed' /\ ~returned => Vouched(manifest.cid, p.want)',
           Undisturbed' /\ ~returned /\ p.step = "download manifest" => Vouched(p.v, p.want)',
           IfNotTorn', CanVouch' => NoRawUploadUnderDP'
    PROVE  CacheInv'
  PROOF
  <1>1. ManifestOnChainOK'
    BY DEF CacheInv, ManifestOnChainOK
  <1>2. \A s \in Roles : proc'[s] = IF s = r THEN p ELSE proc[s]
    BY DEF CacheInv, ProcOK
  <1>3. ProcOK'
    <2>1. DOMAIN proc' = Roles
      BY DEF CacheInv, ProcOK
    <2>2. ASSUME NEW s \in Roles PROVE IsCommand(s, proc[s])'
      <3>1. CASE s = r
        BY <3>1, <1>2 DEF IsCommand
      <3>2. CASE s # r
        <4>1. IsCommand(s, proc[s]) /\ proc'[s] = proc[s]
          BY <3>2, <1>2 DEF CacheInv, ProcOK
        <4> QED BY <4>1 DEF IsCommand
      <3> QED BY <3>1, <3>2
    <2> QED BY <2>1, <2>2 DEF ProcOK
  <1>5. ~overlapped' => \A s \in Roles \ {r} : proc'[s] = Sleeping
    BY <1>2
  <1>6. OneAtATime'
    BY <1>5, SleepingIs DEF OneAtATime, Awake
  <1>7. ASSUME Undisturbed', NEW s \in Roles PROVE Follows(s, proc[s])'
    <2>1. CASE s = r
      <3>1. proc'[s] = p
        BY <1>2, <2>1
      <3> QED BY <1>7, <2>1, <3>1 DEF Follows, EverPinned
    <2>2. CASE s # r
      <3>1. proc'[s] = Sleeping
        BY <1>5, <1>7, <2>2 DEF Undisturbed
      <3>2. Follows(s, Sleeping)'
        BY SleepingFollows
      <3> QED BY <3>1, <3>2 DEF Follows, EverPinned
    <2> QED BY <2>1, <2>2
  <1>8. ASSUME CanVouch', NEW s \in Roles PROVE Knows(s, proc[s])'
    <2>1. CASE s = r
      <3>1. proc'[s] = p
        BY <1>2, <2>1
      <3>2. Knows(s, p)'
        BY <1>8, <2>1
      <3> QED BY <3>1, <3>2, KnowsNext
    <2>2. CASE s # r
      <3>1. proc'[s] = Sleeping
        BY <1>5, <1>8, <2>2 DEF CanVouch
      <3>2. Knows(s, Sleeping)'
        BY SleepingFollows
      <3> QED BY <3>1, <3>2, KnowsNext
    <2> QED BY <2>1, <2>2
  <1>9. IfNotReturned'
    <2>1. SUFFICES ASSUME Undisturbed', ~returned, NEW s \in Roles
                   PROVE  /\ Vouched(manifest.cid, proc[s].want)'
                          /\ On(s, "download manifest")' => Vouched(proc[s].v, proc[s].want)'
      BY DEF IfNotReturned
    <2>2. CASE s = r
      <3>1. proc'[s] = p
        BY <1>2, <2>2
      <3>2. Vouched(manifest.cid, p.want)' /\ (p.step = "download manifest" => Vouched(p.v, p.want)')
        BY <2>1
      <3> QED BY <3>1, <3>2, VouchedNext
    <2>3. CASE s # r
      <3>1. proc'[s] = Sleeping
        BY <1>5, <2>1, <2>3 DEF Undisturbed
      <3>2. \A f \in Files : Pins[onChain'.cid][f] # None
        BY <1>1 DEF ManifestOnChainOK, CacheAssumption
      <3>3. Vouched(manifest.cid, p.want)'
        BY <2>1
      <3>4. Vouched(manifest.cid, Sleeping.want)'
        BY <3>2, <3>3, NothingWantedNext
      <3> QED BY <3>1, <3>4, SleepingIs DEF Vouched, FileVouched, On
    <2> QED BY <2>2, <2>3
  <1>10. (Undisturbed' => Undisturbed) /\ (CanVouch' => CanVouch)
    BY Calmer
  <1>11. NoRawUploadUnderDP'
    BY DEF NoRawUploadUnderDP
  <1> QED BY <1>1, <1>3, <1>6, <1>7, <1>8, <1>9, <1>11 DEF CacheInv

\* A step that leaves the cached files and the CIDs kept of them alone.
LEMMA ReadingStep ==
    ASSUME CacheAssumption, CacheInv, NEW r \in Roles, NEW p,
           proc' = [proc EXCEPT ![r] = p],
           UNCHANGED <<onChain, host, manifest, file, store, returned>>, GhostsOK',
           overlapped => overlapped', torn => torn', forged => forged',
           ~overlapped' => \A s \in Roles \ {r} : proc[s] = Sleeping,
           IsCommand(r, p),
           Undisturbed' => Follows(r, p), CanVouch' => Knows(r, p),
           Undisturbed' /\ ~returned => Vouched(manifest.cid, p.want),
           Undisturbed' /\ ~returned /\ p.step = "download manifest" => Vouched(p.v, p.want),
           torn' \/ (~On(r, "sidecar") /\ ~On(r, "store")),
           CanVouch' => NoRawUploadUnderDP'
    PROVE  CacheInv'
  PROOF
  <1>1. (Undisturbed' => Undisturbed) /\ (CanVouch' => CanVouch)
    BY Calmer
  <1>2. IsCommand(r, p)' /\ DiskOK'
    BY DEF IsCommand, CacheInv, DiskOK
  <1>3. Undisturbed' => PinnedOnce'
    BY <1>1 DEF CacheInv, PinnedOnce, EverPinned
  <1>4. Undisturbed' => Follows(r, p)'
    BY DEF Follows, EverPinned
  <1>5. CanVouch' => Knows(r, p)'
    BY DEF Knows, HasRead, HasGot, Trusts
  <1>6. Undisturbed' /\ ~returned => Vouched(manifest.cid, p.want)'
    BY DEF Vouched, FileVouched
  <1>7. Undisturbed' /\ ~returned /\ p.step = "download manifest" => Vouched(p.v, p.want)'
    BY DEF Vouched, FileVouched
  <1>8. \A s \in Roles : proc'[s] = IF s = r THEN p ELSE proc[s]
    BY DEF CacheInv, ProcOK
  <1>9. IfNotTorn'
    <2>1. SUFFICES ASSUME Undisturbed', ~torn'
                   PROVE  /\ manifest.sidecar = manifest.cid
                          /\ \A f \in Files : Own(f) => file[f] \in {None, store[Key[f]]}
      BY DEF IfNotTorn
    <2>2. \A s \in Roles : ~On(s, "sidecar") /\ ~On(s, "store")
      BY <2>1, <1>1, SleepingIs DEF On, Undisturbed
    <2> QED BY <2>1, <2>2, <1>1 DEF CacheInv, IfNotTorn
  <1> QED BY <1>2, <1>3, <1>4, <1>5, <1>6, <1>7, <1>9, CommandStep

\* The uploads are left alone.
LEMMA NothingUploaded ==
    ASSUME NoRawUploadUnderDP, CanVouch' => CanVouch, uploads' = uploads
    PROVE  NoRawUploadUnderDP'
  PROOF BY DEF NoRawUploadUnderDP

LEMMA StartsKeepsCacheInv ==
    ASSUME CacheAssumption, PlanAssumption, CacheInv, NEW r \in Roles,
           NEW c \in {"work", "submit"}, Starts(r, c)
    PROVE  CacheInv'
  PROOF
  <1>1. PICK step : step = IF c = "work" THEN StepAt(r, 1) ELSE "manifest"
    OBVIOUS
  <1>2. PICK p : p = [Sleeping EXCEPT !.cmd = c, !.seen = {onChain.cid}, !.step = step]
    OBVIOUS
  <1>3. proc' = [proc EXCEPT ![r] = p] /\ proc[r] = Sleeping
    BY <1>1, <1>2 DEF Starts
  <1>4. step \in {"manifest", "get", "packages", "run"} /\ AtStep(r, c, step, 1)
    <2>1. CASE c = "work"
      BY <1>1, <2>1, StepAtOK
    <2>2. CASE c = "submit"
      BY <1>1, <2>2 DEF AtStep, Reading, WithFile
    <2> QED BY <2>1, <2>2
  <1>5. p \in Command /\ p.step = step /\ p.cmd = c /\ p.seen = {onChain.cid} /\ p.i = 1
          /\ p.want = Sleeping.want
    <2>1. onChain.cid \in Versions /\ step \in Steps
      BY <1>4 DEF CacheInv, ManifestOnChainOK, Steps, Reading, WithFile
    <2> QED BY <1>2, <2>1, SleepingIs DEF Command
  <1>6. IsCommand(r, p)
    BY <1>4, <1>5 DEF IsCommand
  <1>7. Follows(r, p)
    BY <1>4, <1>5, SleepingIs DEF Follows, EverPinned, WithFile
  <1>8. Knows(r, p)
    <2>1. \A j \in Reads(r) \cup Gets(r) : ~(j < p.i)
      <3>1. \A j \in DOMAIN Plan[r] : j \in Nat \ {0}
        BY DEF PlanAssumption
      <3> QED BY <3>1, <1>5 DEF Reads, Gets
    <2> QED BY <1>4, <1>5, <2>1, SleepingIs DEF Knows, Trusts
  <1>9. GhostsOK' /\ (overlapped => overlapped') /\ (torn => torn') /\ (forged => forged')
    BY DEF Starts, CacheInv, GhostsOK
  <1>10. ~overlapped' => \A s \in Roles \ {r} : proc[s] = Sleeping
    BY DEF Starts
  <1>11. UNCHANGED <<onChain, host, manifest, file, store, returned, uploads>>
    BY DEF Starts, disk
  <1>12. ~On(r, "sidecar") /\ ~On(r, "store")
    BY <1>3, SleepingIs DEF On
  <1>13. (Undisturbed' => Undisturbed) /\ (CanVouch' => CanVouch)
    BY <1>9, <1>11, Calmer
  <1>14. NoRawUploadUnderDP'
    BY <1>11, <1>13, NothingUploaded DEF CacheInv
  <1>15. Undisturbed' /\ ~returned => Vouched(manifest.cid, p.want)
    BY <1>3, <1>5, <1>13 DEF CacheInv, IfNotReturned
  <1>16. p.step # "download manifest"
    BY <1>4, <1>5
  <1> QED BY <1>3, <1>6, <1>7, <1>8, <1>9, <1>10, <1>11, <1>12, <1>14, <1>15, <1>16, ReadingStep

\* The same for a step of a command that is at work.
LEMMA WorkingStep ==
    ASSUME CacheAssumption, CacheInv, NEW r \in Roles, NEW p, Awake(r),
           proc' = [proc EXCEPT ![r] = p],
           UNCHANGED <<onChain, host, manifest, file, store, overlapped, torn, returned, uploads>>,
           forged' \in BOOLEAN, forged => forged',
           IsCommand(r, p),
           Undisturbed' => Follows(r, p), CanVouch' => Knows(r, p),
           Undisturbed' /\ ~returned => Vouched(manifest.cid, p.want),
           Undisturbed' /\ ~returned /\ p.step = "download manifest" => Vouched(p.v, p.want),
           ~On(r, "sidecar"), ~On(r, "store")
    PROVE  CacheInv'
  PROOF
  <1>1. GhostsOK'
    BY DEF CacheInv, GhostsOK
  <1>2. ~overlapped' => \A s \in Roles \ {r} : proc[s] = Sleeping
    BY Alone DEF CacheInv
  <1>3. NoRawUploadUnderDP'
    BY Calmer, NothingUploaded DEF CacheInv
  <1> QED BY <1>1, <1>2, <1>3, ReadingStep

LEMMA StoppingStep ==
    ASSUME CacheAssumption, CacheInv, NEW r \in Roles, Awake(r), Stops(r),
           UNCHANGED <<onChain, host, manifest, file, store, overlapped, forged, returned>>,
           torn' \in BOOLEAN, torn => torn', torn' \/ (~On(r, "sidecar") /\ ~On(r, "store")),
           CanVouch' => NoRawUploadUnderDP'
    PROVE  CacheInv'
  PROOF
  <1>1. PICK p : p = Sleeping
    OBVIOUS
  <1>2. proc' = [proc EXCEPT ![r] = p]
    BY <1>1 DEF Stops
  <1>3. /\ IsCommand(r, p) /\ Follows(r, p) /\ Knows(r, p)
        /\ p.step = "idle" /\ p.want = Sleeping.want
    BY <1>1, SleepingIsCommand, SleepingFollows, SleepingIs
  <1>4. ~overlapped' => \A s \in Roles \ {r} : proc[s] = Sleeping
    BY Alone DEF CacheInv
  <1>5. GhostsOK'
    BY DEF CacheInv, GhostsOK
  <1>6. Undisturbed' => Undisturbed
    BY Calmer
  <1>7. ASSUME Undisturbed', ~returned PROVE Vouched(manifest.cid, p.want)
    <2>1. Vouched(manifest.cid, proc[r].want)
      BY <1>6, <1>7 DEF CacheInv, IfNotReturned
    <2> QED BY <1>3, <2>1, NothingWanted DEF CacheInv, ManifestOnChainOK
  <1> QED BY <1>2, <1>3, <1>4, <1>5, <1>7, ReadingStep

\* A command that goes on with what it has read and fetched.
LEMMA SameKnowledge ==
    ASSUME CacheInv, NEW r \in Roles, NEW p,
           p.want = proc[r].want, p.seen = proc[r].seen, p.i = proc[r].i
    PROVE  /\ CanVouch /\ p.step \notin {"open", "submit"} => Knows(r, p)
           /\ Undisturbed /\ ~returned => Vouched(manifest.cid, p.want)
           /\ Undisturbed => \A f \in Files : p.want[f] \in EverPinned(f)
  PROOF
  <1>1. ASSUME CanVouch, p.step \notin {"open", "submit"} PROVE Knows(r, p)
    <2>1. Knows(r, proc[r])
      BY <1>1 DEF CacheInv
    <2>2. Trusts(p)
      BY <2>1 DEF Knows, Trusts
    <2>3. ASSUME NEW j \in Reads(r), j < p.i PROVE HasRead(r, p, j)
      <3>1. HasRead(r, proc[r], j)
        BY <2>1, <2>3 DEF Knows
      <3> QED BY <3>1 DEF HasRead
    <2>4. \A j \in Gets(r) : j < p.i => HasGot(r, p, j)
      BY <2>1 DEF Knows, HasGot
    <2> QED BY <1>1, <2>2, <2>3, <2>4 DEF Knows
  <1>2. Undisturbed /\ ~returned => Vouched(manifest.cid, p.want)
    BY DEF CacheInv, IfNotReturned
  <1>3. Undisturbed => \A f \in Files : p.want[f] \in EverPinned(f)
    BY DEF CacheInv, Follows
  <1> QED BY <1>1, <1>2, <1>3

LEMMA CheckManifestKeepsCacheInv ==
    ASSUME CacheAssumption, CacheInv, NEW r \in Roles, CheckManifest(r)
    PROVE  CacheInv'
  PROOF
  <1>1. PICK s \in {"open", "fetch"} :
          Continues(r, s) /\ (s = "open" => ManifestIsFresh)
    BY DEF CheckManifest
  <1>2. PICK p : p = [proc[r] EXCEPT !.step = s]
    OBVIOUS
  <1>3. proc' = [proc EXCEPT ![r] = p]
    BY <1>1, <1>2 DEF Continues
  <1>4. IsCommand(r, proc[r]) /\ proc[r].step = "manifest" /\ Awake(r)
    BY DEF CheckManifest, On, Awake, CacheInv, ProcOK
  <1>5. /\ p \in Command /\ p.step = s /\ p.cmd = proc[r].cmd
        /\ p.i = proc[r].i /\ p.want = proc[r].want /\ p.seen = proc[r].seen
    BY <1>2, <1>4 DEF IsCommand, Command, Steps, Reading
  <1>6. IsCommand(r, p)
    BY <1>1, <1>4, <1>5 DEF IsCommand, AtStep, Reading, WithFile, ManifestIsFresh
  <1>7. Undisturbed => Follows(r, p)
    BY <1>5, SameKnowledge DEF Follows, WithFile
  <1>8. ASSUME CanVouch, s = "open" PROVE Knows(r, p)
    <2>1. manifest.sidecar = onChain.cid /\ onChain.cid \in p.seen
      BY <1>1, <1>4, <1>5, <1>8 DEF ManifestIsFresh, IsCommand
    <2>2. manifest.cid = manifest.sidecar
      <3>1. CASE ~returned
        BY <2>1, <3>1, <1>8, VouchIsUndisturbed DEF CacheInv, IfNotReturned, Vouched
      <3>2. CASE ~torn
        <4>1. \A q \in Roles : ~On(q, "sidecar")
          BY <1>4, <1>8 DEF CanVouch, CacheInv, OneAtATime, Awake, On
        <4> QED BY <4>1, <3>2, <1>8, VouchIsUndisturbed DEF CacheInv, IfNotTorn
      <3> QED BY <3>1, <3>2, <1>8, VouchIsUndisturbed
    <2>3. PICK q : q = [p EXCEPT !.step = "fetch"]
      OBVIOUS
    <2>4. q.want = p.want /\ q.seen = p.seen /\ q.i = p.i /\ q.step = "fetch"
      BY <1>5, <2>3 DEF Command
    <2>5. Knows(r, q)
      BY <1>5, <1>8, <2>4, SameKnowledge
    <2>6. Trusts(p)
      BY <2>4, <2>5 DEF Knows, Trusts
    <2>7. ASSUME NEW j \in Reads(r), j < p.i PROVE HasRead(r, p, j)
      <3>1. HasRead(r, q, j)
        BY <2>4, <2>5, <2>7 DEF Knows
      <3> QED BY <2>4, <3>1 DEF HasRead
    <2>8. \A j \in Gets(r) : j < p.i => HasGot(r, p, j)
      BY <2>4, <2>5 DEF Knows, HasGot
    <2> QED BY <1>5, <1>8, <2>1, <2>2, <2>6, <2>7, <2>8 DEF Knows
  <1>9. CanVouch => Knows(r, p)
    BY <1>5, <1>8, SameKnowledge
  <1>10. UNCHANGED <<onChain, host, manifest, file, store, overlapped, torn, forged, returned, uploads>>
    BY DEF CheckManifest, disk, ghosts
  <1>11. ~On(r, "sidecar") /\ ~On(r, "store") /\ p.step # "download manifest"
    BY <1>4, <1>5 DEF On
  <1>12. (Undisturbed' => Undisturbed) /\ (CanVouch' => CanVouch) /\ forged' \in BOOLEAN
    BY <1>10, Calmer DEF CacheInv, GhostsOK
  <1>13. Undisturbed /\ ~returned => Vouched(manifest.cid, p.want)
    BY <1>5, SameKnowledge
  <1> QED BY <1>3, <1>4, <1>6, <1>7, <1>9, <1>10, <1>11, <1>12, <1>13, WorkingStep

LEMMA CacheManifestKeepsCacheInv ==
    ASSUME CacheAssumption, CacheInv, NEW r \in Roles, CacheManifest(r)
    PROVE  CacheInv'
  PROOF
  <1>1. UNCHANGED <<onChain, host, manifest, file, store, overlapped, torn, forged, returned, uploads>>
    BY DEF CacheManifest, disk, ghosts
  <1>2. (Undisturbed' => Undisturbed) /\ (CanVouch' => CanVouch) /\ forged' \in BOOLEAN
          /\ torn' \in BOOLEAN
    BY <1>1, Calmer DEF CacheInv, GhostsOK
  <1>3. IsCommand(r, proc[r]) /\ proc[r].step = "fetch" /\ Awake(r)
    BY DEF CacheManifest, On, Awake, CacheInv, ProcOK
  <1>4. ~On(r, "sidecar") /\ ~On(r, "store")
    BY <1>3 DEF On
  <1>5. CASE Stops(r)
    <2>1. NoRawUploadUnderDP'
      BY <1>1, <1>2, NothingUploaded DEF CacheInv
    <2> QED BY <1>1, <1>2, <1>3, <1>4, <1>5, <2>1, StoppingStep
  <1>6. CASE proc' = [proc EXCEPT ![r].v = onChain.cid, ![r].step = "download manifest"]
    <2>1. PICK p : p = [proc[r] EXCEPT !.v = onChain.cid, !.step = "download manifest"]
      OBVIOUS
    <2>2. proc' = [proc EXCEPT ![r] = p]
      BY <1>6, <2>1, <1>3 DEF CacheInv, ProcOK
    <2>3. onChain.cid \in Versions /\ onChain.cid \in onChain.was /\ onChain.cid # 0
      BY DEF CacheInv, ManifestOnChainOK, CacheAssumption
    <2>4. /\ p \in Command /\ p.step = "download manifest" /\ p.v = onChain.cid
          /\ p.cmd = proc[r].cmd /\ p.i = proc[r].i /\ p.want = proc[r].want
          /\ p.seen = proc[r].seen
      BY <1>3, <2>1, <2>3 DEF IsCommand, Command, Steps, Reading
    <2>5. IsCommand(r, p)
      BY <1>3, <2>3, <2>4 DEF IsCommand, AtStep, Reading, WithFile
    <2>6. Undisturbed => Follows(r, p)
      <3>1. p.v \in p.seen
        BY <1>3, <2>4 DEF IsCommand
      <3> QED BY <2>4, <3>1, SameKnowledge DEF Follows, WithFile
    <2>7. CanVouch => Knows(r, p)
      BY <2>4, SameKnowledge
    <2>8. Undisturbed /\ ~returned => Vouched(manifest.cid, p.want)
      BY <2>4, SameKnowledge
    <2>9. ASSUME Undisturbed, ~returned PROVE Vouched(p.v, p.want)
      <3>1. PICK m : m = manifest.cid
        OBVIOUS
      <3>2. Vouched(m, p.want)
        BY <2>8, <2>9, <3>1
      <3>3. ASSUME NEW f \in Files, Own(f) PROVE FileVouched(p.v, p.want[f], f)
        <4>1. FileVouched(m, p.want[f], f)
          BY <3>2, <3>3 DEF Vouched
        <4> QED BY <2>3, <2>4, <4>1 DEF FileVouched
      <3> QED BY <2>4, <3>3 DEF Vouched
    <2> QED BY <1>1, <1>2, <1>3, <1>4, <2>2, <2>5, <2>6, <2>7, <2>8, <2>9, WorkingStep
  <1> QED BY <1>5, <1>6 DEF CacheManifest

\* The next operation of a plan, after one that read nothing.
LEMMA OperationDone ==
    ASSUME PlanAssumption, CacheInv, NEW r \in Roles, Awake(r), NEW p, p = Advanced(r, proc[r])
    PROVE  /\ IsCommand(r, p) /\ p.step \in {"manifest", "get", "packages", "run"}
           /\ p.want = proc[r].want /\ p.seen = proc[r].seen /\ p.i = proc[r].i + 1
           /\ Undisturbed => Follows(r, p)
           /\ Undisturbed /\ ~returned => Vouched(manifest.cid, p.want)
  PROOF
  <1>1. IsCommand(r, proc[r])
    BY DEF CacheInv, ProcOK
  <1>2. proc[r] \in Command
    BY <1>1 DEF IsCommand
  <1>3. /\ p \in Command /\ AtStep(r, p.cmd, p.step, p.i)
        /\ p.step \in {"manifest", "get", "packages", "run"}
        /\ p.want = proc[r].want /\ p.seen = proc[r].seen /\ p.i = proc[r].i + 1
    BY <1>2, AdvancedIs
  <1>4. IsCommand(r, p)
    BY <1>1, <1>3 DEF IsCommand, Awake
  <1>5. Undisturbed => \A f \in Files : p.want[f] \in EverPinned(f)
    BY <1>3 DEF CacheInv, Follows
  <1>6. Undisturbed /\ ~returned => Vouched(manifest.cid, p.want)
    BY <1>3 DEF CacheInv, IfNotReturned
  <1>7. Undisturbed => Follows(r, p)
    BY <1>3, <1>5 DEF Follows, WithFile
  <1> QED BY <1>3, <1>4, <1>6, <1>7

\* What it knows, when the operation has done its part.
LEMMA KnowsMore ==
    ASSUME PlanAssumption, NEW r \in Roles, NEW q \in Command, NEW p,
           p.want = q.want, p.seen = q.seen, p.i = q.i + 1,
           p.step \in {"manifest", "get", "packages", "run"},
           Knows(r, q), q.i \notin Reads(r), q.i \in Gets(r) => HasGot(r, q, q.i)
    PROVE  Knows(r, p)
  PROOF
  <1>1. q.i \in Nat \ {0} /\ \A j \in DOMAIN Plan[r] : j \in Nat \ {0}
    BY DEF Command, PlanAssumption
  <1>2. \A j \in DOMAIN Plan[r] : j < p.i => j < q.i \/ j = q.i
    BY <1>1
  <1>3. Trusts(p)
    BY DEF Knows, Trusts
  <1>4. ASSUME NEW j \in Reads(r), j < p.i PROVE HasRead(r, p, j)
    <2>1. j < q.i
      BY <1>2, <1>4 DEF Reads
    <2>2. HasRead(r, q, j)
      BY <2>1 DEF Knows
    <2> QED BY <2>2 DEF HasRead
  <1>5. ASSUME NEW j \in Gets(r), j < p.i PROVE HasGot(r, p, j)
    <2>1. HasGot(r, q, j)
      BY <1>2, <1>5 DEF Knows, Gets
    <2> QED BY <2>1 DEF HasGot
  <1> QED BY <1>3, <1>4, <1>5 DEF Knows

\* The next operation of a plan, after a read of the manifest.
LEMMA ManifestIsRead ==
    ASSUME CacheAssumption, PlanAssumption, CacheInv, NEW r \in Roles, On(r, "open"),
           proc[r].cmd # "submit", NEW w, NEW p,
           w = [f \in Files |-> IF f \in Plan[r][proc[r].i].files THEN Pins[manifest.cid][f]
                                ELSE proc[r].want[f]],
           p = [Advanced(r, proc[r]) EXCEPT !.want = w]
    PROVE  /\ IsCommand(r, p) /\ p.step # "download manifest"
           /\ Undisturbed => Follows(r, p)
           /\ CanVouch => Knows(r, p)
           /\ Undisturbed /\ ~returned => Vouched(manifest.cid, p.want)
  PROOF
  <1>1. IsCommand(r, proc[r]) /\ proc[r].step = "open" /\ Awake(r) /\ proc[r] \in Command
    BY DEF On, Awake, CacheInv, ProcOK, IsCommand
  <1>2. PICK i : i = proc[r].i
    OBVIOUS
  <1>3. i \in Reads(r) /\ i \in Nat \ {0} /\ i \notin Gets(r) /\ manifest.cid # 0
          /\ manifest.cid \in Versions
    BY <1>1, <1>2 DEF IsCommand, AtStep, Reading, Command, Reads, Gets, CacheInv, DiskOK
  <1>4. PICK F : F = Plan[r][i].files
    OBVIOUS
  <1>5. F \subseteq Files /\ \A j \in DOMAIN Plan[r] : j \in Nat \ {0}
    <2>1. Plan[r] \in Seq(Operations) /\ i \in DOMAIN Plan[r] /\ Plan[r][i].op = "read"
      BY <1>3 DEF PlanAssumption, Reads
    <2>2. Plan[r][i] \in Operations
      BY <2>1
    <2> QED BY <1>4, <2>1, <2>2 DEF Operations
  <1>6. PICK old : old = proc[r].want
    OBVIOUS
  <1>7. PICK m : m = manifest.cid
    OBVIOUS
  <1>8. \A f \in Files : w[f] = IF f \in F THEN Pins[m][f] ELSE old[f]
    BY <1>2, <1>4, <1>6, <1>7
  <1>9. w \in [Files -> Contents]
    <2>1. old \in [Files -> Contents]
      BY <1>1, <1>6 DEF Command
    <2> QED BY <1>2, <1>3, <1>4, <1>6, <1>7, <2>1, ContentsPinned
  <1>10. PICK q : q = Advanced(r, proc[r])
    OBVIOUS
  <1>11. /\ q \in Command /\ AtStep(r, q.cmd, q.step, q.i)
         /\ q.step \in {"manifest", "get", "packages", "run"}
         /\ q.i = i + 1 /\ q.seen = proc[r].seen
    BY <1>1, <1>2, <1>10, AdvancedIs
  <1>12. /\ p \in Command /\ p.step = q.step /\ p.i = i + 1 /\ p.seen = proc[r].seen
         /\ p.want = w /\ p.cmd = q.cmd
    <2>1. p = [q EXCEPT !.want = w]
      BY <1>10
    <2> QED BY <1>9, <1>11, <2>1 DEF Command
  <1>13. IsCommand(r, p)
    BY <1>1, <1>11, <1>12 DEF IsCommand
  <1>14. ASSUME Undisturbed PROVE Follows(r, p)
    <2>1. \A f \in Files : old[f] \in EverPinned(f)
      BY <1>6, <1>14 DEF CacheInv, Follows
    <2>2. \A f \in Files : Pins[m][f] \in EverPinned(f)
      BY <1>3, <1>7, <1>14 DEF CacheInv, PinnedOnce, EverPinned
    <2>3. \A f \in Files : p.want[f] \in EverPinned(f)
      BY <1>8, <1>12, <2>1, <2>2
    <2> QED BY <1>11, <1>12, <2>3 DEF Follows, WithFile
  <1>15. ASSUME Undisturbed, ~returned PROVE Vouched(m, w)
    <2>1. Vouched(m, old)
      BY <1>6, <1>7, <1>15 DEF CacheInv, IfNotReturned
    <2>2. ASSUME NEW f \in Files, Own(f) PROVE FileVouched(m, w[f], f)
      <3>1. FileVouched(m, old[f], f)
        BY <2>1, <2>2 DEF Vouched
      <3>2. w[f] = Pins[m][f] \/ w[f] = old[f]
        BY <1>8
      <3> QED BY <1>3, <1>7, <3>1, <3>2 DEF FileVouched
    <2> QED BY <2>1, <2>2 DEF Vouched
  <1>16. ASSUME CanVouch PROVE Knows(r, p)
    <2>1. Knows(r, proc[r])
      BY <1>16 DEF CacheInv
    <2>2. Trusts(p)
      <3>1. SUFFICES ASSUME NEW f \in Files, Own(f), w[f] # None, store[Key[f]] = w[f]
                     PROVE  file[f] \in {None, w[f]}
        BY <1>12 DEF Trusts
      <3>2. CASE f \notin F
        BY <1>6, <1>8, <2>1, <3>1, <3>2 DEF Knows, Trusts
      <3>3. CASE f \in F /\ ~returned
        <4>1. FileVouched(m, w[f], f)
          BY <1>15, <1>16, <3>1, <3>3, VouchIsUndisturbed DEF Vouched
        <4> QED BY <1>3, <1>7, <1>8, <3>1, <3>3, <4>1 DEF FileVouched
      <3>4. CASE f \in F /\ ~torn
        <4>1. \A s \in Roles : ~On(s, "store")
          BY <1>1, <1>16 DEF CanVouch, CacheInv, OneAtATime, Awake, On
        <4> QED BY <1>16, <3>1, <3>4, <4>1, VouchIsUndisturbed DEF CacheInv, IfNotTorn
      <3> QED BY <1>16, <3>2, <3>3, <3>4, VouchIsUndisturbed
    <2>3. ASSUME NEW j \in Reads(r), j < p.i PROVE HasRead(r, p, j)
      <3>1. CASE j = i
        <4>1. m \in p.seen
          BY <1>1, <1>7, <1>12, <2>1 DEF Knows
        <4> QED BY <1>4, <1>5, <1>8, <1>12, <3>1, <4>1 DEF HasRead
      <3>2. CASE j # i
        <4>1. j < i
          BY <1>3, <1>5, <1>12, <2>3, <3>2 DEF Reads
        <4>2. PICK v \in proc[r].seen : \A f \in Plan[r][j].files : old[f] = Pins[v][f]
          BY <1>2, <1>6, <2>1, <4>1 DEF Knows, HasRead
        <4>3. Plan[r][j].files \cap F = {}
          BY <1>3, <1>4, <3>2 DEF PlanAssumption
        <4>4. Plan[r][j].files \subseteq Files
          <5>1. Plan[r] \in Seq(Operations) /\ j \in DOMAIN Plan[r] /\ Plan[r][j].op = "read"
            BY DEF PlanAssumption, Reads
          <5>2. Plan[r][j] \in Operations
            BY <5>1
          <5> QED BY <5>1, <5>2 DEF Operations
        <4>5. \A f \in Plan[r][j].files : w[f] = Pins[v][f]
          BY <1>8, <4>2, <4>3, <4>4
        <4> QED BY <1>12, <4>5 DEF HasRead
      <3> QED BY <3>1, <3>2
    <2>4. ASSUME NEW j \in Gets(r), j < p.i PROVE HasGot(r, p, j)
      <3>1. j < i
        BY <1>3, <1>5, <1>12, <2>4 DEF Gets
      <3>2. HasGot(r, proc[r], j)
        BY <1>2, <2>1, <3>1 DEF Knows
      <3>3. PICK k \in Reads(r) : k < j /\ Plan[r][j].file \in Plan[r][k].files
        BY DEF PlanAssumption
      <3>4. k # i
        BY <1>3, <1>5, <3>1, <3>3 DEF Reads, Gets
      <3>5. Plan[r][j].file \notin F
        BY <1>3, <1>4, <3>3, <3>4 DEF PlanAssumption
      <3>6. Plan[r][j].file \in Files
        BY WantedIsFile
      <3> QED BY <1>6, <1>8, <1>12, <3>2, <3>5, <3>6 DEF HasGot
    <2>5. p.step \notin {"open", "submit"}
      BY <1>11, <1>12
    <2> QED BY <2>2, <2>3, <2>4, <2>5 DEF Knows
  <1> QED BY <1>7, <1>11, <1>12, <1>13, <1>14, <1>15, <1>16

LEMMA GetManifestKeepsCacheInv ==
    ASSUME CacheAssumption, PlanAssumption, CacheInv, NEW r \in Roles, GetManifest(r)
    PROVE  CacheInv'
  PROOF
  <1>1. UNCHANGED <<onChain, host, manifest, file, store, overlapped, torn, forged, returned, uploads>>
    BY DEF GetManifest, disk, counts, ghosts
  <1>2. (Undisturbed' => Undisturbed) /\ (CanVouch' => CanVouch) /\ forged' \in BOOLEAN
    BY <1>1, Calmer DEF CacheInv, GhostsOK
  <1>3. IsCommand(r, proc[r]) /\ proc[r].step = "open" /\ Awake(r) /\ On(r, "open")
    BY DEF GetManifest, On, Awake, CacheInv, ProcOK
  <1>4. ~On(r, "sidecar") /\ ~On(r, "store")
    BY <1>3 DEF On
  <1>5. CASE proc[r].cmd = "submit"
    <2>1. PICK p : p = [proc[r] EXCEPT !.v = manifest.cid, !.step = "submit"]
      OBVIOUS
    <2>2. proc' = [proc EXCEPT ![r] = p]
      BY <1>5, <2>1 DEF GetManifest
    <2>3. manifest.cid \in Versions
      BY <1>3 DEF CacheInv, DiskOK, IsCommand
    <2>4. /\ p \in Command /\ p.step = "submit" /\ p.v = manifest.cid /\ p.cmd = proc[r].cmd
          /\ p.i = proc[r].i /\ p.want = proc[r].want /\ p.seen = proc[r].seen
      BY <1>3, <2>1, <2>3 DEF IsCommand, Command, Steps
    <2>5. IsCommand(r, p)
      BY <1>3, <2>4 DEF IsCommand, AtStep, Reading, WithFile
    <2>6. Undisturbed => Follows(r, p)
      BY <2>4, SameKnowledge DEF Follows, WithFile
    <2>7. ASSUME CanVouch PROVE Knows(r, p)
      <3>1. p.v \in p.seen
        BY <1>3, <2>4, <2>7 DEF CacheInv, Knows
      <3>2. PICK q : q = [p EXCEPT !.step = "fetch"]
        OBVIOUS
      <3>3. q.want = p.want /\ q.seen = p.seen /\ q.i = p.i /\ q.step = "fetch"
        BY <2>4, <3>2 DEF Command
      <3>4. Knows(r, q)
        BY <2>4, <2>7, <3>3, SameKnowledge
      <3>5. Trusts(p)
        BY <3>3, <3>4 DEF Knows, Trusts
      <3>6. ASSUME NEW j \in Reads(r), j < p.i PROVE HasRead(r, p, j)
        <4>1. HasRead(r, q, j)
          BY <3>3, <3>4, <3>6 DEF Knows
        <4> QED BY <3>3, <4>1 DEF HasRead
      <3>7. \A j \in Gets(r) : j < p.i => HasGot(r, p, j)
        BY <3>3, <3>4 DEF Knows, HasGot
      <3> QED BY <2>4, <3>1, <3>5, <3>6, <3>7 DEF Knows
    <2>8. Undisturbed /\ ~returned => Vouched(manifest.cid, p.want)
      BY <2>4, SameKnowledge
    <2> QED BY <1>1, <1>2, <1>3, <1>4, <2>2, <2>4, <2>5, <2>6, <2>7, <2>8, WorkingStep
  <1>6. CASE proc[r].cmd # "submit"
    <2>1. PICK w : w = [f \in Files |-> IF f \in Plan[r][proc[r].i].files
                                        THEN Pins[manifest.cid][f] ELSE proc[r].want[f]]
      OBVIOUS
    <2>2. PICK p : p = [Advanced(r, proc[r]) EXCEPT !.want = w]
      OBVIOUS
    <2>3. proc' = [proc EXCEPT ![r] = p]
      BY <1>6, <2>1, <2>2 DEF GetManifest
    <2>4. /\ IsCommand(r, p) /\ p.step # "download manifest"
          /\ Undisturbed => Follows(r, p)
          /\ CanVouch => Knows(r, p)
          /\ Undisturbed /\ ~returned => Vouched(manifest.cid, p.want)
      BY <1>3, <1>6, <2>1, <2>2, ManifestIsRead
    <2> QED BY <1>1, <1>2, <1>3, <1>4, <2>3, <2>4, WorkingStep
  <1> QED BY <1>5, <1>6

\* An operation that has read no manifest and left the cached files alone is over.
LEMMA NextOperation ==
    ASSUME CacheAssumption, PlanAssumption, CacheInv, NEW r \in Roles, Awake(r), Advances(r),
           UNCHANGED <<onChain, host, manifest, file, store, overlapped, torn, forged, returned,
                       uploads>>,
           proc[r].i \notin Reads(r),
           CanVouch /\ proc[r].i \in Gets(r) => HasGot(r, proc[r], proc[r].i),
           ~On(r, "sidecar"), ~On(r, "store")
    PROVE  CacheInv'
  PROOF
  <1>1. (Undisturbed' => Undisturbed) /\ (CanVouch' => CanVouch) /\ forged' \in BOOLEAN
    BY Calmer DEF CacheInv, GhostsOK
  <1>2. PICK p : p = Advanced(r, proc[r])
    OBVIOUS
  <1>3. proc' = [proc EXCEPT ![r] = p]
    BY <1>2 DEF Advances
  <1>4. /\ IsCommand(r, p) /\ p.step \in {"manifest", "get", "packages", "run"}
        /\ p.want = proc[r].want /\ p.seen = proc[r].seen /\ p.i = proc[r].i + 1
        /\ Undisturbed => Follows(r, p)
        /\ Undisturbed /\ ~returned => Vouched(manifest.cid, p.want)
    BY <1>2, OperationDone
  <1>5. ASSUME CanVouch PROVE Knows(r, p)
    <2>1. PICK q : q = proc[r]
      OBVIOUS
    <2>2. q \in Command /\ Knows(r, q)
      BY <1>5, <2>1 DEF CacheInv, ProcOK, IsCommand
    <2> QED BY <1>4, <1>5, <2>1, <2>2, KnowsMore
  <1>6. p.step # "download manifest"
    BY <1>4
  <1> QED BY <1>1, <1>3, <1>4, <1>5, <1>6, WorkingStep

LEMMA EnsureFileExistsKeepsCacheInv ==
    ASSUME CacheAssumption, PlanAssumption, CacheInv, NEW r \in Roles, EnsureFileExists(r)
    PROVE  CacheInv'
  PROOF
  <1>1. UNCHANGED <<onChain, host, manifest, file, store, overlapped, torn, forged, returned, uploads>>
    BY DEF EnsureFileExists, disk, counts, ghosts
  <1>2. (Undisturbed' => Undisturbed) /\ (CanVouch' => CanVouch) /\ forged' \in BOOLEAN
    BY <1>1, Calmer DEF CacheInv, GhostsOK
  <1>3. IsCommand(r, proc[r]) /\ proc[r].step = "get" /\ Awake(r)
    BY DEF EnsureFileExists, On, Awake, CacheInv, ProcOK
  <1>4. ~On(r, "sidecar") /\ ~On(r, "store")
    BY <1>3 DEF On
  <1>5. PICK i : i = proc[r].i
    OBVIOUS
  <1>6. i \in Gets(r) /\ i \notin Reads(r)
    BY <1>3, <1>5 DEF IsCommand, AtStep, Gets, Reads
  <1>7. CASE NeedsDownload(r, Wanted(r))
    <2>1. PICK p : p = [proc[r] EXCEPT !.snap = store, !.step = "download"]
      OBVIOUS
    <2>2. proc' = [proc EXCEPT ![r] = p]
      BY <1>3, <1>7, <2>1 DEF EnsureFileExists, CacheInv, ProcOK
    <2>3. /\ p \in Command /\ p.step = "download" /\ p.cmd = proc[r].cmd /\ p.i = i
          /\ p.want = proc[r].want /\ p.snap = store /\ p.seen = proc[r].seen
      BY <1>3, <1>5, <2>1 DEF IsCommand, Command, Steps, WithFile, CacheInv, DiskOK
    <2>4. IsCommand(r, p)
      BY <1>3, <1>6, <2>3 DEF IsCommand, AtStep, Reading, WithFile
    <2>5. Undisturbed => Follows(r, p)
      BY <1>5, <2>3, SameKnowledge DEF Follows, WithFile
    <2>6. CanVouch => Knows(r, p)
      BY <1>5, <2>3, SameKnowledge
    <2>7. Undisturbed /\ ~returned => Vouched(manifest.cid, p.want)
      BY <1>5, <2>3, SameKnowledge
    <2> QED BY <1>1, <1>2, <1>3, <1>4, <2>2, <2>3, <2>4, <2>5, <2>6, <2>7, WorkingStep
  <1>8. CASE ~NeedsDownload(r, Wanted(r))
    <2>1. Advances(r)
      BY <1>8 DEF EnsureFileExists
    <2>2. ASSUME CanVouch PROVE HasGot(r, proc[r], i)
      <3>1. Knows(r, proc[r])
        BY <2>2 DEF CacheInv
      <3>2. PICK f : f = Plan[r][i].file
        OBVIOUS
      <3>3. PICK j \in Reads(r) : j < i /\ f \in Plan[r][j].files
        BY <1>6, <3>2 DEF PlanAssumption
      <3>4. f \in Files
        BY <1>6, <3>2, WantedIsFile
      <3>5. PICK v \in proc[r].seen : \A g \in Plan[r][j].files : proc[r].want[g] = Pins[v][g]
        BY <1>5, <3>1, <3>3 DEF Knows, HasRead
      <3>6. proc[r].want[f] # None
        <4>1. v \in Versions
          BY <1>3 DEF IsCommand, Command
        <4>2. proc[r].want[f] = Pins[v][f]
          BY <3>3, <3>5
        <4> QED BY <3>4, <4>1, <4>2 DEF CacheAssumption
      <3>7. file[f] # None /\ store[Key[f]] = proc[r].want[f]
        BY <1>5, <1>8, <3>2 DEF NeedsDownload, Wanted
      <3> QED BY <3>1, <3>2, <3>4, <3>6, <3>7 DEF HasGot, Knows, Trusts
    <2> QED BY <1>1, <1>3, <1>4, <1>5, <1>6, <2>1, <2>2, NextOperation
  <1> QED BY <1>7, <1>8

LEMMA DownloadKeepsCacheInv ==
    ASSUME CacheAssumption, CacheInv, NEW r \in Roles, Download(r)
    PROVE  CacheInv'
  PROOF
  <1>1. UNCHANGED <<onChain, host, manifest, file, store, overlapped, torn, returned, uploads>>
    BY DEF Download, disk
  <1>2. IsCommand(r, proc[r]) /\ proc[r].step = "download" /\ Awake(r)
    BY DEF Download, On, Awake, CacheInv, ProcOK
  <1>3. ~On(r, "sidecar") /\ ~On(r, "store") /\ torn' \in BOOLEAN /\ forged \in BOOLEAN
    BY <1>1, <1>2 DEF On, CacheInv, GhostsOK
  <1>4. PICK c : c = WantedCid(r)
    OBVIOUS
  <1>5. Saved(r, c) \/ NotRetrieved(r)
    BY <1>4 DEF Download, RetrieveFromIpfs
  <1>6. CASE NotRetrieved(r)
    <2>1. Stops(r) /\ forged' = forged
      BY <1>6 DEF NotRetrieved
    <2>2. NoRawUploadUnderDP'
      BY <1>1, <2>1, Calmer, NothingUploaded DEF CacheInv
    <2> QED BY <1>1, <1>2, <1>3, <2>1, <2>2, StoppingStep
  <1>7. CASE Saved(r, c)
    <2>1. PICK got \in {c, Other} :
            /\ Verifies => got = c
            /\ forged' = (forged \/ got # c)
            /\ proc' = [proc EXCEPT ![r].cid = got, ![r].step = "arrived"]
      BY <1>7 DEF Saved, VerifyDownloadedCid, Answered
    <2>2. forged' \in BOOLEAN /\ (forged => forged')
      BY <1>3, <2>1
    <2>3. (Undisturbed' => Undisturbed) /\ (CanVouch' => CanVouch)
      BY <1>1, <2>2, Calmer
    <2>4. Undisturbed' => got = c
      BY <1>1, <2>1 DEF Undisturbed, Verifies, host
    <2>5. PICK f : f = Wanted(r)
      OBVIOUS
    <2>6. f \in Files /\ f = Plan[r][proc[r].i].file /\ c = proc[r].want[f]
      BY <1>2, <1>4, <2>5, WantedIsFile, PlanAssumption
         DEF Wanted, WantedCid, IsCommand, AtStep, WithFile
    <2>7. got \in Contents
      <3>1. c \in Contents
        BY <1>2, <2>6 DEF IsCommand, Command
      <3> QED BY <2>1, <3>1 DEF Contents
    <2>8. PICK p : p = [proc[r] EXCEPT !.cid = got, !.step = "arrived"]
      OBVIOUS
    <2>9. proc' = [proc EXCEPT ![r] = p]
      BY <2>1, <2>8 DEF CacheInv, ProcOK
    <2>10. /\ p \in Command /\ p.step = "arrived" /\ p.cmd = proc[r].cmd /\ p.i = proc[r].i
           /\ p.want = proc[r].want /\ p.snap = proc[r].snap /\ p.seen = proc[r].seen
           /\ p.cid = got
      BY <1>2, <2>7, <2>8 DEF IsCommand, Command, Steps, WithFile
    <2>11. IsCommand(r, p)
      BY <1>2, <2>10 DEF IsCommand, AtStep, Reading, WithFile
    <2>12. ASSUME Undisturbed' PROVE Follows(r, p)
      <3>1. Follows(r, proc[r])
        BY <2>3, <2>12 DEF CacheInv
      <3>2. \A g \in Files : p.want[g] \in EverPinned(g)
        BY <2>10, <3>1 DEF Follows
      <3>3. p.cid = p.want[Plan[r][p.i].file]
        BY <2>4, <2>6, <2>10, <2>12
      <3> QED BY <1>2, <2>10, <3>1, <3>2, <3>3 DEF Follows, WithFile
    <2>13. CanVouch => Knows(r, p)
      BY <2>10, SameKnowledge
    <2>14. Undisturbed /\ ~returned => Vouched(manifest.cid, p.want)
      BY <2>10, SameKnowledge
    <2> QED BY <1>1, <1>2, <1>3, <2>2, <2>3, <2>9, <2>10, <2>11, <2>12, <2>13, <2>14, WorkingStep
  <1> QED BY <1>5, <1>6, <1>7

LEMMA EnsureWorkerPackagesInstalledKeepsCacheInv ==
    ASSUME CacheAssumption, PlanAssumption, CacheInv, NEW r \in Roles,
           EnsureWorkerPackagesInstalled(r)
    PROVE  CacheInv'
  PROOF
  <1>1. UNCHANGED <<onChain, host, manifest, file, store, overlapped, torn, forged, returned, uploads>>
    BY DEF EnsureWorkerPackagesInstalled, ghosts
  <1>2. (Undisturbed' => Undisturbed) /\ (CanVouch' => CanVouch) /\ forged' \in BOOLEAN
          /\ torn' \in BOOLEAN
    BY <1>1, Calmer DEF CacheInv, GhostsOK
  <1>3. IsCommand(r, proc[r]) /\ proc[r].step = "packages" /\ Awake(r) /\ proc[r] \in Command
    BY DEF EnsureWorkerPackagesInstalled, On, Awake, CacheInv, ProcOK, IsCommand
  <1>4. ~On(r, "sidecar") /\ ~On(r, "store")
    BY <1>3 DEF On
  <1>5. PICK c : c = file[Requirements[r]]
    OBVIOUS
  <1>6. c \in Contents
    BY <1>5 DEF CacheInv, DiskOK, CacheAssumption
  <1>7. \/ Advances(r)
        \/ proc' = [proc EXCEPT ![r].cid = c, ![r].step = "marker"]
        \/ Stops(r)
    BY <1>5 DEF EnsureWorkerPackagesInstalled
  <1>8. CASE Advances(r)
    <2>1. proc[r].i \notin Reads(r) \cup Gets(r)
      BY <1>3 DEF IsCommand, AtStep
    <2> QED BY <1>1, <1>3, <1>4, <1>8, <2>1, NextOperation
  <1>9. CASE proc' = [proc EXCEPT ![r].cid = c, ![r].step = "marker"]
    <2>1. PICK p : p = [proc[r] EXCEPT !.cid = c, !.step = "marker"]
      OBVIOUS
    <2>2. proc' = [proc EXCEPT ![r] = p]
      BY <1>9, <2>1 DEF CacheInv, ProcOK
    <2>3. /\ p \in Command /\ p.step = "marker" /\ p.cmd = proc[r].cmd /\ p.i = proc[r].i
          /\ p.want = proc[r].want /\ p.seen = proc[r].seen
      BY <1>3, <1>6, <2>1 DEF Command, Steps
    <2>4. IsCommand(r, p)
      BY <1>3, <2>3 DEF IsCommand, AtStep, Reading, WithFile
    <2>5. Undisturbed => Follows(r, p)
      BY <2>3, SameKnowledge DEF Follows, WithFile
    <2>6. CanVouch => Knows(r, p)
      BY <2>3, SameKnowledge
    <2>7. Undisturbed /\ ~returned => Vouched(manifest.cid, p.want)
      BY <2>3, SameKnowledge
    <2> QED BY <1>1, <1>2, <1>3, <1>4, <2>2, <2>3, <2>4, <2>5, <2>6, <2>7, WorkingStep
  <1>10. CASE Stops(r)
    <2>1. NoRawUploadUnderDP'
      BY <1>1, <1>2, NothingUploaded DEF CacheInv
    <2> QED BY <1>1, <1>2, <1>3, <1>4, <1>10, <2>1, StoppingStep
  <1> QED BY <1>7, <1>8, <1>9, <1>10

LEMMA WriteMarkerKeepsCacheInv ==
    ASSUME CacheAssumption, PlanAssumption, CacheInv, NEW r \in Roles, WriteMarker(r)
    PROVE  CacheInv'
  PROOF
  <1>1. UNCHANGED <<onChain, host, manifest, file, store, overlapped, torn, forged, returned, uploads>>
          /\ Advances(r)
    BY DEF WriteMarker, counts, ghosts
  <1>2. IsCommand(r, proc[r]) /\ proc[r].step = "marker" /\ Awake(r)
    BY DEF WriteMarker, On, Awake, CacheInv, ProcOK
  <1>3. ~On(r, "sidecar") /\ ~On(r, "store")
    BY <1>2 DEF On
  <1>4. proc[r].i \notin Reads(r) \cup Gets(r)
    BY <1>2 DEF IsCommand, AtStep
  <1> QED BY <1>1, <1>2, <1>3, <1>4, NextOperation

LEMMA RunWorkerContainerKeepsCacheInv ==
    ASSUME CacheAssumption, CacheInv, NEW r \in Roles, RunWorkerContainer(r)
    PROVE  CacheInv'
  PROOF
  <1>1. UNCHANGED <<onChain, host, manifest, file, store, overlapped, torn, forged, returned, uploads>>
          /\ Stops(r)
    BY DEF RunWorkerContainer, ghosts
  <1>2. NoRawUploadUnderDP' /\ torn' \in BOOLEAN
    BY <1>1, Calmer, NothingUploaded DEF CacheInv, GhostsOK
  <1>3. Awake(r) /\ ~On(r, "sidecar") /\ ~On(r, "store")
    BY DEF RunWorkerContainer, On, Awake
  <1> QED BY <1>1, <1>2, <1>3, StoppingStep

LEMMA SubmitLmsKeepsCacheInv ==
    ASSUME CacheAssumption, CacheInv, NEW r \in Roles, SubmitLms(r)
    PROVE  CacheInv'
  PROOF
  <1>1. UNCHANGED <<onChain, host, manifest, file, store, overlapped, torn, forged, returned>>
          /\ Stops(r)
    BY DEF SubmitLms, ghosts
  <1>2. IsCommand(r, proc[r]) /\ proc[r].step = "submit" /\ Awake(r)
    BY DEF SubmitLms, On, Awake, CacheInv, ProcOK
  <1>3. ~On(r, "sidecar") /\ ~On(r, "store")
    BY <1>2 DEF On
  <1>4. torn' = torn /\ torn' \in BOOLEAN
    BY <1>1 DEF CacheInv, GhostsOK
  <1>5. PICK u : u = [seen |-> proc[r].seen, model |-> LocalModelPath(proc[r].v)]
    OBVIOUS
  <1>6. uploads' \subseteq uploads \cup {u}
    BY <1>5 DEF SubmitLms
  <1>7. ASSUME CanVouch PROVE NoRawUploadUnderDP'
    <2>1. proc[r].v \in proc[r].seen /\ proc[r].v \in Versions
      BY <1>2, <1>7 DEF CacheInv, Knows, IsCommand, Command
    <2>2. u.model = "raw" => DP[proc[r].v] = "off"
      BY <1>5, <2>1 DEF LocalModelPath, ClientDP, CacheAssumption
    <2>3. u.seen = proc[r].seen
      BY <1>5
    <2>4. \A w \in uploads : w.model = "raw" => \E v \in w.seen : DP[v] = "off"
      BY <1>7 DEF CacheInv, NoRawUploadUnderDP
    <2> QED BY <1>6, <2>1, <2>2, <2>3, <2>4 DEF NoRawUploadUnderDP
  <1>8. CanVouch' => NoRawUploadUnderDP'
    BY <1>1, <1>4, <1>7, Calmer
  <1>9. (torn => torn') /\ (torn' \/ (~On(r, "sidecar") /\ ~On(r, "store")))
    BY <1>3, <1>4
  <1> QED BY <1>1, <1>2, <1>4, <1>8, <1>9, StoppingStep

\* A kill leaves the content as it was, and the CIDs that are kept of it as they were or
\* unreadable.
LEMMA KillCommandKeepsCacheInv ==
    ASSUME CacheAssumption, CacheInv, NEW r \in Roles, KillCommand(r)
    PROVE  CacheInv'
  PROOF
  <1>1. UNCHANGED <<onChain, host, file, uploads, overlapped, forged, returned>> /\ Stops(r)
    BY DEF KillCommand
  <1>2. Awake(r) /\ proc' = [proc EXCEPT ![r] = Sleeping]
    BY DEF KillCommand, CacheInv, ProcOK, IsCommand, Awake, Stops
  <1>3. torn' = (torn \/ On(r, "sidecar") \/ On(r, "store"))
    BY DEF KillCommand
  <1>4. torn' \in BOOLEAN /\ (torn => torn') /\ GhostsOK'
    BY <1>1, <1>3 DEF CacheInv, GhostsOK
  <1>5. (Undisturbed' => Undisturbed) /\ (CanVouch' => CanVouch)
    BY <1>1, <1>4, Calmer
  <1>6. NoRawUploadUnderDP'
    BY <1>1, <1>5, NothingUploaded DEF CacheInv
  <1>7. CASE UNCHANGED <<manifest, store>>
    <2>1. torn' \/ (~On(r, "sidecar") /\ ~On(r, "store"))
      BY <1>3
    <2> QED BY <1>1, <1>2, <1>4, <1>6, <1>7, <2>1, StoppingStep
  <1>8. CASE ~(UNCHANGED <<manifest, store>>)
    <2>1. /\ torn' /\ manifest'.cid = manifest.cid /\ manifest'.sidecar \in {0, manifest.sidecar}
          /\ DiskOK'
          /\ \A f \in Files : store'[Key[f]] \in {None, store[Key[f]]}
      <3>1. CASE On(r, "sidecar") /\ manifest' = [manifest EXCEPT !.sidecar = 0] /\ store' = store
        BY <1>1, <1>3, <3>1 DEF CacheInv, DiskOK
      <3>2. CASE /\ On(r, "store") /\ manifest' = manifest
                 /\ store' = [k \in DOMAIN store |-> IF k \in StoreOf(Wanted(r)) THEN None
                                                     ELSE store[k]]
        <4>1. DOMAIN store = StoreKeys /\ None \in Contents
          BY DEF CacheInv, DiskOK, Contents
        <4>2. PICK K : K = StoreOf(Wanted(r))
          OBVIOUS
        <4>3. store' = [k \in StoreKeys |-> IF k \in K THEN None ELSE store[k]]
          BY <3>2, <4>1, <4>2
        <4>4. store' \in [StoreKeys -> Contents]
          BY <4>1, <4>3 DEF CacheInv, DiskOK
        <4>5. \A f \in Files : store'[Key[f]] \in {None, store[Key[f]]}
          BY <4>3, StoreKeyOf
        <4>6. torn' /\ manifest'.cid = manifest.cid /\ manifest'.sidecar = manifest.sidecar
          BY <1>3, <3>2
        <4> QED BY <1>1, <3>2, <4>4, <4>5, <4>6 DEF CacheInv, DiskOK
      <3> QED BY <1>8, <3>1, <3>2 DEF KillCommand
    <2>2. PICK p : p = Sleeping
      OBVIOUS
    <2>3. /\ IsCommand(r, p)' /\ Follows(r, p)' /\ Knows(r, p)' /\ p.step = "idle"
          /\ \A f \in Files : p.want[f] = None
      <3>1. IsCommand(r, Sleeping)' /\ Follows(r, Sleeping)' /\ Knows(r, Sleeping)'
        BY SleepingIsCommand, SleepingFollows
      <3>2. IsCommand(r, p)'
        BY <2>2, <3>1 DEF IsCommand
      <3>3. Follows(r, p)'
        BY <2>2, <3>1 DEF Follows, EverPinned
      <3>4. Knows(r, p)'
        BY <2>2, <3>1 DEF Knows, HasRead, HasGot, Trusts
      <3> QED BY <2>2, <3>2, <3>3, <3>4, SleepingIs
    <2>4. ~overlapped' => \A s \in Roles \ {r} : proc[s] = Sleeping
      BY <1>1, <1>2, Alone DEF CacheInv
    <2>5. Undisturbed' => PinnedOnce'
      BY <1>1, <1>5, <2>1 DEF CacheInv, PinnedOnce, EverPinned
    <2>6. ASSUME Undisturbed', ~returned PROVE Vouched(manifest.cid, p.want)'
      <3>1. PICK m : m = manifest.cid
        OBVIOUS
      <3>2. Vouched(m, proc[r].want)
        BY <1>5, <2>6, <3>1 DEF CacheInv, IfNotReturned
      <3>3. onChain.cid \in Versions /\ onChain.cid # 0
        BY DEF CacheInv, ManifestOnChainOK, CacheAssumption
      <3>4. ASSUME NEW f \in Files, Own(f) PROVE FileVouched(m, p.want[f], f)'
        <4>1. FileVouched(m, proc[r].want[f], f)
          BY <3>2, <3>4 DEF Vouched
        <4>2. Pins[onChain.cid][f] # None /\ p.want[f] = None
          BY <2>3, <3>3 DEF CacheAssumption
        <4>3. m \in Versions \cup {0}
          BY <3>1 DEF CacheInv, DiskOK
        <4>4. m # 0 => Pins[m][f] # None
          BY <4>3 DEF CacheAssumption
        <4>5. store'[Key[f]] \in {None, store[Key[f]]} /\ onChain' = onChain /\ file' = file
          BY <1>1, <2>1
        <4> QED BY <4>1, <4>2, <4>4, <4>5 DEF FileVouched
      <3>5. manifest'.sidecar = onChain.cid => manifest'.sidecar = m
        BY <2>1, <3>2, <3>3 DEF Vouched
      <3>6. Vouched(m, p.want)'
        BY <1>1, <3>4, <3>5 DEF Vouched
      <3> QED BY <2>1, <3>1, <3>6, VouchedOnDisk
    <2>7. IfNotTorn'
      BY <2>1 DEF IfNotTorn
    <2>8. manifest.cid # 0 => manifest'.cid # 0
      BY <2>1
    <2>9. proc' = [proc EXCEPT ![r] = p]
      BY <1>2, <2>2
    <2> QED BY <1>1, <1>4, <1>6, <2>1, <2>3, <2>4, <2>5, <2>6, <2>7, <2>8, <2>9, CommandStep
  <1> QED BY <1>7, <1>8

\* With the manifest that was asked for, or with one that nobody hashed (forged).
LEMMA ReplaceManifestKeepsCacheInv ==
    ASSUME CacheAssumption, CacheInv, NEW r \in Roles, ReplaceManifest(r)
    PROVE  CacheInv'
  PROOF
  <1>1. UNCHANGED <<onChain, host, file, store, overlapped, torn, returned, uploads>>
    BY DEF ReplaceManifest
  <1>2. IsCommand(r, proc[r]) /\ proc[r].step = "download manifest" /\ Awake(r)
    BY DEF ReplaceManifest, On, Awake, CacheInv, ProcOK
  <1>3. ~On(r, "sidecar") /\ ~On(r, "store") /\ torn' \in BOOLEAN
    BY <1>1, <1>2 DEF On, CacheInv, GhostsOK
  <1>4. CASE NotRetrieved(r) /\ UNCHANGED manifest
    <2>1. Stops(r) /\ forged' = forged
      BY <1>4 DEF NotRetrieved
    <2>2. NoRawUploadUnderDP'
      BY <1>1, <2>1, Calmer, NothingUploaded DEF CacheInv
    <2> QED BY <1>1, <1>2, <1>3, <1>4, <2>1, <2>2, StoppingStep
  <1>5. ASSUME NEW got \in Versions,
               VerifyDownloadedCid(got, proc[r].v), Answered(got, proc[r].v),
               manifest' = [manifest EXCEPT !.cid = got], Continues(r, "sidecar")
        PROVE  CacheInv'
    <2>1. PICK p : p = [proc[r] EXCEPT !.step = "sidecar"]
      OBVIOUS
    <2>2. proc' = [proc EXCEPT ![r] = p]
      BY <1>5, <2>1 DEF Continues
    <2>3. /\ p \in Command /\ p.step = "sidecar" /\ p.cmd = proc[r].cmd /\ p.i = proc[r].i
          /\ p.want = proc[r].want /\ p.seen = proc[r].seen /\ p.v = proc[r].v
      BY <1>2, <2>1 DEF IsCommand, Command, Steps, Reading
    <2>4. manifest'.cid = got /\ manifest'.sidecar = manifest.sidecar /\ got # 0 /\ DiskOK'
      BY <1>1, <1>5 DEF CacheInv, DiskOK, CacheAssumption
    <2>5. forged' \in BOOLEAN /\ (forged => forged') /\ GhostsOK'
      BY <1>1, <1>5 DEF Answered, CacheInv, GhostsOK
    <2>6. (Undisturbed' => Undisturbed) /\ (CanVouch' => CanVouch)
      BY <1>1, <2>5, Calmer
    <2>7. Undisturbed' => got = proc[r].v
      BY <1>1, <1>5 DEF Undisturbed, Verifies, VerifyDownloadedCid, Answered, host
    <2>8. IsCommand(r, p)'
      BY <1>1, <1>2, <2>3, <2>4 DEF IsCommand, AtStep, Reading, WithFile
    <2>9. Undisturbed' => PinnedOnce'
      BY <1>1, <1>2, <2>4, <2>6, <2>7 DEF CacheInv, PinnedOnce, EverPinned, IsCommand
    <2>10. ASSUME Undisturbed' PROVE Follows(r, p)'
      <3>1. Follows(r, proc[r])
        BY <2>6, <2>10 DEF CacheInv
      <3>2. p.v \in p.seen /\ p.v = manifest'.cid
        BY <1>2, <2>3, <2>4, <2>7, <2>10, <3>1 DEF Follows
      <3>3. \A f \in Files : p.want[f] \in EverPinned(f)'
        BY <1>1, <2>3, <3>1 DEF Follows, EverPinned
      <3> QED BY <2>3, <3>2, <3>3 DEF Follows, WithFile
    <2>11. ASSUME CanVouch' PROVE Knows(r, p)'
      <3>1. Knows(r, p)
        BY <2>3, <2>6, <2>11, SameKnowledge
      <3> QED BY <1>1, <2>3, <3>1 DEF Knows, HasRead, HasGot, Trusts
    <2>12. ASSUME Undisturbed', ~returned PROVE Vouched(manifest.cid, p.want)'
      <3>1. Vouched(got, p.want)
        BY <1>2, <2>3, <2>6, <2>7, <2>12 DEF CacheInv, IfNotReturned, On
      <3>2. \A f \in Files : Own(f) => FileVouched(got, p.want[f], f)'
        BY <1>1, <3>1 DEF Vouched, FileVouched
      <3>3. manifest'.sidecar = onChain'.cid => manifest'.sidecar = got
        BY <1>1, <2>4, <3>1 DEF Vouched
      <3> QED BY <2>4, <3>2, <3>3 DEF Vouched, FileVouched
    <2>13. IfNotTorn'
      <3>1. \A s \in Roles : proc'[s] = IF s = r THEN p ELSE proc[s]
        BY <2>2 DEF CacheInv, ProcOK
      <3>2. On(r, "sidecar")'
        BY <2>3, <3>1 DEF On
      <3>3. \A s \in Roles : On(s, "store") => On(s, "store")' /\ Wanted(s)' = Wanted(s)
        BY <1>2, <3>1 DEF On, Wanted
      <3> QED BY <1>1, <2>6, <3>2, <3>3 DEF CacheInv, IfNotTorn
    <2>14. ~overlapped' => \A s \in Roles \ {r} : proc[s] = Sleeping
      BY <1>1, <1>2, Alone DEF CacheInv
    <2>15. NoRawUploadUnderDP'
      BY <1>1, <2>6, NothingUploaded DEF CacheInv
    <2>16. /\ UNCHANGED <<onChain, host, returned>>
           /\ (overlapped => overlapped') /\ (torn => torn')
           /\ (manifest.cid # 0 => manifest'.cid # 0) /\ p.step # "download manifest"
      BY <1>1, <2>3, <2>4
    <2> QED BY <2>2, <2>4, <2>5, <2>8, <2>9, <2>10, <2>11, <2>12, <2>13, <2>14, <2>15, <2>16,
               CommandStep
  <1> QED BY <1>4, <1>5 DEF ReplaceManifest

LEMMA WriteSidecarKeepsCacheInv ==
    ASSUME CacheAssumption, CacheInv, NEW r \in Roles, WriteSidecar(r)
    PROVE  CacheInv'
  PROOF
  <1>1. /\ UNCHANGED <<onChain, host, file, store, overlapped, torn, forged, returned, uploads>>
        /\ manifest' = [manifest EXCEPT !.sidecar = proc[r].v] /\ Continues(r, "open")
    BY DEF WriteSidecar, counts, ghosts
  <1>2. IsCommand(r, proc[r]) /\ proc[r].step = "sidecar" /\ Awake(r)
    BY DEF WriteSidecar, On, Awake, CacheInv, ProcOK
  <1>3. PICK p : p = [proc[r] EXCEPT !.step = "open"]
    OBVIOUS
  <1>4. proc' = [proc EXCEPT ![r] = p]
    BY <1>1, <1>3 DEF Continues
  <1>5. /\ p \in Command /\ p.step = "open" /\ p.cmd = proc[r].cmd /\ p.i = proc[r].i
        /\ p.want = proc[r].want /\ p.seen = proc[r].seen /\ p.v = proc[r].v
    BY <1>2, <1>3 DEF IsCommand, Command, Steps, Reading
  <1>6. /\ manifest'.cid = manifest.cid /\ manifest'.sidecar = proc[r].v /\ manifest.cid # 0
        /\ DiskOK'
    BY <1>1, <1>2 DEF CacheInv, DiskOK, IsCommand, ManifestOnChainOK
  <1>7. (Undisturbed' => Undisturbed) /\ (CanVouch' => CanVouch) /\ GhostsOK'
    BY <1>1, Calmer DEF CacheInv, GhostsOK
  <1>8. Undisturbed => proc[r].v = manifest.cid /\ manifest.cid \in p.seen
    BY <1>2, <1>5 DEF CacheInv, Follows
  <1>9. IsCommand(r, p)'
    BY <1>1, <1>2, <1>5, <1>6 DEF IsCommand, AtStep, Reading, WithFile
  <1>10. Undisturbed' => PinnedOnce'
    BY <1>1, <1>6, <1>7 DEF CacheInv, PinnedOnce, EverPinned
  <1>11. Undisturbed' => Follows(r, p)'
    BY <1>1, <1>5, <1>7, SameKnowledge DEF Follows, EverPinned, WithFile
  <1>12. ASSUME CanVouch' PROVE Knows(r, p)'
    <2>1. PICK q : q = [p EXCEPT !.step = "fetch"]
      OBVIOUS
    <2>2. q.want = p.want /\ q.seen = p.seen /\ q.i = p.i /\ q.step = "fetch"
      BY <1>5, <2>1 DEF Command
    <2>3. Knows(r, q)
      BY <1>5, <1>7, <1>12, <2>2, SameKnowledge
    <2>4. Trusts(p)'
      BY <1>1, <2>2, <2>3 DEF Knows, Trusts
    <2>5. ASSUME NEW j \in Reads(r), j < p.i PROVE HasRead(r, p, j)'
      <3>1. HasRead(r, q, j)
        BY <2>2, <2>3, <2>5 DEF Knows
      <3> QED BY <2>2, <3>1 DEF HasRead
    <2>6. \A j \in Gets(r) : j < p.i => HasGot(r, p, j)'
      BY <1>1, <2>2, <2>3 DEF Knows, HasGot
    <2>7. manifest'.cid \in p.seen
      BY <1>6, <1>7, <1>8, <1>12, VouchIsUndisturbed
    <2> QED BY <1>5, <2>4, <2>5, <2>6, <2>7 DEF Knows
  <1>13. ASSUME Undisturbed', ~returned PROVE Vouched(manifest.cid, p.want)'
    <2>1. PICK m : m = manifest.cid
      OBVIOUS
    <2>2. Vouched(m, p.want)
      BY <1>5, <1>7, <1>13, <2>1, SameKnowledge
    <2>3. \A f \in Files : Own(f) => FileVouched(m, p.want[f], f)'
      BY <1>1, <2>2 DEF Vouched, FileVouched
    <2>4. manifest'.sidecar = m
      BY <1>6, <1>7, <1>8, <1>13, <2>1
    <2> QED BY <1>6, <2>1, <2>3, <2>4 DEF Vouched, FileVouched
  <1>14. IfNotTorn'
    <2>1. \A s \in Roles : proc'[s] = IF s = r THEN p ELSE proc[s]
      BY <1>4 DEF CacheInv, ProcOK
    <2>2. Undisturbed' => manifest'.sidecar = manifest'.cid
      BY <1>6, <1>7, <1>8
    <2>3. \A s \in Roles : On(s, "store") => On(s, "store")' /\ Wanted(s)' = Wanted(s)
      BY <1>2, <2>1 DEF On, Wanted
    <2> QED BY <1>1, <1>7, <2>2, <2>3 DEF CacheInv, IfNotTorn
  <1>15. ~overlapped' => \A s \in Roles \ {r} : proc[s] = Sleeping
    BY <1>1, <1>2, Alone DEF CacheInv
  <1>16. NoRawUploadUnderDP'
    BY <1>1, <1>7, NothingUploaded DEF CacheInv
  <1>17. p.step # "download manifest" /\ (manifest.cid # 0 => manifest'.cid # 0)
    BY <1>5, <1>6
  <1> QED BY <1>1, <1>4, <1>6, <1>7, <1>9, <1>10, <1>11, <1>12, <1>13, <1>14, <1>15, <1>16, <1>17,
             CommandStep

\* The file that is wanted is there before its CID is stored.
LEMMA ReplaceFileKeepsCacheInv ==
    ASSUME CacheAssumption, PlanAssumption, CacheInv, NEW r \in Roles, ReplaceFile(r)
    PROVE  CacheInv'
  PROOF
  <1>1. /\ UNCHANGED <<onChain, host, manifest, store, overlapped, torn, forged, returned, uploads>>
        /\ file' = [file EXCEPT ![Wanted(r)] = proc[r].cid] /\ Continues(r, "store")
    BY DEF ReplaceFile, counts, ghosts
  <1>2. IsCommand(r, proc[r]) /\ proc[r].step = "arrived" /\ Awake(r)
    BY DEF ReplaceFile, On, Awake, CacheInv, ProcOK
  <1>3. PICK p : p = [proc[r] EXCEPT !.step = "store"]
    OBVIOUS
  <1>4. proc' = [proc EXCEPT ![r] = p]
    BY <1>1, <1>3 DEF Continues
  <1>5. /\ p \in Command /\ p.step = "store" /\ p.cmd = proc[r].cmd /\ p.i = proc[r].i
        /\ p.want = proc[r].want /\ p.seen = proc[r].seen /\ p.snap = proc[r].snap
        /\ p.cid = proc[r].cid
    BY <1>2, <1>3 DEF IsCommand, Command, Steps, WithFile
  <1>6. PICK f : f = Wanted(r)
    OBVIOUS
  <1>7. f \in Files /\ f = Plan[r][p.i].file
    BY <1>2, <1>5, <1>6, WantedIsFile DEF Wanted, IsCommand, AtStep, WithFile
  <1>8. \A g \in Files : file'[g] = IF g = f THEN p.cid ELSE file[g]
    BY <1>1, <1>5, <1>6 DEF CacheInv, DiskOK
  <1>9. DiskOK'
    BY <1>1, <1>2 DEF CacheInv, DiskOK, IsCommand, Command
  <1>10. (Undisturbed' => Undisturbed) /\ (CanVouch' => CanVouch) /\ GhostsOK'
    BY <1>1, Calmer DEF CacheInv, GhostsOK
  <1>11. IsCommand(r, p)'
    BY <1>1, <1>2, <1>5 DEF IsCommand, AtStep, Reading, WithFile
  <1>12. Undisturbed => p.cid = p.want[f] /\ p.snap = store /\ \A g \in Files : p.want[g] \in EverPinned(g)
    <2>1. PICK w : w = proc[r].want
      OBVIOUS
    <2>2. Undisturbed => Follows(r, proc[r])
      BY DEF CacheInv
    <2>3. Undisturbed => /\ proc[r].cid = w[Plan[r][proc[r].i].file] /\ proc[r].snap = store
                         /\ \A g \in Files : w[g] \in EverPinned(g)
      BY <1>2, <2>1, <2>2 DEF Follows, WithFile
    <2>4. p.want = w /\ p.cid = proc[r].cid /\ p.snap = proc[r].snap /\ f = Plan[r][proc[r].i].file
      BY <1>5, <1>7, <2>1
    <2> QED BY <2>3, <2>4
  <1>13. Undisturbed' => PinnedOnce'
    BY <1>1, <1>10 DEF CacheInv, PinnedOnce, EverPinned
  <1>14. ASSUME Undisturbed' PROVE Follows(r, p)'
    <2>1. \A g \in Files : p.want[g] \in EverPinned(g)'
      BY <1>1, <1>10, <1>12, <1>14 DEF EverPinned
    <2>2. p.snap = store' /\ p.cid = p.want[f] /\ file'[f] = p.want[f]
      BY <1>1, <1>7, <1>8, <1>10, <1>12, <1>14
    <2> QED BY <1>5, <1>7, <2>1, <2>2 DEF Follows
  <1>15. ASSUME CanVouch' PROVE Knows(r, p)'
    <2>1. Knows(r, p)
      BY <1>5, <1>10, <1>15, SameKnowledge
    <2>2. p.cid = p.want[f]
      BY <1>10, <1>12, <1>15, VouchIsUndisturbed
    <2>3. Trusts(p)'
      BY <1>1, <1>8, <2>1, <2>2 DEF Knows, Trusts
    <2>4. ASSUME NEW j \in Gets(r), j < p.i PROVE HasGot(r, p, j)'
      <3>1. HasGot(r, p, j)
        BY <2>1, <2>4 DEF Knows
      <3>2. Plan[r][j].file \in Files
        BY WantedIsFile
      <3> QED BY <1>8, <2>2, <3>1, <3>2 DEF HasGot
    <2>5. ASSUME NEW j \in Reads(r), j < p.i PROVE HasRead(r, p, j)'
      <3>1. HasRead(r, p, j)
        BY <2>1, <2>5 DEF Knows
      <3> QED BY <3>1 DEF HasRead
    <2> QED BY <1>5, <2>3, <2>4, <2>5 DEF Knows
  <1>16. ASSUME Undisturbed', ~returned PROVE Vouched(manifest.cid, p.want)'
    <2>1. PICK m : m = manifest.cid
      OBVIOUS
    <2>2. Vouched(m, p.want) /\ p.cid = p.want[f]
      BY <1>5, <1>10, <1>12, <1>16, <2>1, SameKnowledge
    <2>3. ASSUME NEW g \in Files, Own(g) PROVE FileVouched(m, p.want[g], g)'
      <3>1. FileVouched(m, p.want[g], g)
        BY <2>2, <2>3 DEF Vouched
      <3> QED BY <1>1, <1>8, <2>2, <3>1 DEF FileVouched
    <2> QED BY <1>1, <2>1, <2>2, <2>3 DEF Vouched, FileVouched
  <1>17. IfNotTorn'
    <2>1. SUFFICES ASSUME Undisturbed', ~torn'
                   PROVE  /\ (\A s \in Roles : ~On(s, "sidecar")') => manifest'.sidecar = manifest'.cid
                          /\ \A g \in Files :
                               Own(g) /\ (\A s \in Roles : On(s, "store")' => Wanted(s)' # g) =>
                                 file'[g] \in {None, store'[Key[g]]}
      BY DEF IfNotTorn
    <2>2. \A s \in Roles : proc'[s] = IF s = r THEN p ELSE proc[s]
      BY <1>4 DEF CacheInv, ProcOK
    <2>3. On(r, "store")' /\ Wanted(r)' = f
      BY <1>5, <1>7, <2>2 DEF On, Wanted
    <2>4. \A s \in Roles : ~On(s, "sidecar") /\ ~On(s, "store")
      BY <1>2, <1>10, <2>1, Alone, SleepingIs DEF On, Undisturbed, CacheInv
    <2>5. /\ manifest.sidecar = manifest.cid
          /\ \A g \in Files : Own(g) => file[g] \in {None, store[Key[g]]}
      BY <1>1, <1>10, <2>1, <2>4 DEF CacheInv, IfNotTorn
    <2> QED BY <1>1, <1>8, <2>3, <2>5
  <1>18. ~overlapped' => \A s \in Roles \ {r} : proc[s] = Sleeping
    BY <1>1, <1>2, Alone DEF CacheInv
  <1>19. NoRawUploadUnderDP'
    BY <1>1, <1>10, NothingUploaded DEF CacheInv
  <1>20. p.step # "download manifest"
    BY <1>5
  <1> QED BY <1>1, <1>4, <1>9, <1>10, <1>11, <1>13, <1>14, <1>15, <1>16, <1>17, <1>18, <1>19, <1>20,
             CommandStep

\* What WriteLocalCidStore does to the store.
LEMMA StoreIsWritten ==
    ASSUME PlanAssumption, CacheInv, NEW r \in Roles, WriteLocalCidStore(r), NEW f, f = Wanted(r)
    PROVE  /\ f \in Files /\ f = Plan[r][proc[r].i].file
           /\ store' \in [StoreKeys -> Contents]
           /\ Undisturbed => store' = [store EXCEPT ![Key[f]] = proc[r].want[f]]
  PROOF
  <1>1. IsCommand(r, proc[r]) /\ proc[r].step = "store" /\ proc[r] \in Command
    BY DEF WriteLocalCidStore, On, CacheInv, ProcOK, IsCommand
  <1>2. f \in Files /\ f = Plan[r][proc[r].i].file
    BY <1>1, WantedIsFile DEF Wanted, IsCommand, AtStep, WithFile
  <1>3. PICK K : K = StoreOf(f)
    OBVIOUS
  <1>4. PICK c : c = proc[r].want[f]
    OBVIOUS
  <1>5. PICK old : old = proc[r].snap
    OBVIOUS
  <1>6. DOMAIN store = StoreKeys /\ store \in [StoreKeys -> Contents]
    BY DEF CacheInv, DiskOK
  <1>7. store' = [k \in StoreKeys |-> IF k = Key[f] THEN c ELSE IF k \in K THEN old[k] ELSE store[k]]
    BY <1>2, <1>3, <1>4, <1>5, <1>6 DEF WriteLocalCidStore, WantedCid, Wanted
  <1>8. c \in Contents /\ old \in [StoreKeys -> Contents]
    BY <1>1, <1>2, <1>4, <1>5 DEF Command
  <1>9. store' \in [StoreKeys -> Contents]
    BY <1>6, <1>7, <1>8
  <1>10. Undisturbed => old = store
    BY <1>1, <1>5 DEF CacheInv, Follows, WithFile
  <1>11. Undisturbed => store' = [store EXCEPT ![Key[f]] = c]
    BY <1>6, <1>7, <1>10
  <1> QED BY <1>2, <1>4, <1>9, <1>11

LEMMA WriteLocalCidStoreKeepsCacheInv ==
    ASSUME CacheAssumption, PlanAssumption, CacheInv, NEW r \in Roles, WriteLocalCidStore(r)
    PROVE  CacheInv'
  PROOF
  <1>1. /\ UNCHANGED <<onChain, host, manifest, file, overlapped, torn, forged, returned, uploads>>
        /\ Advances(r)
    BY DEF WriteLocalCidStore, counts, ghosts
  <1>2. IsCommand(r, proc[r]) /\ proc[r].step = "store" /\ Awake(r)
    BY DEF WriteLocalCidStore, On, Awake, CacheInv, ProcOK
  <1>3. PICK p : p = Advanced(r, proc[r])
    OBVIOUS
  <1>4. proc' = [proc EXCEPT ![r] = p]
    BY <1>1, <1>3 DEF Advances
  <1>5. /\ IsCommand(r, p) /\ p.step \in {"manifest", "get", "packages", "run"}
        /\ p.want = proc[r].want /\ p.seen = proc[r].seen /\ p.i = proc[r].i + 1
        /\ Undisturbed => Follows(r, p)
        /\ Undisturbed /\ ~returned => Vouched(manifest.cid, p.want)
    BY <1>2, <1>3, OperationDone
  <1>6. PICK f : f = Wanted(r)
    OBVIOUS
  <1>7. /\ f \in Files /\ f = Plan[r][proc[r].i].file
        /\ store' \in [StoreKeys -> Contents]
        /\ Undisturbed => store' = [store EXCEPT ![Key[f]] = p.want[f]]
    BY <1>5, <1>6, StoreIsWritten
  <1>8. (Undisturbed' => Undisturbed) /\ (CanVouch' => CanVouch) /\ GhostsOK'
    BY <1>1, Calmer DEF CacheInv, GhostsOK
  <1>9. ASSUME Undisturbed
        PROVE  /\ file[f] = p.want[f]
               /\ \A g \in Files : Own(g) =>
                    store'[Key[g]] = IF g = f THEN p.want[f] ELSE store[Key[g]]
    <2>1. file[f] = p.want[f]
      <3>1. Follows(r, proc[r])
        BY <1>9 DEF CacheInv
      <3>2. file[Plan[r][proc[r].i].file] = proc[r].want[Plan[r][proc[r].i].file]
        BY <1>2, <3>1 DEF Follows
      <3>3. PICK w : w = proc[r].want
        OBVIOUS
      <3> QED BY <1>5, <1>7, <3>2, <3>3
    <2>2. store \in [StoreKeys -> Contents]
      BY DEF CacheInv, DiskOK
    <2>3. \A g \in Files : Own(g) => (Key[g] = Key[f] <=> g = f)
      BY <1>7 DEF Own
    <2> QED BY <1>7, <1>9, <2>1, <2>2, <2>3, StoreKeyOf
  <1>10. IsCommand(r, p)' /\ DiskOK'
    BY <1>1, <1>5, <1>7 DEF IsCommand, CacheInv, DiskOK
  <1>11. ASSUME Undisturbed' PROVE PinnedOnce' /\ Follows(r, p)'
    <2>1. \A g \in Files : p.want[g] \in EverPinned(g)' /\ (Own(g) => store[Key[g]] \in EverPinned(g)')
      BY <1>1, <1>5, <1>8, <1>11 DEF CacheInv, PinnedOnce, Follows, EverPinned
    <2>2. PinnedOnce'
      BY <1>1, <1>7, <1>8, <1>9, <1>11, <2>1 DEF CacheInv, PinnedOnce
    <2>3. Follows(r, p)'
      BY <1>5, <2>1 DEF Follows, WithFile
    <2> QED BY <2>2, <2>3
  <1>12. ASSUME CanVouch' PROVE Knows(r, p)'
    <2>1. CanVouch /\ Undisturbed
      BY <1>8, <1>12, VouchIsUndisturbed
    <2>2. PICK q : q = proc[r]
      OBVIOUS
    <2>3. q \in Command /\ Knows(r, q) /\ q.i \notin Reads(r)
      BY <1>2, <2>1, <2>2 DEF CacheInv, IsCommand, AtStep, WithFile, Reads, Gets
    <2>4. HasGot(r, q, q.i)
      BY <1>5, <1>7, <1>9, <2>1, <2>2 DEF HasGot
    <2>5. Knows(r, p)
      BY <1>5, <2>2, <2>3, <2>4, KnowsMore
    <2>6. Trusts(p)'
      BY <1>1, <1>9, <2>1, <2>5 DEF Knows, Trusts
    <2>7. ASSUME NEW j \in Reads(r), j < p.i PROVE HasRead(r, p, j)'
      <3>1. HasRead(r, p, j)
        BY <2>5, <2>7 DEF Knows
      <3> QED BY <3>1 DEF HasRead
    <2>8. \A j \in Gets(r) : j < p.i => HasGot(r, p, j)'
      BY <1>1, <2>5 DEF Knows, HasGot
    <2> QED BY <1>5, <2>6, <2>7, <2>8 DEF Knows
  <1>13. ASSUME Undisturbed', ~returned PROVE Vouched(manifest.cid, p.want)'
    <2>1. PICK m : m = manifest.cid
      OBVIOUS
    <2>2. Vouched(m, p.want)
      BY <1>5, <1>8, <1>13, <2>1
    <2>3. ASSUME NEW g \in Files, Own(g) PROVE FileVouched(m, p.want[g], g)'
      <3>1. FileVouched(m, p.want[g], g)
        BY <2>2, <2>3 DEF Vouched
      <3> QED BY <1>1, <1>8, <1>9, <1>13, <2>3, <3>1 DEF FileVouched
    <2> QED BY <1>1, <2>1, <2>2, <2>3 DEF Vouched, FileVouched
  <1>14. IfNotTorn'
    <2>1. SUFFICES ASSUME Undisturbed', ~torn'
                   PROVE  /\ manifest'.sidecar = manifest'.cid
                          /\ \A g \in Files : Own(g) => file'[g] \in {None, store'[Key[g]]}
      BY DEF IfNotTorn
    <2>2. \A s \in Roles : ~On(s, "sidecar") /\ (On(s, "store") => s = r)
      BY <1>2, <1>8, <2>1, Alone, SleepingIs DEF On, Undisturbed, CacheInv
    <2>3. /\ manifest.sidecar = manifest.cid
          /\ \A g \in Files : Own(g) /\ g # f => file[g] \in {None, store[Key[g]]}
      BY <1>1, <1>6, <1>8, <2>1, <2>2 DEF CacheInv, IfNotTorn
    <2> QED BY <1>1, <1>8, <1>9, <2>1, <2>3
  <1>15. ~overlapped' => \A s \in Roles \ {r} : proc[s] = Sleeping
    BY <1>1, <1>2, Alone DEF CacheInv
  <1>16. NoRawUploadUnderDP'
    BY <1>1, <1>8, NothingUploaded DEF CacheInv
  <1>17. p.step # "download manifest"
    BY <1>5
  <1> QED BY <1>1, <1>4, <1>8, <1>10, <1>11, <1>12, <1>13, <1>14, <1>15, <1>16, <1>17, CommandStep

LEMMA UpdateManifestRequestKeepsCacheInv ==
    ASSUME CacheAssumption, CacheInv, NEW v \in Versions, UpdateManifestRequest(v)
    PROVE  CacheInv'
  PROOF
  <1>1. /\ UNCHANGED <<host, manifest, file, store, proc, overlapped, torn, forged, returned, uploads>>
        /\ onChain' = [onChain EXCEPT !.pending = @ \cup {v}]
    BY DEF UpdateManifestRequest, disk, counts, ghosts
  <1>2. onChain'.cid = onChain.cid /\ onChain'.was = onChain.was /\ ManifestOnChainOK'
    BY <1>1 DEF CacheInv, ManifestOnChainOK
  <1>3. DiskOK' /\ GhostsOK' /\ OneAtATime'
    BY <1>1, <1>2 DEF CacheInv, DiskOK, GhostsOK, OneAtATime, Awake
  <1>4. ProcOK'
    BY <1>1, <1>2 DEF CacheInv, ProcOK, IsCommand
  <1>5. (Undisturbed' => Undisturbed) /\ (CanVouch' => CanVouch)
    BY <1>1, Calmer
  <1>6. Undisturbed' => PinnedOnce'
    BY <1>1, <1>2, <1>5 DEF CacheInv, PinnedOnce, EverPinned
  <1>7. ASSUME Undisturbed', NEW s \in Roles PROVE Follows(s, proc[s])'
    <2>1. Follows(s, proc[s])
      BY <1>5, <1>7 DEF CacheInv
    <2> QED BY <1>1, <1>2, <2>1 DEF Follows, EverPinned
  <1>8. ASSUME CanVouch', NEW s \in Roles PROVE Knows(s, proc[s])'
    <2>1. Knows(s, proc[s])
      BY <1>5, <1>8 DEF CacheInv
    <2> QED BY <1>1, <2>1 DEF Knows, HasRead, HasGot, Trusts
  <1>9. IfNotReturned'
    <2>1. SUFFICES ASSUME Undisturbed', ~returned', NEW s \in Roles
                   PROVE  /\ Vouched(manifest.cid, proc[s].want)'
                          /\ On(s, "download manifest")' => Vouched(proc[s].v, proc[s].want)'
      BY DEF IfNotReturned
    <2>2. PICK m : m = manifest.cid
      OBVIOUS
    <2>3. PICK w : w = proc[s].want
      OBVIOUS
    <2>4. PICK u : u = proc[s].v
      OBVIOUS
    <2>5. Vouched(m, w) /\ (On(s, "download manifest") => Vouched(u, w))
      BY <1>1, <1>5, <2>1, <2>2, <2>3, <2>4 DEF CacheInv, IfNotReturned
    <2>6. Vouched(m, w)' /\ (On(s, "download manifest") => Vouched(u, w)')
      <3>1. ASSUME NEW n, Vouched(n, w) PROVE Vouched(n, w)'
        <4>1. ASSUME NEW f \in Files, Own(f) PROVE FileVouched(n, w[f], f)'
          <5>1. FileVouched(n, w[f], f)
            BY <3>1, <4>1 DEF Vouched
          <5> QED BY <1>1, <1>2, <5>1 DEF FileVouched
        <4> QED BY <1>1, <1>2, <3>1, <4>1 DEF Vouched
      <3> QED BY <2>5, <3>1
    <2>7. manifest'.cid = m /\ proc'[s].want = w /\ proc'[s].v = u
            /\ (On(s, "download manifest")' => On(s, "download manifest"))
      BY <1>1, <2>2, <2>3, <2>4 DEF On
    <2> QED BY <2>6, <2>7, VouchedAfter
  <1>10. IfNotTorn'
    BY <1>1, <1>5 DEF CacheInv, IfNotTorn, On, Wanted
  <1>11. NoRawUploadUnderDP'
    BY <1>1, <1>5, NothingUploaded DEF CacheInv
  <1> QED BY <1>2, <1>3, <1>4, <1>6, <1>7, <1>8, <1>9, <1>10, <1>11 DEF CacheInv

\* A manifest that brings no CID back vouches for nothing that the one before did not.
LEMMA ApprovalVouches ==
    ASSUME CacheAssumption, NEW v \in Versions, NEW m, NEW want,
           ManifestOnChainOK, DiskOK, onChain'.cid = v, UNCHANGED <<manifest, file, store>>,
           ~Returns(v), PinnedOnce, \A f \in Files : want[f] \in EverPinned(f),
           Vouched(m, want)
    PROVE  Vouched(m, want)'
  PROOF
  <1>1. v \notin onChain.was /\ v # 0
    BY DEF Returns, CacheAssumption
  <1>2. manifest'.sidecar # onChain'.cid
    BY <1>1 DEF DiskOK
  <1>3. ASSUME NEW f \in Files, Own(f) PROVE FileVouched(m, want[f], f)'
    <2>1. FileVouched(m, want[f], f)
      BY <1>3 DEF Vouched
    <2>2. Pins[v][f] # None
      BY DEF CacheAssumption
    <2>3. ASSUME NEW x \in EverPinned(f), x = Pins[v][f] PROVE x = Pins[onChain.cid][f]
      BY <2>2, <2>3 DEF EverPinned, Returns
    <2>4. store[Key[f]] \in EverPinned(f) /\ want[f] \in EverPinned(f)
      BY <1>3 DEF PinnedOnce
    <2> QED BY <2>1, <2>3, <2>4 DEF FileVouched
  <1> QED BY <1>2, <1>3 DEF Vouched

LEMMA ApproveManifestUpdateKeepsCacheInv ==
    ASSUME CacheAssumption, CacheInv, NEW v \in Versions, ApproveManifestUpdate(v)
    PROVE  CacheInv'
  PROOF
  <1>1. /\ UNCHANGED <<host, manifest, file, store, overlapped, torn, forged, uploads>>
        /\ onChain'.cid = v /\ onChain'.was = onChain.was \cup {v}
        /\ onChain' = [cid |-> v, pending |-> onChain.pending \ {v}, was |-> onChain.was \cup {v}]
        /\ returned' = (returned \/ Returns(v))
    BY DEF ApproveManifestUpdate, disk
  <1>2. ManifestOnChainOK'
    BY <1>1 DEF CacheInv, ManifestOnChainOK
  <1>3. DiskOK' /\ GhostsOK'
    BY <1>1 DEF CacheInv, DiskOK, GhostsOK
  <1>4. (Undisturbed' => Undisturbed) /\ (CanVouch' => CanVouch)
    BY <1>1, Calmer DEF CacheInv, GhostsOK
  <1>5. DOMAIN proc' = Roles /\ \A s \in Roles :
          proc'[s] = IF proc[s] = Sleeping THEN Sleeping ELSE [proc[s] EXCEPT !.seen = @ \cup {v}]
    BY DEF ApproveManifestUpdate
  <1>6. ASSUME NEW s \in Roles
        PROVE  /\ proc'[s] \in Command /\ proc'[s].cmd = proc[s].cmd /\ proc'[s].step = proc[s].step
               /\ proc'[s].v = proc[s].v /\ proc'[s].i = proc[s].i /\ proc'[s].cid = proc[s].cid
               /\ proc'[s].want = proc[s].want /\ proc'[s].snap = proc[s].snap
               /\ proc[s].seen \subseteq proc'[s].seen
               /\ proc[s].step # "idle" => v \in proc'[s].seen
               /\ proc[s].step = "idle" => proc'[s] = Sleeping
    <2>1. PICK p : p = proc[s]
      OBVIOUS
    <2>2. PICK q : q = proc'[s]
      OBVIOUS
    <2>3. p \in Command /\ (p.step = "idle" => p = Sleeping)
      BY <2>1 DEF CacheInv, ProcOK, IsCommand
    <2>4. CASE p = Sleeping
      <3>1. q = Sleeping
        BY <1>5, <2>1, <2>2, <2>4
      <3> QED BY <2>1, <2>2, <2>4, <3>1, SleepingIs
    <2>5. CASE p # Sleeping
      <3>1. q = [p EXCEPT !.seen = @ \cup {v}]
        BY <1>5, <2>1, <2>2, <2>5
      <3>2. /\ q \in Command /\ q.cmd = p.cmd /\ q.step = p.step /\ q.v = p.v /\ q.i = p.i
            /\ q.cid = p.cid /\ q.want = p.want /\ q.snap = p.snap /\ q.seen = p.seen \cup {v}
        BY <2>3, <3>1 DEF Command
      <3> QED BY <2>1, <2>2, <2>3, <2>5, <3>2
    <2> QED BY <2>4, <2>5
  <1>7. ASSUME NEW s \in Roles PROVE IsCommand(s, proc[s])'
    <2>1. IsCommand(s, proc[s])
      BY DEF CacheInv, ProcOK
    <2>2. AtStep(s, proc[s].cmd, proc[s].step, proc[s].i)'
      BY <1>6, <2>1 DEF IsCommand
    <2> QED BY <1>1, <1>6, <2>1, <2>2 DEF IsCommand
  <1>8. ProcOK' /\ OneAtATime'
    BY <1>1, <1>5, <1>6, <1>7 DEF ProcOK, CacheInv, OneAtATime, Awake
  <1>9. Undisturbed' => PinnedOnce'
    BY <1>1, <1>4 DEF CacheInv, PinnedOnce, EverPinned
  <1>10. ASSUME Undisturbed', NEW s \in Roles PROVE Follows(s, proc[s])'
    <2>1. PICK p : p = proc[s]
      OBVIOUS
    <2>2. PICK q : q = proc'[s]
      OBVIOUS
    <2>3. Follows(s, p)
      BY <1>4, <1>10, <2>1 DEF CacheInv
    <2>4. /\ q.step = p.step /\ q.v = p.v /\ q.i = p.i /\ q.cid = p.cid /\ q.want = p.want
          /\ q.snap = p.snap /\ p.seen \subseteq q.seen
      BY <1>6, <2>1, <2>2
    <2>5. \A f \in Files : q.want[f] \in EverPinned(f)'
      <3>1. \A f \in Files : p.want[f] \in EverPinned(f)
        BY <2>3 DEF Follows
      <3>2. \A f \in Files : EverPinned(f) \subseteq EverPinned(f)'
        BY <1>1 DEF EverPinned
      <3> QED BY <2>4, <3>1, <3>2
    <2>6. Follows(s, q)'
      BY <1>1, <2>3, <2>4, <2>5 DEF Follows
    <2> QED BY <2>2, <2>6 DEF Follows
  <1>11. ASSUME CanVouch', NEW s \in Roles PROVE Knows(s, proc[s])'
    <2>1. PICK p : p = proc[s]
      OBVIOUS
    <2>2. PICK q : q = proc'[s]
      OBVIOUS
    <2>3. Knows(s, p)
      BY <1>4, <1>11, <2>1 DEF CacheInv
    <2>4. /\ q.step = p.step /\ q.v = p.v /\ q.i = p.i /\ q.want = p.want /\ p.seen \subseteq q.seen
      BY <1>6, <2>1, <2>2
    <2>5. ASSUME NEW j \in Reads(s), j < q.i PROVE HasRead(s, q, j)'
      <3>1. HasRead(s, p, j)
        BY <2>3, <2>4, <2>5 DEF Knows
      <3> QED BY <2>4, <3>1 DEF HasRead
    <2>6. Trusts(q)'
      BY <1>1, <2>3, <2>4 DEF Knows, Trusts
    <2>7. \A j \in Gets(s) : j < q.i => HasGot(s, q, j)'
      BY <1>1, <2>3, <2>4 DEF Knows, HasGot
    <2>8. Knows(s, q)'
      BY <1>1, <2>3, <2>4, <2>5, <2>6, <2>7 DEF Knows
    <2> QED BY <2>2, <2>8, KnowsNext
  <1>12. IfNotReturned'
    <2>1. SUFFICES ASSUME Undisturbed', ~returned', NEW s \in Roles
                   PROVE  /\ Vouched(manifest.cid, proc[s].want)'
                          /\ On(s, "download manifest")' => Vouched(proc[s].v, proc[s].want)'
      BY DEF IfNotReturned
    <2>2. ~returned /\ ~Returns(v) /\ Undisturbed
      BY <1>1, <1>4, <2>1
    <2>3. PICK m : m = manifest.cid
      OBVIOUS
    <2>4. PICK w : w = proc[s].want
      OBVIOUS
    <2>5. PICK u : u = proc[s].v
      OBVIOUS
    <2>6. Vouched(m, w) /\ (On(s, "download manifest") => Vouched(u, w))
      BY <2>2, <2>3, <2>4, <2>5 DEF CacheInv, IfNotReturned
    <2>7. ManifestOnChainOK /\ DiskOK /\ PinnedOnce /\ \A f \in Files : w[f] \in EverPinned(f)
      BY <2>2, <2>4 DEF CacheInv, Follows
    <2>8. Vouched(m, w)' /\ (On(s, "download manifest") => Vouched(u, w)')
      BY <1>1, <2>2, <2>6, <2>7, ApprovalVouches
    <2>9. manifest'.cid = m /\ proc'[s].want = w /\ proc'[s].v = u
            /\ (On(s, "download manifest")' => On(s, "download manifest"))
      BY <1>1, <1>6, <2>3, <2>4, <2>5 DEF On
    <2> QED BY <2>8, <2>9, VouchedAfter
  <1>13. IfNotTorn'
    <2>1. \A s \in Roles : (On(s, "sidecar")' <=> On(s, "sidecar"))
                           /\ (On(s, "store")' <=> On(s, "store")) /\ Wanted(s)' = Wanted(s)
      BY <1>6 DEF On, Wanted
    <2> QED BY <1>1, <1>4, <2>1 DEF CacheInv, IfNotTorn
  <1>14. NoRawUploadUnderDP'
    BY <1>1, <1>4, NothingUploaded DEF CacheInv
  <1> QED BY <1>2, <1>3, <1>8, <1>9, <1>10, <1>11, <1>12, <1>13, <1>14 DEF CacheInv

LEMMA CacheInitInv ==
    ASSUME CacheAssumption, PlanAssumption, CacheInit
    PROVE  CacheInv
  PROOF
  <1>1. /\ onChain = [cid |-> 1, pending |-> {}, was |-> {1}]
        /\ manifest = [cid |-> 0, sidecar |-> 0] /\ file = [f \in Files |-> None] /\ store = NoStore
        /\ proc = [r \in Roles |-> Sleeping] /\ uploads = {}
        /\ overlapped = FALSE /\ torn = FALSE /\ forged = FALSE /\ returned = FALSE
    BY DEF CacheInit
  <1>2. 1 \in Versions /\ None \in Contents
    BY DEF CacheAssumption, Contents
  <1>3. ManifestOnChainOK /\ GhostsOK
    BY <1>1, <1>2 DEF ManifestOnChainOK, GhostsOK
  <1>4. store = [k \in StoreKeys |-> None]
    BY <1>1 DEF NoStore, StoreKeys
  <1>5. DiskOK
    BY <1>1, <1>2, <1>4 DEF DiskOK
  <1>6. \A r \in Roles : proc[r] = Sleeping /\ proc[r].step = "idle"
    BY <1>1, SleepingIs
  <1>7. ProcOK /\ OneAtATime
    BY <1>1, <1>6, SleepingIsCommand DEF ProcOK, OneAtATime, Awake
  <1>8. \A f \in Files : store[Key[f]] = None /\ file[f] = None
    BY <1>1, <1>4, StoreKeyOf
  <1>9. PinnedOnce
    BY <1>1, <1>8 DEF PinnedOnce, EverPinned
  <1>10. \A r \in Roles : Follows(r, proc[r]) /\ Knows(r, proc[r])
    BY <1>6, SleepingFollows
  <1>11. IfNotReturned
    <2>1. ASSUME NEW f \in Files PROVE FileVouched(0, None, f)
      <3>1. Pins[1][f] # None
        BY <1>2 DEF CacheAssumption
      <3> QED BY <1>1, <1>8, <3>1 DEF FileVouched
    <2>2. Vouched(0, Sleeping.want)
      BY <1>1, <2>1, SleepingIs DEF Vouched
    <2> QED BY <1>1, <1>6, <2>2 DEF IfNotReturned, On
  <1>12. IfNotTorn
    BY <1>1, <1>8 DEF IfNotTorn
  <1>13. NoRawUploadUnderDP
    BY <1>1 DEF NoRawUploadUnderDP
  <1> QED BY <1>3, <1>5, <1>7, <1>9, <1>10, <1>11, <1>12, <1>13 DEF CacheInv

LEMMA CacheStutterInv ==
    ASSUME CacheInv, UNCHANGED cacheVars
    PROVE  CacheInv'
  PROOF
  <1>1. UNCHANGED <<onChain, host, manifest, file, store, proc, overlapped, torn, forged, returned,
                    uploads>>
    BY DEF cacheVars, disk, counts, ghosts
  <1>2. ManifestOnChainOK' /\ DiskOK' /\ GhostsOK' /\ OneAtATime' /\ (Undisturbed' => PinnedOnce')
    BY <1>1 DEF CacheInv, ManifestOnChainOK, DiskOK, GhostsOK, OneAtATime, Awake, PinnedOnce,
                EverPinned, Undisturbed, Verifies, host
  <1>3. ProcOK'
    BY <1>1 DEF CacheInv, ProcOK, IsCommand
  <1>4. (Undisturbed' => Undisturbed) /\ (CanVouch' => CanVouch)
    BY <1>1, Calmer
  <1>5. Undisturbed' => \A s \in Roles : Follows(s, proc[s])'
    BY <1>1, <1>4 DEF CacheInv, Follows, EverPinned
  <1>6. ASSUME CanVouch', NEW s \in Roles PROVE Knows(s, proc[s])'
    <2>1. Knows(s, proc[s])
      BY <1>4, <1>6 DEF CacheInv
    <2> QED BY <1>1, <2>1 DEF Knows, HasRead, HasGot, Trusts
  <1>7. IfNotReturned'
    <2>1. SUFFICES ASSUME Undisturbed', ~returned', NEW s \in Roles
                   PROVE  /\ Vouched(manifest.cid, proc[s].want)'
                          /\ On(s, "download manifest")' => Vouched(proc[s].v, proc[s].want)'
      BY DEF IfNotReturned
    <2>2. /\ Vouched(manifest.cid, proc[s].want)
          /\ On(s, "download manifest") => Vouched(proc[s].v, proc[s].want)
      BY <1>1, <1>4, <2>1 DEF CacheInv, IfNotReturned
    <2> QED BY <1>1, <2>2 DEF Vouched, FileVouched, On
  <1>9. IfNotTorn'
    BY <1>1, <1>4 DEF CacheInv, IfNotTorn, On, Wanted
  <1>8. NoRawUploadUnderDP'
    BY <1>1, <1>4, NothingUploaded DEF CacheInv
  <1> QED BY <1>2, <1>3, <1>5, <1>6, <1>7, <1>8, <1>9 DEF CacheInv

LEMMA CacheNextInv ==
    ASSUME CacheAssumption, PlanAssumption, CacheInv, CacheNext
    PROVE  CacheInv'
  PROOF
  <1>1. ASSUME NEW r \in Roles, NEW c \in {"work", "submit"}, Starts(r, c) PROVE CacheInv'
    BY <1>1, StartsKeepsCacheInv
  <1>2. ASSUME NEW v \in Versions, UpdateManifestRequest(v) \/ ApproveManifestUpdate(v)
        PROVE  CacheInv'
    BY <1>2, UpdateManifestRequestKeepsCacheInv, ApproveManifestUpdateKeepsCacheInv
  <1>3. ASSUME NEW r \in Roles, CacheStep(r) PROVE CacheInv'
    <2>1. CASE CheckManifest(r) \/ CacheManifest(r) \/ ReplaceManifest(r) \/ WriteSidecar(r)
               \/ GetManifest(r)
      BY <2>1, CheckManifestKeepsCacheInv, CacheManifestKeepsCacheInv,
         ReplaceManifestKeepsCacheInv, WriteSidecarKeepsCacheInv, GetManifestKeepsCacheInv
    <2>2. CASE EnsureFileExists(r) \/ Download(r) \/ ReplaceFile(r) \/ WriteLocalCidStore(r)
      BY <2>2, EnsureFileExistsKeepsCacheInv, DownloadKeepsCacheInv, ReplaceFileKeepsCacheInv,
         WriteLocalCidStoreKeepsCacheInv
    <2>3. CASE EnsureWorkerPackagesInstalled(r) \/ WriteMarker(r) \/ RunWorkerContainer(r)
               \/ SubmitLms(r) \/ KillCommand(r)
      BY <2>3, EnsureWorkerPackagesInstalledKeepsCacheInv, WriteMarkerKeepsCacheInv,
         RunWorkerContainerKeepsCacheInv, SubmitLmsKeepsCacheInv, KillCommandKeepsCacheInv
    <2> QED BY <1>3, <2>1, <2>2, <2>3 DEF CacheStep
  <1> QED BY <1>1, <1>2, <1>3 DEF CacheNext

\* The cached files, the CIDs that are kept of them, and what every running command
\* has read agree as CacheInv says, whatever commands overlap, are killed or download
\* what was not asked for, and however the manifest on chain changes, with any plan of
\* reads and gets that PlanAssumption allows.
THEOREM CacheConsistent == CacheSpec => []CacheInv
  PROOF
  <1>1. CacheAssumption /\ PlanAssumption
    BY CacheAssumption, PlanAssumption
  <1>2. CacheInit => CacheInv
    BY <1>1, CacheInitInv
  <1>3. CacheInv /\ [CacheNext]_cacheVars => CacheInv'
    BY <1>1, CacheNextInv, CacheStutterInv
  <1> QED BY <1>2, <1>3, PTL DEF CacheSpec

LEMMA CacheInvImpliesStaleOnlyByOverlap ==
    ASSUME PlanAssumption, CacheInv
    PROVE  StaleOnlyByOverlap
  PROOF
  <1>1. SUFFICES ASSUME CanVouch, NEW r \in Roles, On(r, "run"), NEW j \in Reads(r)
                 PROVE  \E v \in proc[r].seen :
                          \A f \in Plan[r][j].files \cap Services(r) : file[f] = Pins[v][f]
    BY DEF StaleOnlyByOverlap
  <1>2. Knows(r, proc[r]) /\ IsCommand(r, proc[r]) /\ proc[r].step = "run"
    BY <1>1 DEF CacheInv, ProcOK, On
  <1>3. \A k \in DOMAIN Plan[r] : k < proc[r].i
    <2>1. Plan[r] \in Seq(Operations) /\ proc[r].i > Len(Plan[r]) /\ proc[r].i \in Nat
      BY <1>2 DEF PlanAssumption, IsCommand, AtStep, Command
    <2> QED BY <2>1
  <1>4. PICK v \in proc[r].seen : \A f \in Plan[r][j].files : proc[r].want[f] = Pins[v][f]
    <2>1. j < proc[r].i
      BY <1>3 DEF Reads
    <2> QED BY <1>2, <2>1 DEF Knows, HasRead
  <1>5. ASSUME NEW f \in Plan[r][j].files \cap Services(r) PROVE file[f] = Pins[v][f]
    <2>1. PICK k \in Gets(r) : f = Plan[r][k].file
      BY <1>5 DEF Services
    <2>2. Own(f)
      BY <1>5 DEF Services, Own
    <2>3. k < proc[r].i
      BY <1>3 DEF Gets
    <2>4. HasGot(r, proc[r], k)
      BY <1>2, <2>3 DEF Knows
    <2> QED BY <1>4, <1>5, <2>1, <2>2, <2>4 DEF HasGot
  <1> QED BY <1>4, <1>5

\* The worker runs services that were on chain during the command, and those whose CIDs
\* the command read at one time are those of one manifest, unless two commands
\* overlapped, a kill and a return of an older CID came together, or the machine kept a
\* download that nobody had hashed.
THEOREM OnlyOverlapsAreStale == CacheSpec => []StaleOnlyByOverlap
  PROOF
  <1>1. CacheInv => StaleOnlyByOverlap
    BY CacheInvImpliesStaleOnlyByOverlap, PlanAssumption
  <1> QED BY <1>1, CacheConsistent, PTL

\* submit-lm uploads raw weights only if a manifest without differential privacy was on
\* chain during the command, with the same exceptions.
THEOREM RawOnlyIfOff == CacheSpec => []NoRawUploadUnderDP
  PROOF
  <1>1. CacheInv => NoRawUploadUnderDP
    BY DEF CacheInv
  <1> QED BY <1>1, CacheConsistent, PTL
=============================================================================
