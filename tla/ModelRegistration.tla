------------------------- MODULE ModelRegistration -------------------------
(***************************************************************************)
(* From two task contracts to a registered model: the model owner's        *)
(* commands that deploy and pair the contracts, confirm them as slashers,  *)
(* submit the genesis model and ask for the registration, and the          *)
(* DIN-Representative's commands that authorise slashers and answer the    *)
(* requests.                                                               *)
(*                                                                         *)
(* The contracts carry the model's ID from their constructors, before the  *)
(* registry assigns one.  Each command is a few transactions with local    *)
(* writes in between; a transaction may be refused, fail to go out, or be  *)
(* mined after its receipt was given up.                                   *)
(***************************************************************************)
EXTENDS Integers, Sequences, FiniteSets, SequencesExt

CONSTANTS
    Owners,         \* model owners, one account and one .env each
    Ready,          \* the owners whose contracts are confirmed at the start
    Rep,            \* the DIN-Representative's account
    CIDs,           \* genesis models an owner may submit
    Fees,           \* values of the registration fee
    MaxContracts,   \* bound: task contracts an owner deploys
    MaxRequests,    \* bound: registration requests
    MaxSurprises    \* bound: failed sends, receipts given up, kills, new fees

ASSUME RegistrationAssumption ==
    /\ Rep \notin Owners /\ Ready \subseteq Owners
    /\ Fees \subseteq Nat /\ Fees # {}
    /\ MaxContracts \in Nat /\ MaxRequests \in Nat /\ MaxSurprises \in Nat
    /\ Ready # {} => MaxContracts >= 2    \* a coordinator and its auditor

Accounts == Owners \cup {Rep}

VARIABLES
    contracts,   \* per owner: its task contracts, in order of deployment
    slashers,    \* <<owner, index>> of the authorised slasher contracts
    fee,         \* openSourceFee
    requests,    \* the registry's requests
    models,      \* the registry's models; model m of the code is models[m + 1]
    collected, swept,   \* the fees held by the registry, and swept to the router
    pool,        \* per account: its transaction in the pool
    command,     \* per account: the command its terminal runs
    env,         \* per owner: the .env file
    reported,    \* the contracts whose deploy command exited with status 0
    surprises

chain == <<contracts, slashers, fee, requests, models, collected, swept>>
vars == <<chain, pool, command, env, reported, surprises>>

NoTx == [fn |-> "none"]
Idle == [name |-> "none", todo |-> <<>>]

(***************************************************************************)
(* The contracts.  The stages of a coordinator: 0 awaits its auditor, 1    *)
(* and 2 the two slashers, 3 the genesis model, 4 has it.                  *)
(***************************************************************************)
NewContract(kind, id) ==
    [kind |-> kind, modelId |-> id, token |-> FALSE, auditor |-> 0, stage |-> 0,
     genesis |-> "none", scored |-> "none"]

\* A coordinator deployed before any model was approved, and its auditor.
ReadyContracts ==
    <<[NewContract("coordinator", 0) EXCEPT !.token = TRUE, !.auditor = 2, !.stage = 4,
                                            !.genesis = "cid1", !.scored = "cid1"],
      [NewContract("auditor", 0) EXCEPT !.token = TRUE]>>

RegistrationInit ==
    /\ contracts = [o \in Owners |-> IF o \in Ready THEN ReadyContracts ELSE <<>>]
    /\ slashers = Ready \X {1, 2}
    /\ fee \in Fees
    /\ requests = <<>> /\ models = <<>>
    /\ collected = 0 /\ swept = 0
    /\ pool = [a \in Accounts |-> NoTx]
    /\ command = [a \in Accounts |-> Idle]
    /\ env = [o \in Owners |->
                [coord |-> IF o \in Ready THEN 1 ELSE 0,
                 aud |-> [c \in 1..MaxContracts |-> IF o \in Ready /\ c = 1 THEN 2 ELSE 0]]]
    /\ reported = {}
    /\ surprises = 0

Total == Len(models)
Registered(o, c) == \E m \in DOMAIN models :
    LET r == requests[models[m].request]
    IN  r.owner = o /\ {r.coord, r.aud} \cap {c} # {}

Mine(o, c) == contracts[o][c]

\* The calls of a task contract; tx.at is which of its owner's.
ContractCalls ==
    {"setDinToken", "setDINTaskAuditorContract", "setDINTaskCoordinatorAsSlasher",
     "setDINTaskAuditorAsSlasher", "setGenesisModelIpfsHash", "setTier2Score"}

Succeeds(a, tx) ==
    CASE tx.fn = "deploy" -> Len(contracts[a]) < MaxContracts
      [] tx.fn = "setDinToken" -> TRUE
      [] tx.fn = "setDINTaskAuditorContract" -> Mine(a, tx.at).stage = 0
      [] tx.fn = "setDINTaskCoordinatorAsSlasher" ->
           Mine(a, tx.at).stage = 1 /\ <<a, tx.at>> \in slashers
      [] tx.fn = "setDINTaskAuditorAsSlasher" ->
           Mine(a, tx.at).stage = 2 /\ <<a, Mine(a, tx.at).auditor>> \in slashers
      [] tx.fn = "setGenesisModelIpfsHash" -> Mine(a, tx.at).stage = 3
      [] tx.fn = "setTier2Score" -> Mine(a, tx.at).stage = 4
      [] tx.fn = "requestModelRegistration" ->
           /\ tx.value >= fee /\ Len(requests) < MaxRequests
           /\ {<<a, tx.coord>>, <<a, tx.aud>>} \subseteq slashers
      [] tx.fn = "approveModel" ->
           LET r == requests[tx.request]
           IN  /\ r.status = "pending"
               /\ ~Registered(r.owner, r.coord) /\ ~Registered(r.owner, r.aud)
      [] tx.fn = "rejectModel" -> requests[tx.request].status = "pending"
      [] tx.fn = "sweepFeesToRouter" -> collected > 0
      [] OTHER -> TRUE

\* Without the refund the registry would keep all of the value sent.
ChargeAll(value) == value

\* What the registry keeps of the value sent: the overpayment is paid back.
Charge(value) == fee

OnContract(a, tx) ==
    LET c == Mine(a, tx.at)
        new == CASE tx.fn = "setDinToken" -> [c EXCEPT !.token = TRUE]
                 [] tx.fn = "setDINTaskAuditorContract" ->
                      [c EXCEPT !.auditor = tx.aud, !.stage = 1]
                 [] tx.fn = "setDINTaskCoordinatorAsSlasher" -> [c EXCEPT !.stage = 2]
                 [] tx.fn = "setDINTaskAuditorAsSlasher" -> [c EXCEPT !.stage = 3]
                 [] tx.fn = "setGenesisModelIpfsHash" ->
                      [c EXCEPT !.genesis = tx.cid, !.stage = 4]
                 [] tx.fn = "setTier2Score" -> [c EXCEPT !.scored = tx.cid]
    IN  contracts' = [contracts EXCEPT ![a][tx.at] = new]

Execute(a, tx) ==
    \/ /\ tx.fn = "deploy"
       /\ contracts' = [contracts EXCEPT ![a] = Append(@, NewContract(tx.kind, tx.id))]
       /\ UNCHANGED <<slashers, fee, requests, models, collected, swept>>
    \/ /\ tx.fn \in ContractCalls /\ OnContract(a, tx)
       /\ UNCHANGED <<slashers, fee, requests, models, collected, swept>>
    \/ /\ tx.fn = "requestModelRegistration"
       /\ requests' = Append(requests, [owner |-> a, coord |-> tx.coord, aud |-> tx.aud,
                                        paid |-> fee, status |-> "pending"])
       /\ collected' = collected + Charge(tx.value)
       /\ UNCHANGED <<contracts, slashers, fee, models, swept>>
    \/ /\ tx.fn = "approveModel"
       /\ models' = Append(models, [request |-> tx.request, excused |-> tx.excused, forced |-> tx.forced])
       /\ requests' = [requests EXCEPT ![tx.request].status = "approved"]
       /\ UNCHANGED <<contracts, slashers, fee, collected, swept>>
    \/ /\ tx.fn = "rejectModel"
       /\ requests' = [requests EXCEPT ![tx.request].status = "rejected"]
       /\ UNCHANGED <<contracts, slashers, fee, models, collected, swept>>
    \/ /\ tx.fn = "addSlasherContract"
       /\ slashers' = slashers \cup {tx.contract}
       /\ UNCHANGED <<contracts, fee, requests, models, collected, swept>>
    \/ /\ tx.fn = "setOpenSourceFee"
       /\ fee' = tx.value
       /\ UNCHANGED <<contracts, slashers, requests, models, collected, swept>>
    \/ /\ tx.fn = "sweepFeesToRouter"
       /\ swept' = swept + collected /\ collected' = 0
       /\ UNCHANGED <<contracts, slashers, fee, requests, models>>

(***************************************************************************)
(* build_and_send_tx, called for each transaction of a command in turn     *)
(* (todo), with exit_on_failure: the command goes on only with the receipt *)
(* of a successful transaction.                                            *)
(***************************************************************************)
Quit(a) == /\ command' = [command EXCEPT ![a] = Idle]
           /\ UNCHANGED <<env, reported>>

Surprise == surprises < MaxSurprises /\ surprises' = surprises + 1

TxOf(a) ==
    LET c == command[a]
        fn == Head(c.todo)
    IN  CASE fn = "deploy" -> [fn |-> fn, kind |-> c.kind, id |-> c.id]
          [] fn = "setDinToken" -> [fn |-> fn, at |-> c.new]
          [] fn = "setDINTaskAuditorContract" -> [fn |-> fn, at |-> c.coord, aud |-> c.new]
          [] fn \in {"setDINTaskCoordinatorAsSlasher", "setDINTaskAuditorAsSlasher"} ->
               [fn |-> fn, at |-> c.coord]
          [] fn \in {"setGenesisModelIpfsHash", "setTier2Score"} ->
               [fn |-> fn, at |-> c.coord, cid |-> c.cid]
          [] OTHER -> c.tx

\* The address of a contract is saved as soon as it is deployed.
SaveAddress(a, new) ==
    LET c == command[a]
    IN  env' = IF c.kind = "coordinator" THEN [env EXCEPT ![a].coord = new]
               ELSE [env EXCEPT ![a].aud[c.coord] = new]

GoOn(a) ==
    LET c == command[a]
        fn == Head(c.todo)
        new == Len(contracts'[a])
        rest == IF fn = "deploy" THEN [c EXCEPT !.todo = Tail(@), !.sent = FALSE, !.new = new]
                ELSE [c EXCEPT !.todo = Tail(@), !.sent = FALSE]
    IN  /\ command' = [command EXCEPT ![a] = IF rest.todo = <<>> THEN Idle ELSE rest]
        /\ IF fn = "deploy" THEN SaveAddress(a, new) ELSE UNCHANGED env
        /\ reported' = IF rest.todo = <<>> /\ c.name = "deploy"
                       THEN reported \cup {<<a, c.new>>} ELSE reported

GoesOnWithoutToken(a) == IF Head(command[a].todo) = "setDinToken" THEN GoOn(a) ELSE Quit(a)

OnFailure(a) == Quit(a)

Running(a) == command[a] # Idle
Waiting(a) == Running(a) /\ command[a].sent

SendTx(a) ==
    /\ Running(a) /\ ~command[a].sent
    /\ \/ /\ Succeeds(a, TxOf(a)) /\ pool[a] = NoTx
          /\ pool' = [pool EXCEPT ![a] = TxOf(a)]
          /\ command' = [command EXCEPT ![a].sent = TRUE]
          /\ UNCHANGED <<chain, env, reported, surprises>>
       \/ /\ ~Succeeds(a, TxOf(a)) \/ pool[a] # NoTx
          /\ OnFailure(a)
          /\ UNCHANGED <<chain, pool, surprises>>
       \/ /\ Surprise /\ OnFailure(a)
          /\ UNCHANGED <<chain, pool>>

MineTx(a) ==
    /\ pool[a] # NoTx
    /\ pool' = [pool EXCEPT ![a] = NoTx]
    /\ LET ok == Succeeds(a, pool[a])
       IN  /\ IF ok THEN Execute(a, pool[a]) ELSE UNCHANGED chain
           /\ CASE Waiting(a) /\ ok -> GoOn(a)
                [] Waiting(a) /\ ~ok -> OnFailure(a)
                [] OTHER -> UNCHANGED <<command, env, reported>>
    /\ UNCHANGED surprises

\* A command that is killed leaves the same state.
ReceiptTimesOut(a) ==
    /\ Waiting(a)
    /\ Surprise /\ OnFailure(a)
    /\ UNCHANGED <<chain, pool>>

(***************************************************************************)
(* The model owner's commands.  It runs the one its coordinator's state    *)
(* asks for; it may also deploy anew.                                      *)
(***************************************************************************)
Runs(a, c) ==
    /\ ~Running(a)
    /\ command' = [command EXCEPT ![a] = c]
    /\ UNCHANGED <<chain, pool, env, reported>>

Stage(o) == contracts[o][env[o].coord].stage

\* deploy task-coordinator: the default ID is the one the next approval assigns.
DeployTaskCoordinator(o) ==
    /\ Len(contracts[o]) < MaxContracts
    /\ Runs(o, [name |-> "deploy", kind |-> "coordinator", id |-> Total, coord |-> 0, new |-> 0,
                todo |-> <<"deploy", "setDinToken">>, sent |-> FALSE])

\* deploy task-auditor, with the ID its coordinator has.
DeployTaskAuditor(o) ==
    /\ env[o].coord # 0 /\ Stage(o) = 0 /\ Len(contracts[o]) < MaxContracts
    /\ Runs(o, [name |-> "deploy", kind |-> "auditor", coord |-> env[o].coord, new |-> 0,
                id |-> Mine(o, env[o].coord).modelId, sent |-> FALSE,
                todo |-> <<"deploy", "setDinToken", "setDINTaskAuditorContract">>])

\* setup add-slasher, for the coordinator and for the auditor.
ConfirmSlasher(o) ==
    /\ env[o].coord # 0 /\ Stage(o) \in {1, 2}
    /\ LET fn == IF Stage(o) = 1 THEN "setDINTaskCoordinatorAsSlasher"
                 ELSE "setDINTaskAuditorAsSlasher"
       IN  Runs(o, [name |-> "slasher", todo |-> <<fn>>, coord |-> env[o].coord, sent |-> FALSE])

MatchesOnChain(o, cid) == Mine(o, env[o].coord).genesis = cid

\* Without the comparison any CID may be scored in a re-run.
ScoresAnyCID(o, cid) == TRUE

ScoreOnlyRerun(o, cid) == MatchesOnChain(o, cid)

\* submit-genesis-model: a wrong CID is refused in a re-run.  A re-run for a model
\* that has its score sends it again; it changes nothing and is left out.
SubmitGenesisModel(o, cid) ==
    /\ env[o].coord # 0
    /\ \E todo \in {<<"setGenesisModelIpfsHash", "setTier2Score">>, <<"setTier2Score">>} :
          /\ IF Len(todo) = 2 THEN Stage(o) = 3
             ELSE /\ Stage(o) = 4 /\ Mine(o, env[o].coord).scored = "none"
                  /\ ScoreOnlyRerun(o, cid)
          /\ Runs(o, [name |-> "submit", todo |-> todo, coord |-> env[o].coord, cid |-> cid,
                      sent |-> FALSE])

\* task model-owner register-request: the fee is read, then sent as the value.
RegisterRequest(o) ==
    /\ env[o].coord # 0 /\ Stage(o) >= 3 /\ env[o].aud[env[o].coord] # 0
    /\ ~Registered(o, env[o].coord)
    /\ Runs(o, [name |-> "request", todo |-> <<"requestModelRegistration">>, sent |-> FALSE,
                tx |-> [fn |-> "requestModelRegistration", value |-> fee,
                        coord |-> env[o].coord, aud |-> env[o].aud[env[o].coord]]])

(***************************************************************************)
(* The DIN-Representative's commands.                                      *)
(***************************************************************************)
Sends(tx) ==
    Runs(Rep, [name |-> tx.fn, todo |-> <<tx.fn>>, tx |-> tx, sent |-> FALSE])

\* dinrep add-slasher, asked for by the owner of the contract.
AddSlasher(o, i) ==
    /\ i # 0 /\ i \in {env[o].coord} \cup {env[o].aud[c] : c \in 1..MaxContracts}
    /\ <<o, i>> \notin slashers
    /\ Sends([fn |-> "addSlasherContract", contract |-> <<o, i>>])

\* The contracts of a request whose ID is not the one to be assigned.
Mismatched(r) ==
    {c \in {r.coord, r.aud} : Mine(r.owner, c).modelId # Total}

RefusesNothing(r, force) == TRUE

\* --force is of use for a mismatch only.
MayApprove(r, force) == (Mismatched(r) # {}) <=> force

\* registry approve-registration-request.  excused, for the properties: the ID
\* was overridden, or an earlier approval was not known to be mined.
ApproveRegistrationRequest(n, force) ==
    /\ requests[n].status = "pending"
    /\ MayApprove(requests[n], force)
    /\ Sends([fn |-> "approveModel", request |-> n,
              forced |-> force, excused |-> force \/ pool[Rep] # NoTx])

RejectRegistrationRequest(n) ==
    /\ requests[n].status = "pending"
    /\ Sends([fn |-> "rejectModel", request |-> n])

SetOpenSourceFee(f) ==
    /\ f # fee
    /\ Surprise
    /\ Sends([fn |-> "setOpenSourceFee", value |-> f])

\* registry sweep-fees: nothing is sent when there is nothing to sweep.
SweepFees ==
    /\ collected > 0
    /\ Sends([fn |-> "sweepFeesToRouter"])

OwnerCommand(o) ==
    \/ DeployTaskCoordinator(o) \/ DeployTaskAuditor(o) \/ ConfirmSlasher(o)
    \/ \E cid \in CIDs : SubmitGenesisModel(o, cid)
    \/ RegisterRequest(o)

RepCommand ==
    \/ \E o \in Owners, i \in 1..MaxContracts : AddSlasher(o, i)
    \/ \E n \in DOMAIN requests, force \in BOOLEAN : ApproveRegistrationRequest(n, force)
    \/ \E n \in DOMAIN requests : RejectRegistrationRequest(n)
    \/ SweepFees

RegistrationNext ==
    \/ \E o \in Owners : OwnerCommand(o) /\ UNCHANGED surprises
    \/ RepCommand /\ UNCHANGED surprises
    \/ \E f \in Fees : SetOpenSourceFee(f)
    \/ \E a \in Accounts : SendTx(a) \/ MineTx(a) \/ ReceiptTimesOut(a)

RegistrationSpec == RegistrationInit /\ [][RegistrationNext]_vars

(***************************************************************************)
(* Properties.                                                             *)
(***************************************************************************)
\* A model's contracts carry the ID the registry gave it, unless the approval was
\* forced or the representative had another transaction unconfirmed when it
\* compared the IDs: owners deploy against the same totalModels() and requests
\* are approved in any order (dinrep.py approve_registration_request).
ApprovedIDsMatch ==
    \A m \in DOMAIN models :
        models[m].excused \/
        LET r == requests[models[m].request]
        IN  \A c \in {r.coord, r.aud} : Mine(r.owner, c).modelId = m - 1

\* A score on the chain was computed for the genesis model on the chain, however
\* often and with whichever CID submit-genesis-model is run again after a part
\* of it failed (model.py submit_genesis_model, score_only_rerun).
ScoreIsOfGenesis ==
    \A o \in Owners : \A c \in DOMAIN contracts[o] :
        Mine(o, c).scored \in {"none", Mine(o, c).genesis}

\* The fees the registry holds or has swept are those its requests record, though
\* a fee may change between the owner's reading it and the request's mining.
FeesMatchRequests ==
    collected + swept
      = SumFunctionOnSet([n \in DOMAIN requests |-> requests[n].paid], DOMAIN requests)

\* A contract whose deploy command exited with status 0 has its DinToken and, an
\* auditor, is the one its coordinator is paired with, though each was a
\* transaction of its own (deploy.py).
ReportedContractsWork ==
    \A w \in reported :
        LET new == Mine(w[1], w[2])
        IN  /\ new.token
            /\ new.kind = "auditor" =>
                  \E c \in DOMAIN contracts[w[1]] : Mine(w[1], c).auditor = w[2]
=============================================================================
