------------------------------ MODULE Payments ------------------------------
(***************************************************************************)
(* The commands with which a user moves value: bridge-eth (Ethereum        *)
(* Sepolia to OP Sepolia), send-eth, dintoken buy and stake, rewards claim *)
(* and withdraw.  Several terminals use one wallet.                        *)
(*                                                                         *)
(* A command checks, takes the pending nonce, signs, broadcasts once and   *)
(* waits for a receipt.  The transport may fail after the node took the    *)
(* transaction, the receipt may be missed, a transaction may be dropped.   *)
(* The user runs a command again until told that it worked: after an       *)
(* outcome that is reported as unknown, only when the printed hash is      *)
(* known to have come to nothing.                                          *)
(***************************************************************************)
EXTENDS Integers, Sequences, FiniteSets

CONSTANTS
    Terminals,     \* shells of one user, with one wallet
    Commands,      \* the commands that are run, of AllCommands
    Funds,         \* ETH the wallet has on each chain at the start
    MaxTxs,        \* bound: signed transactions after which no run begins
    MaxSurprises   \* bound: transport failures, missed receipts, dropped transactions

AllCommands == {"bridge", "send", "buy", "stake", "claim", "withdraw"}

ASSUME PaymentsAssumption ==
    /\ Commands \subseteq AllCommands
    /\ Funds \in Nat /\ MaxTxs \in Nat /\ MaxSurprises \in Nat

VARIABLES
    run,        \* per terminal: command, step, transaction, nonce, L2 baseline
    txs,        \* the signed transactions: call, nonce, state, what the user was told
    nonce,      \* the wallet's nonce on each chain
    wallet,     \* balances of the wallet, one unit of each amount
    surprises

paymentVars == <<run, txs, nonce, wallet, surprises>>

NoRun == [cmd |-> "none", step |-> "idle", call |-> "none", tx |-> 0, nonce |-> 0,
            baseline |-> 0]

Chain(call) == IF call = "depositETH" THEN "l1" ELSE "l2"

\* The last call of each command; staking approves first.
Pays == [bridge |-> "depositETH", send |-> "transfer", buy |-> "depositAndMint",
         stake |-> "stake", claim |-> "claimReward", withdraw |-> "claimRewards"]
FirstCall(c) == IF c = "stake" THEN "approve" ELSE Pays[c]

PaymentsInit ==
    /\ run = [t \in Terminals |-> NoRun]
    /\ txs = <<>>
    /\ nonce = [l1 |-> 0, l2 |-> 0]
    /\ wallet = [l1 |-> Funds, l2 |-> Funds, bridging |-> 0, din |-> 0, allowance |-> 0,
                 staked |-> 0, claimable |-> 0, claimed |-> FALSE]
    /\ surprises = 0

-----------------------------------------------------------------------------
(* The chains. *)

\* What a call does; it reverts when it is not allowed.
Allowed(call) ==
    CASE call = "depositETH" -> wallet.l1 > 0
      [] call \in {"transfer", "depositAndMint"} -> wallet.l2 > 0
      [] call = "approve" -> TRUE
      [] call = "stake" -> wallet.din > 0 /\ wallet.allowance > 0
      [] call = "claimReward" -> ~wallet.claimed
      [] call = "claimRewards" -> wallet.claimable > 0

Execute(call) ==
    CASE call = "depositETH" -> [wallet EXCEPT !.l1 = @ - 1, !.bridging = @ + 1]
      [] call = "transfer" -> [wallet EXCEPT !.l2 = @ - 1]
      [] call = "depositAndMint" -> [wallet EXCEPT !.l2 = @ - 1, !.din = @ + 1]
      [] call = "approve" -> [wallet EXCEPT !.allowance = 1]
      [] call = "stake" -> [wallet EXCEPT !.din = @ - 1, !.allowance = @ - 1,
                                          !.staked = @ + 1]
      [] call = "claimReward" -> [wallet EXCEPT !.claimable = @ + 1, !.claimed = TRUE]
      [] call = "claimRewards" -> [wallet EXCEPT !.din = @ + wallet.claimable,
                                                 !.claimable = 0]

Pooled(chain) == {i \in DOMAIN txs : Chain(txs[i].call) = chain /\ txs[i].state = "pooled"}

\* The nonce the node answers for "pending", and whether it takes a transaction.
PendingNonce(chain) == nonce[chain] + Cardinality(Pooled(chain))
NodeTakes(call, n) ==
    /\ n >= nonce[Chain(call)]
    /\ \A i \in Pooled(Chain(call)) : txs[i].nonce # n

MinePayment(i) ==
    LET chain == Chain(txs[i].call)
    IN  /\ i \in Pooled(chain) /\ txs[i].nonce = nonce[chain]
        /\ nonce' = [nonce EXCEPT ![chain] = @ + 1]
        /\ IF Allowed(txs[i].call)
           THEN wallet' = Execute(txs[i].call)
                /\ txs' = [txs EXCEPT ![i].state = "landed"]
           ELSE txs' = [txs EXCEPT ![i].state = "reverted"] /\ UNCHANGED wallet
        /\ UNCHANGED <<run, surprises>>

\* The bridge credits the wallet on L2.
Deliver ==
    /\ wallet.bridging > 0
    /\ wallet' = [wallet EXCEPT !.bridging = @ - 1, !.l2 = @ + 1]
    /\ UNCHANGED <<run, txs, nonce, surprises>>

Surprise == surprises < MaxSurprises /\ surprises' = surprises + 1

\* The last pooled transaction of a chain is evicted from the pool.
DropTx(i) ==
    /\ Surprise
    /\ i \in Pooled(Chain(txs[i].call))
    /\ \A j \in Pooled(Chain(txs[i].call)) : txs[j].nonce <= txs[i].nonce
    /\ txs' = [txs EXCEPT ![i].state = "lost"]
    /\ UNCHANGED <<run, nonce, wallet>>

-----------------------------------------------------------------------------
(* The user. *)

Of(c) == {i \in DOMAIN txs : txs[i].call = Pays[c]}
KnownPaid(c) ==
    \E i \in Of(c) : \/ txs[i].told = "included"
                     \/ txs[i].told = "unknown" /\ txs[i].state = "landed"
Unresolved(c) ==
    \E i \in Of(c) : txs[i].told \in {"nothing", "unknown"} /\ txs[i].state = "pooled"

BeginRun(t, c) ==
    /\ run[t] = NoRun
    /\ \A u \in Terminals : run[u].cmd # c
    /\ ~KnownPaid(c) /\ ~Unresolved(c)
    /\ Len(txs) < MaxTxs
    /\ run' = [run EXCEPT ![t] = [NoRun EXCEPT !.cmd = c, !.step = "checks",
                                                 !.call = FirstCall(c)]]
    /\ UNCHANGED <<txs, nonce, wallet, surprises>>

-----------------------------------------------------------------------------
(* The commands.  A run ends by going back to NoRun. *)

GoesTo(t, step) == run' = [run EXCEPT ![t].step = step]
Exits(t) == run' = [run EXCEPT ![t] = NoRun]
Tells(i, what) == txs' = [txs EXCEPT ![i].told = what]

\* What the command reads before it sends anything.
ChecksBridge(t) == run[t].cmd = "bridge"
ChecksSend(t) == run[t].cmd = "send" /\ wallet.l2 > 0
ChecksBuy(t) == run[t].cmd = "buy"
ChecksStake(t) == run[t].cmd = "stake" /\ wallet.din > 0
ChecksClaim(t) == run[t].cmd = "claim" /\ ~wallet.claimed
ChecksWithdraw(t) == run[t].cmd = "withdraw" /\ wallet.claimable > 0

Check(t) ==
    /\ run[t].step = "checks"
    /\ \/ /\ \/ ChecksBridge(t) \/ ChecksSend(t) \/ ChecksBuy(t) \/ ChecksStake(t)
             \/ ChecksClaim(t) \/ ChecksWithdraw(t)
          /\ GoesTo(t, "prepare")
       \/ Exits(t)
    /\ UNCHANGED <<txs, nonce, wallet, surprises>>

\* The input, a chain id, the bridge's code or pause, or a contract at the
\* wallet's address refuses the deposit, before anything is signed.
StaticPreflight(t) ==
    /\ run[t].step = "prepare" /\ run[t].cmd = "bridge"
    /\ Exits(t)
    /\ UNCHANGED <<txs, nonce, wallet, surprises>>

\* The pending nonce is read, the gas estimated: an estimate that reverts ends
\* the run.
PrepareTransaction(t) ==
    /\ run[t].step = "prepare"
    /\ IF Allowed(run[t].call)
       THEN run' = [run EXCEPT ![t].nonce = PendingNonce(Chain(run[t].call)),
                               ![t].step = IF run[t].cmd = "bridge" THEN "confirm"
                                           ELSE "sign"]
       ELSE Exits(t)
    /\ UNCHANGED <<txs, nonce, wallet, surprises>>

\* The affordability check, the dry run and the prompt: no deposit is signed
\* unless it passes all three.  The L2 balance is read before the signature.
ConfirmDeposit(t) ==
    /\ run[t].step = "confirm"
    /\ \/ /\ wallet.l1 > 0
          /\ run' = [run EXCEPT ![t].step = "sign", ![t].baseline = wallet.l2]
       \/ Exits(t)
    /\ UNCHANGED <<txs, nonce, wallet, surprises>>

\* bridge-eth prints the hash here, before it broadcasts; the other commands
\* print theirs when the node has answered.
SignDeposit(t) ==
    /\ run[t].step = "sign"
    /\ txs' = Append(txs, [call |-> run[t].call, nonce |-> run[t].nonce,
                           state |-> "signed", told |-> "nothing"])
    /\ run' = [run EXCEPT ![t].step = "broadcast", ![t].tx = Len(txs) + 1]
    /\ UNCHANGED <<nonce, wallet, surprises>>

\* What a command calls a transport failure, and what it calls a rejection by
\* the node.
ForgetsTransport(t) == IF run[t].cmd = "bridge" THEN "rejected" ELSE "failed"
ClassifyTransport(t) == IF run[t].cmd = "bridge" THEN "unknown" ELSE "failed"
ClassifyRejection(t) == IF run[t].cmd = "bridge" THEN "rejected" ELSE "failed"

Broadcast(t) ==
    LET i == run[t].tx
    IN  /\ run[t].step = "broadcast"
        /\ \/ /\ NodeTakes(run[t].call, run[t].nonce)
              /\ txs' = [txs EXCEPT ![i].state = "pooled"]
              /\ GoesTo(t, "receipt")
              /\ UNCHANGED surprises
           \/ /\ \/ ~NodeTakes(run[t].call, run[t].nonce) /\ UNCHANGED surprises
                 \/ Surprise
              /\ txs' = [txs EXCEPT ![i].state = "lost", ![i].told = ClassifyRejection(t)]
              /\ Exits(t)
           \/ /\ Surprise
              /\ \E s \in IF NodeTakes(run[t].call, run[t].nonce) THEN {"pooled", "lost"}
                          ELSE {"lost"} :
                     txs' = [txs EXCEPT ![i].state = s, ![i].told = ClassifyTransport(t)]
              /\ Exits(t)
        /\ UNCHANGED <<nonce, wallet>>

\* After an included call: the approval is followed by the stake, a deposit by
\* the look at L2.
Follows(t) ==
    CASE run[t].call = "approve" ->
             run' = [run EXCEPT ![t].step = "prepare", ![t].call = "stake"]
      [] run[t].cmd = "bridge" ->
             GoesTo(t, "poll") \/ Exits(t)
      [] OTHER -> Exits(t)

WaitForReceipt(t) ==
    LET i == run[t].tx
    IN  /\ run[t].step = "receipt"
        /\ \/ txs[i].state = "landed" /\ Tells(i, "included") /\ Follows(t)
           \/ txs[i].state = "reverted" /\ Tells(i, "reverted") /\ Exits(t)
        /\ UNCHANGED <<nonce, wallet, surprises>>

\* The wait for the receipt runs out (120 seconds), or cannot see it.
NeverTimesOut(t) == FALSE
TimesOut(t) == TRUE
PaymentTimesOut(t) ==
    /\ TimesOut(t)
    /\ run[t].step = "receipt"
    /\ \/ txs[run[t].tx].state \in {"pooled", "lost"} /\ UNCHANGED surprises
       \/ Surprise
    /\ Tells(run[t].tx, ClassifyTransport(t))
    /\ Exits(t)
    /\ UNCHANGED <<nonce, wallet>>

\* A higher balance is taken for the arrival; the poll ends without it too.
PollL2Balance(t) ==
    /\ run[t].step = "poll"
    /\ wallet.l2 > run[t].baseline \/ TimesOut(t)
    /\ Exits(t)
    /\ UNCHANGED <<txs, nonce, wallet, surprises>>

Step(t) ==
    \/ Check(t) \/ StaticPreflight(t) \/ PrepareTransaction(t) \/ ConfirmDeposit(t)
    \/ SignDeposit(t) \/ Broadcast(t) \/ WaitForReceipt(t) \/ PaymentTimesOut(t)
    \/ PollL2Balance(t)

PaymentsNext ==
    \/ \E t \in Terminals : Step(t) \/ \E c \in Commands : BeginRun(t, c)
    \/ \E i \in DOMAIN txs : MinePayment(i) \/ DropTx(i)
    \/ Deliver

\* A command runs on; the chains, the user and the surprises are free.
PaymentsFairness == \A t \in Terminals : WF_paymentVars(Step(t))
PaymentsSpec == PaymentsInit /\ [][PaymentsNext]_paymentVars /\ PaymentsFairness

-----------------------------------------------------------------------------
(* Properties. *)

\* bridge-eth: a user who wants one deposit, and who runs the command again
\* after every outcome it reports as final and, after an unknown one, when the
\* hash came to nothing, never deposits twice, whatever the transport did.
DepositedOnce == Cardinality({i \in Of("bridge") : txs[i].state = "landed"}) <= 1

\* Every run comes to an end, also when its transaction is dropped or its
\* deposit is never seen on L2.
RunsEnd == \A t \in Terminals : run[t] # NoRun ~> run[t] = NoRun
=============================================================================
