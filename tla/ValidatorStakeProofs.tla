------------------------ MODULE ValidatorStakeProofs ------------------------
(***************************************************************************)
(* Theorems of ValidatorStake.tla, for every set of validators, slashers,  *)
(* amounts and parameters.                                                 *)
(*                                                                         *)
(* The inductive invariant is the type invariant with the consistency of   *)
(* every account (AccountOK): the status agrees with the stake, a deadline *)
(* has something pending, and a running jail shows in the status. The      *)
(* safety properties of an account are its parts, and the action           *)
(* properties follow from it step by step. The rings have invariants of    *)
(* their own, and so have the books: what the contract owes is a sum over  *)
(* all accounts, and each call changes one term of it.                     *)
(***************************************************************************)
EXTENDS ValidatorStake, SumTheorems, SequenceTheorems

-----------------------------------------------------------------------------
(* One account: facts about the operators of ValidatorAccount.tla, for any  *)
(* account and any parameters.  What follows cites these facts and leaves   *)
(* the operators folded.                                                    *)

\* What holds of one account between two transactions, at time t.
AccountOK(a, t) ==
    /\ a.status = "Active" => a.pendingWithdrawals = 0 /\ a.activeStake > 0
    /\ a.status = "None" => a.activeStake = 0 /\ a.pendingWithdrawals = 0
    /\ a.status = "Exiting" => a.activeStake + a.pendingWithdrawals > 0
    /\ a.pendingWithdrawals = 0 => a.withdrawAvailableAt = 0
    /\ a.jailedUntil > t => a.status \in {"Jailed", "Blacklisted"}

\* An account that differs from b in its status alone.
SameBut(a, b) ==
    /\ a.activeStake = b.activeStake
    /\ a.pendingWithdrawals = b.pendingWithdrawals
    /\ a.withdrawAvailableAt = b.withdrawAvailableAt
    /\ a.jailedUntil = b.jailedUntil

-----------------------------------------------------------------------------
(* _syncValidatorStatus: whatever status it is given, it leaves an account  *)
(* whose status agrees with its stake, provided a running jail was not      *)
(* already lost.                                                            *)
LEMMA SyncStatusOK ==
    ASSUME NEW a \in ValidatorInfo, NEW minStake \in Nat \ {0}, NEW t \in Nat,
           a.pendingWithdrawals = 0 => a.withdrawAvailableAt = 0,
           a.jailedUntil > t => a.status \in {"Jailed", "Blacklisted"},
           NEW b, b = SyncStatus(a, minStake, t)
    PROVE  /\ b \in ValidatorInfo
           /\ AccountOK(b, t)
           /\ SameBut(b, a)
           /\ b.status = "Active" => b.activeStake >= minStake /\ b.pendingWithdrawals = 0
           /\ (b.status = "Blacklisted") <=> (a.status = "Blacklisted")
<1>1. CASE StatusIsSticky(a, t)
  BY <1>1 DEF SyncStatus, StatusIsSticky, AccountOK, SameBut, ValidatorInfo
<1>2. CASE ~ StatusIsSticky(a, t)
  <2>1. b = [a EXCEPT !.status = StatusFromStake(a, minStake)]
    BY <1>2 DEF SyncStatus
  <2>2. /\ StatusFromStake(a, minStake) \in {"Active", "Exiting", "None"}
        /\ StatusFromStake(a, minStake) = "Active" =>
               a.activeStake >= minStake /\ a.pendingWithdrawals = 0
        /\ StatusFromStake(a, minStake) = "None" =>
               a.activeStake = 0 /\ a.pendingWithdrawals = 0
        /\ StatusFromStake(a, minStake) = "Exiting" =>
               a.activeStake + a.pendingWithdrawals > 0
    BY DEF StatusFromStake, ValidatorInfo
  <2>3. ~ (a.jailedUntil > t) /\ a.status # "Blacklisted"
    BY <1>2 DEF StatusIsSticky
  <2> QED
    BY <2>1, <2>2, <2>3 DEF AccountOK, SameBut, ValidatorInfo, ValidatorStatus
<1> QED
  BY <1>1, <1>2

\* Taking stake: active first, and the deadline goes with the last of the
\* pending withdrawal.
LEMMA TakeStakeOK ==
    ASSUME NEW a \in ValidatorInfo, NEW actual \in Nat, actual <= SlashableStake(a),
           a.pendingWithdrawals = 0 => a.withdrawAvailableAt = 0,
           NEW b, b = TakeStake(a, actual)
    PROVE  /\ b \in ValidatorInfo
           /\ b.pendingWithdrawals = 0 => b.withdrawAvailableAt = 0
           /\ b.pendingWithdrawals > 0 => b.withdrawAvailableAt = a.withdrawAvailableAt
           /\ b.jailedUntil = a.jailedUntil
           /\ b.status = a.status
           /\ SlashableStake(b) = SlashableStake(a) - actual
           /\ b.pendingWithdrawals <= a.pendingWithdrawals
<1>1. CASE a.activeStake >= actual
  BY <1>1 DEF TakeStake, SlashableStake, ValidatorInfo
<1>2. CASE ~ (a.activeStake >= actual)
  <2>1. PICK pending : pending = a.pendingWithdrawals - (actual - a.activeStake)
    OBVIOUS
  <2>2. pending \in Nat
    BY <1>2, <2>1 DEF SlashableStake, ValidatorInfo
  <2>3. b = [a EXCEPT !.activeStake = 0,
                      !.pendingWithdrawals = pending,
                      !.withdrawAvailableAt = IF pending = 0 THEN 0 ELSE @]
    BY <1>2, <2>1 DEF TakeStake
  <2>4. b = [activeStake |-> 0, pendingWithdrawals |-> pending,
             withdrawAvailableAt |-> IF pending = 0 THEN 0 ELSE a.withdrawAvailableAt,
             jailedUntil |-> a.jailedUntil, status |-> a.status]
    BY <2>3 DEF ValidatorInfo
  <2> QED
    BY <1>2, <2>1, <2>2, <2>4 DEF SlashableStake, ValidatorInfo
<1> QED
  BY <1>1, <1>2

\* What a slash takes is at most what was asked and at most what is there.
LEMMA ActualSlashBounds ==
    ASSUME NEW a \in ValidatorInfo, NEW amount \in Nat
    PROVE  /\ ActualSlash(a, amount) \in Nat
           /\ ActualSlash(a, amount) <= amount
           /\ ActualSlash(a, amount) <= SlashableStake(a)
  BY DEF ActualSlash, SlashableStake, ValidatorInfo

\* _applySlash keeps the account's status, deadline and jail in agreement.
LEMMA ApplySlashOK ==
    ASSUME NEW a \in ValidatorInfo, NEW minStake \in Nat \ {0}, NEW t \in Nat,
           NEW amount \in Nat, AccountOK(a, t),
           NEW b, b = ApplySlash(a, amount, minStake, t)
    PROVE  /\ b \in ValidatorInfo
           /\ AccountOK(b, t)
           /\ SlashableStake(b) = SlashableStake(a) - ActualSlash(a, amount)
           /\ b.jailedUntil = a.jailedUntil
           /\ (b.status = "Blacklisted") <=> (a.status = "Blacklisted")
           /\ b.pendingWithdrawals > 0 => b.withdrawAvailableAt = a.withdrawAvailableAt
           /\ b.pendingWithdrawals <= a.pendingWithdrawals
           /\ b.status = "Active" =>
                  b = a \/ (b.activeStake >= minStake /\ b.pendingWithdrawals = 0)
<1>1. PICK actual : actual = ActualSlash(a, amount)
  OBVIOUS
<1>2. actual \in Nat /\ actual <= SlashableStake(a)
  BY <1>1, ActualSlashBounds
<1>3. CASE actual = 0
  <2>1. b = a
    BY <1>1, <1>3 DEF ApplySlash
  <2> QED
    BY <2>1, <1>1, <1>3 DEF SlashableStake, ValidatorInfo
<1>4. CASE actual # 0
  <2>1. PICK c : c = TakeStake(a, actual)
    OBVIOUS
  <2>2. b = SyncStatus(c, minStake, t)
    BY <1>1, <1>4, <2>1 DEF ApplySlash
  <2>3. /\ c \in ValidatorInfo
        /\ c.pendingWithdrawals = 0 => c.withdrawAvailableAt = 0
        /\ c.pendingWithdrawals > 0 => c.withdrawAvailableAt = a.withdrawAvailableAt
        /\ c.jailedUntil = a.jailedUntil
        /\ c.status = a.status
        /\ SlashableStake(c) = SlashableStake(a) - actual
        /\ c.pendingWithdrawals <= a.pendingWithdrawals
    BY <1>2, <2>1, TakeStakeOK DEF AccountOK
  <2>4. c.jailedUntil > t => c.status \in {"Jailed", "Blacklisted"}
    BY <2>3 DEF AccountOK
  <2>5. /\ b \in ValidatorInfo
        /\ AccountOK(b, t)
        /\ SameBut(b, c)
        /\ b.status = "Active" => b.activeStake >= minStake /\ b.pendingWithdrawals = 0
        /\ (b.status = "Blacklisted") <=> (c.status = "Blacklisted")
    BY <2>2, <2>3, <2>4, SyncStatusOK
  <2> QED
    BY <1>1, <2>3, <2>5 DEF SameBut, SlashableStake
<1> QED
  BY <1>3, <1>4

\* _jailInternal: the deadline never moves back, and the account stays
\* consistent.
JailWritten(a, b, t, duration) ==
    /\ b.status = "Jailed"
    /\ b.jailedUntil >= a.jailedUntil
    /\ b.jailedUntil >= t + duration
    /\ b.activeStake = a.activeStake
    /\ b.pendingWithdrawals = a.pendingWithdrawals
    /\ b.withdrawAvailableAt = a.withdrawAvailableAt

LEMMA JailOK ==
    ASSUME NEW a \in ValidatorInfo, NEW t \in Nat, NEW duration \in Nat,
           AccountOK(a, t), NEW b, b = Jail(a, duration, t)
    PROVE  /\ b \in ValidatorInfo
           /\ AccountOK(b, t)
           /\ JailWritten(a, b, t, duration)
<1>1. PICK until : until = IF t + duration > a.jailedUntil THEN t + duration ELSE a.jailedUntil
  OBVIOUS
<1>2. until \in Nat /\ until >= a.jailedUntil /\ until >= t + duration
  BY <1>1 DEF ValidatorInfo
<1>3. b = [a EXCEPT !.jailedUntil = until, !.status = "Jailed"]
  BY <1>1 DEF Jail, ValidatorInfo
<1> QED
  BY <1>2, <1>3 DEF AccountOK, JailWritten, ValidatorInfo, ValidatorStatus

\* The drafts the entry points hand to the status recomputation.
LEMMA AddStakeOK ==
    ASSUME NEW a \in ValidatorInfo, NEW amount \in Nat, NEW b, b = AddStake(a, amount)
    PROVE  /\ b \in ValidatorInfo
           /\ b.pendingWithdrawals = a.pendingWithdrawals
           /\ b.withdrawAvailableAt = a.withdrawAvailableAt
           /\ b.jailedUntil = a.jailedUntil
           /\ b.status = a.status
  BY DEF AddStake, ValidatorInfo

LEMMA EndWithdrawalOK ==
    ASSUME NEW a \in ValidatorInfo, NEW b, b = EndWithdrawal(a)
    PROVE  /\ b \in ValidatorInfo
           /\ b.pendingWithdrawals = 0
           /\ b.withdrawAvailableAt = 0
           /\ b.jailedUntil = a.jailedUntil
           /\ b.status = a.status
<1>1. b = [activeStake |-> a.activeStake, pendingWithdrawals |-> 0,
           withdrawAvailableAt |-> 0, jailedUntil |-> a.jailedUntil,
           status |-> a.status]
  BY DEF EndWithdrawal, ValidatorInfo
<1> QED
  BY <1>1 DEF ValidatorInfo

LEMMA EndJailOK ==
    ASSUME NEW a \in ValidatorInfo, NEW b, b = EndJail(a)
    PROVE  /\ b \in ValidatorInfo
           /\ b.pendingWithdrawals = a.pendingWithdrawals
           /\ b.withdrawAvailableAt = a.withdrawAvailableAt
           /\ b.jailedUntil = 0
           /\ b.status = a.status
  BY DEF EndJail, ValidatorInfo

LEMMA WithStatusOK ==
    ASSUME NEW a \in ValidatorInfo, NEW status \in ValidatorStatus,
           NEW b, b = WithStatus(a, status)
    PROVE  b \in ValidatorInfo /\ SameBut(b, a) /\ b.status = status
  BY DEF WithStatus, SameBut, ValidatorInfo

LEMMA RequestWithdrawalOK ==
    ASSUME NEW a \in ValidatorInfo, NEW amount \in Nat, amount <= a.activeStake,
           NEW deadline \in Nat, NEW b, b = RequestWithdrawal(a, amount, deadline)
    PROVE  /\ b \in ValidatorInfo
           /\ b.pendingWithdrawals = amount
           /\ b.withdrawAvailableAt = deadline
           /\ b.jailedUntil = a.jailedUntil
           /\ b.status = a.status
<1>1. PICK rest : rest = a.activeStake - amount
  OBVIOUS
<1>2. rest \in Nat
  BY <1>1 DEF ValidatorInfo
<1>3. b = [activeStake |-> rest, pendingWithdrawals |-> amount,
           withdrawAvailableAt |-> deadline, jailedUntil |-> a.jailedUntil,
           status |-> a.status]
  BY <1>1 DEF RequestWithdrawal, ValidatorInfo
<1> QED
  BY <1>2, <1>3 DEF ValidatorInfo

\* An account that is consistent stays so as time goes by.
LEMMA AccountOKLater ==
    ASSUME NEW a \in ValidatorInfo, NEW t \in Nat, NEW u \in Nat, t <= u, AccountOK(a, t)
    PROVE  AccountOK(a, u)
  BY DEF AccountOK, ValidatorInfo

LEMMA Uint64Type == ASSUME NEW n \in Nat PROVE Uint64(n) \in Nat
  BY WordAssumption DEF Uint64
-----------------------------------------------------------------------------
(* The rings. *)

\* A non-empty set of naturals has a least element.
LEMMA LeastNatural ==
    ASSUME NEW T, T \subseteq Nat, T # {}
    PROVE  \E i \in T : \A j \in T : i <= j
<1>1. \E i \in T : \A j \in T : ~ (<<j, i>> \in OpToRel(<, Nat))
  BY NatLessThanWellFounded, WFMin
<1>2. PICK i \in T : \A j \in T : ~ (<<j, i>> \in OpToRel(<, Nat))
  BY <1>1
<1>3. ASSUME NEW j \in T PROVE i <= j
  <2>1. <<j, i>> \in Nat \X Nat
    OBVIOUS
  <2>2. ~ (j < i)
    BY <1>2, <2>1 DEF OpToRel
  <2> QED
    BY <2>2
<1> QED
  BY <1>3

\* The trim always finds an entry to keep.
LEMMA FirstKeptOK ==
    ASSUME NEW pushed \in Seq(Nat), Len(pushed) > 0, NEW entry \in Nat, NEW window \in Nat,
           NEW first, first = FirstKept(pushed, entry, window)
    PROVE  /\ first \in 1..Len(pushed)
           /\ first = Len(pushed) \/ ~ Expired(pushed[first], entry, window)
<1> DEFINE kept == {i \in 1..Len(pushed) :
                        i = Len(pushed) \/ ~ Expired(pushed[i], entry, window)}
<1>1. kept \subseteq Nat /\ Len(pushed) \in kept
  OBVIOUS
<1>2. PICK i \in kept : \A j \in kept : i <= j
  BY <1>1, LeastNatural
<1>3. \A j \in 1..(i - 1) : Expired(pushed[j], entry, window)
  BY <1>2
<1>4. \E k \in 1..Len(pushed) :
         /\ k = Len(pushed) \/ ~ Expired(pushed[k], entry, window)
         /\ \A j \in 1..(k - 1) : Expired(pushed[j], entry, window)
  BY <1>2, <1>3
<1> QED
  BY <1>4 DEF FirstKept

\* Recording one entry keeps the entry and the order of those it keeps, and
\* makes a ring at most one longer.
LEMMA RecordInRingOK ==
    ASSUME NEW ring \in Seq(Nat), NEW entry \in Nat, NEW window \in Nat,
           NEW recorded, recorded = RecordInRing(ring, entry, window)
    PROVE  /\ recorded \in Seq(Nat)
           /\ Len(recorded) \in 1..(Len(ring) + 1)
<1>1. PICK pushed : pushed = Append(ring, entry)
  OBVIOUS
<1>2. pushed \in Seq(Nat) /\ Len(pushed) = Len(ring) + 1 /\ Len(ring) \in Nat
  BY <1>1, AppendProperties, LenProperties
<1>3. PICK first : first = FirstKept(pushed, entry, window)
  OBVIOUS
<1>3a. first \in 1..Len(pushed)
  BY <1>2, <1>3, FirstKeptOK
<1>4. recorded = SubSeq(pushed, first, Len(pushed))
  BY <1>1, <1>3 DEF RecordInRing
<1>5. \A i \in first..Len(pushed) : pushed[i] \in Nat
  BY <1>2, <1>3a, LenProperties
<1>6. /\ recorded \in Seq(Nat)
      /\ Len(recorded) = Len(pushed) - first + 1
  <2>1. first \in Int /\ Len(pushed) \in Int /\ first <= Len(pushed)
    BY <1>2, <1>3a
  <2> QED
    BY <1>4, <1>5, <2>1, SubSeqProperties
<1> QED
  BY <1>2, <1>3a, <1>6
-----------------------------------------------------------------------------
(* The contract: its state as the proofs take it apart. *)

AccountsOK == \A v \in Validators : AccountOK(validators[v], now)

\* The part of the type invariant that is not about accounts or pools.
RestTyped ==
    /\ now \in Nat
    /\ params \in Params
    /\ treasurySet \in BOOLEAN
    /\ slasherContracts \subseteq Slashers
    /\ partialSlashGIs \in [Validators -> [Slashers -> Seq(Nat)]]
    /\ partialSlashEpoch \in [Validators -> [Slashers -> Nat]]
    /\ partialSlashTimes \in [Validators -> Seq(Nat)]
    /\ s5EscalationEpoch \in [Validators -> Nat]
    /\ noParticipationCount \in [Validators -> Nat]
    /\ wallet \in [Validators -> Nat]
    /\ reportedGI \in [Slashers -> Nat]
    /\ sinceEscalation \in [Validators -> Nat]
    /\ sinceEscalationBy \in [Validators -> [Slashers -> Nat]]

AccountsTyped == validators \in [Validators -> ValidatorInfo]

IInv == RestTyped /\ AccountsTyped /\ AccountsOK

\* The sums of DIN are apart: no account depends on them.
PoolsTyped == held \in Int /\ treasury \in Nat /\ burned \in Nat

LEMMA IInvParts == IInv <=> RestTyped /\ AccountsTyped /\ AccountsOK
  BY DEF IInv

LEMMA IInvParts2 == IInv' <=> RestTyped' /\ AccountsTyped' /\ AccountsOK'
  BY DEF IInv

LEMMA TypeOKParts == TypeOK <=> RestTyped /\ AccountsTyped /\ PoolsTyped
  BY DEF TypeOK, RestTyped, AccountsTyped, PoolsTyped

\* Writing one consistent account keeps all of them consistent.
LEMMA WriteAccount ==
    ASSUME AccountsTyped, AccountsOK, NEW v \in Validators,
           NEW info \in ValidatorInfo, AccountOK(info, now),
           validators' = [validators EXCEPT ![v] = info], now' = now
    PROVE  AccountsTyped' /\ AccountsOK'
  BY DEF AccountsTyped, AccountsOK

\* The token movements of a slash are typed.
LEMMA PaySlashTyped ==
    ASSUME PoolsTyped, AccountsTyped, NEW v \in Validators, NEW amount \in Nat,
           PaySlash(v, amount)
    PROVE  PoolsTyped'
<1>1. PICK actual : actual = ActualSlash(validators[v], amount)
  OBVIOUS
<1>2. actual \in Nat
  BY <1>1, ActualSlashBounds DEF AccountsTyped
<1>3. /\ TreasuryShare(actual) \in Nat
      /\ BurnShare(actual) \in Nat
  BY <1>2 DEF TreasuryShare, BurnShare
<1>4. /\ held' = held - actual
      /\ treasury' = treasury + (IF treasurySet THEN TreasuryShare(actual) ELSE 0)
      /\ burned' = burned + (IF treasurySet THEN BurnShare(actual) ELSE actual)
  BY <1>1 DEF PaySlash
<1> QED
  BY <1>2, <1>3, <1>4 DEF PoolsTyped

LEMMA ParamsParts ==
    ASSUME RestTyped
    PROVE  /\ params.minStake \in Nat \ {0}
           /\ params.minStake \in Nat
           /\ params.unbonding \in Nat
           /\ params.s5Window \in Nat
           /\ params.s5Jail \in Nat
           /\ params.s5GlobalWindow \in Nat
           /\ EscalationJail \in Nat
  BY Uint64Type DEF RestTyped, Params, EscalationJail

\* A slash of one validator, as every slashing action performs it.
LEMMA SlashAccount ==
    ASSUME RestTyped, AccountsTyped, AccountsOK,
           NEW v \in Validators, NEW amount \in Nat,
           NEW info, info = SlashNow(validators[v], amount)
    PROVE  /\ info \in ValidatorInfo
           /\ AccountOK(info, now)
           /\ info.jailedUntil = validators[v].jailedUntil
           /\ (info.status = "Blacklisted") <=> (validators[v].status = "Blacklisted")
           /\ info.pendingWithdrawals > 0
                 => info.withdrawAvailableAt = validators[v].withdrawAvailableAt
           /\ info.pendingWithdrawals <= validators[v].pendingWithdrawals
           /\ info.status = "Active" =>
                 \/ info = validators[v]
                 \/ info.activeStake >= params.minStake /\ info.pendingWithdrawals = 0
<1>1. PICK a : a = validators[v]
  OBVIOUS
<1>2. PICK min : min = params.minStake
  OBVIOUS
<1>3. a \in ValidatorInfo /\ AccountOK(a, now) /\ now \in Nat /\ min \in Nat \ {0}
  BY <1>1, <1>2, ParamsParts DEF AccountsTyped, AccountsOK, RestTyped
<1>4. info = ApplySlash(a, amount, min, now)
  BY <1>1, <1>2 DEF SlashNow
<1> QED
  BY <1>1, <1>2, <1>3, <1>4, ApplySlashOK

\* Recomputing the status of one validator, as stake, unstake, claim,
\* reactivate and unblacklist do after they have written `draft'.
LEMMA SyncAccount ==
    ASSUME RestTyped, NEW draft \in ValidatorInfo,
           draft.pendingWithdrawals = 0 => draft.withdrawAvailableAt = 0,
           draft.jailedUntil > now => draft.status \in {"Jailed", "Blacklisted"},
           NEW info, info = SyncNow(draft)
    PROVE  /\ info \in ValidatorInfo
           /\ AccountOK(info, now)
           /\ SameBut(info, draft)
           /\ info.status = "Active" =>
                 info.activeStake >= params.minStake /\ info.pendingWithdrawals = 0
<1>1. now \in Nat
  BY DEF RestTyped
<1>2. info = SyncStatus(draft, params.minStake, now)
  BY DEF SyncNow
<1> QED
  BY <1>1, <1>2, ParamsParts, SyncStatusOK
-----------------------------------------------------------------------------
(* One lemma per action: what it does to the account it writes (Writes)    *)
(* and to the rest of the state (RestTyped').                              *)

\* What every write of an account respects, whoever makes it.
GoodWrite(a, b) ==
    /\ b.jailedUntil < a.jailedUntil => a.jailedUntil <= now
    /\ a.pendingWithdrawals > 0 /\ b.pendingWithdrawals > 0
          => b.withdrawAvailableAt = a.withdrawAvailableAt
    /\ b.status = "Active" =>
          \/ a.status = "Active"
          \/ b.activeStake >= params.minStake /\ b.pendingWithdrawals = 0

Writes(v) ==
    /\ now' = now
    /\ \E info \in ValidatorInfo :
          /\ validators' = [validators EXCEPT ![v] = info]
          /\ AccountOK(info, now)
          /\ GoodWrite(validators[v], info)
    /\ wallet'[v] > wallet[v] => validators[v].withdrawAvailableAt <= now
    /\ \A w \in Validators \ {v} : wallet'[w] = wallet[w]

\* What holds of the account an action is about to write.
LEMMA CurrentAccount ==
    ASSUME IInv, NEW v \in Validators
    PROVE  /\ validators[v] \in ValidatorInfo
           /\ AccountOK(validators[v], now)
           /\ now \in Nat
           /\ wallet[v] \in Nat
  BY DEF IInv, AccountsOK, AccountsTyped, RestTyped

\* An action that moves no DIN to or from a wallet.
LEMMA WritesNoWallet ==
    ASSUME IInv, NEW v \in Validators, NEW info \in ValidatorInfo,
           AccountOK(info, now), GoodWrite(validators[v], info),
           validators' = [validators EXCEPT ![v] = info], now' = now, wallet' = wallet
    PROVE  Writes(v)
<1>1. ~ (wallet'[v] > wallet[v])
  BY CurrentAccount
<1>2. \E b \in ValidatorInfo : /\ validators' = [validators EXCEPT ![v] = b]
                               /\ AccountOK(b, now)
                               /\ GoodWrite(validators[v], b)
  OBVIOUS
<1> QED
  BY <1>1, <1>2 DEF Writes

\* A draft of v's account whose status an action then recomputes.
LEMMA DraftWrite ==
    ASSUME IInv, NEW v \in Validators, NEW draft \in ValidatorInfo,
           draft.pendingWithdrawals = 0 => draft.withdrawAvailableAt = 0,
           draft.jailedUntil > now => draft.status \in {"Jailed", "Blacklisted"},
           draft.jailedUntil < validators[v].jailedUntil => validators[v].jailedUntil <= now,
           validators[v].pendingWithdrawals > 0 /\ draft.pendingWithdrawals > 0
               => draft.withdrawAvailableAt = validators[v].withdrawAvailableAt,
           NEW info, info = SyncNow(draft)
    PROVE  info \in ValidatorInfo /\ AccountOK(info, now) /\ GoodWrite(validators[v], info)
<1>1. /\ info \in ValidatorInfo /\ AccountOK(info, now) /\ SameBut(info, draft)
      /\ info.status = "Active" =>
            info.activeStake >= params.minStake /\ info.pendingWithdrawals = 0
  BY SyncAccount, IInvParts
<1> QED
  BY <1>1 DEF GoodWrite, SameBut

LEMMA StakeStep ==
    ASSUME IInv, NEW v \in Validators, NEW amount \in Nat, Stake(v, amount)
    PROVE  Writes(v) /\ RestTyped'
<1>1. PICK a : a = validators[v]
  OBVIOUS
<1>2. PICK draft : draft = AddStake(a, amount)
  OBVIOUS
<1>3. PICK info : info = SyncNow(draft)
  OBVIOUS
<1>4. info \in ValidatorInfo /\ AccountOK(info, now) /\ GoodWrite(a, info)
  <2>1. a \in ValidatorInfo /\ AccountOK(a, now) /\ now \in Nat
    BY <1>1, CurrentAccount
  <2>2. /\ draft \in ValidatorInfo
        /\ draft.pendingWithdrawals = a.pendingWithdrawals
        /\ draft.withdrawAvailableAt = a.withdrawAvailableAt
        /\ draft.jailedUntil = a.jailedUntil
        /\ draft.status = a.status
    BY <1>2, <2>1, AddStakeOK
  <2> QED
    BY <1>1, <1>3, <2>1, <2>2, DraftWrite DEF AccountOK, ValidatorInfo
<1>5. validators' = [validators EXCEPT ![v] = info]
  BY <1>1, <1>2, <1>3 DEF Stake
<1>6. /\ wallet' = [wallet EXCEPT ![v] = @ - amount]
      /\ wallet[v] >= amount
      /\ UNCHANGED <<now, config, rings, noParticipationCount>>
  BY DEF Stake
<1>7. wallet' \in [Validators -> Nat]
  BY <1>6, IInvParts DEF RestTyped
<1>8. RestTyped'
  BY <1>6, <1>7, IInvParts DEF RestTyped, config, rings
<1>9. ~ (wallet'[v] > wallet[v]) /\ \A w \in Validators \ {v} : wallet'[w] = wallet[w]
  BY <1>6, IInvParts DEF RestTyped
<1> QED
  BY <1>1, <1>4, <1>5, <1>6, <1>8, <1>9 DEF Writes

LEMMA UnstakeStep ==
    ASSUME IInv, NEW v \in Validators, NEW amount \in Nat, Unstake(v, amount)
    PROVE  Writes(v) /\ RestTyped'
<1>1. PICK a : a = validators[v]
  OBVIOUS
<1>2. PICK deadline : deadline = Uint64(now + params.unbonding)
  OBVIOUS
<1>3. PICK draft : draft = RequestWithdrawal(a, amount, deadline)
  OBVIOUS
<1>4. PICK info : info = SyncNow(draft)
  OBVIOUS
<1>5. info \in ValidatorInfo /\ AccountOK(info, now) /\ GoodWrite(a, info)
  <2>1. a \in ValidatorInfo /\ AccountOK(a, now) /\ now \in Nat
    BY <1>1, CurrentAccount
  <2>2. deadline \in Nat
    <3>1. now + params.unbonding \in Nat
      BY <2>1, ParamsParts, IInvParts
    <3> QED
      BY <1>2, <3>1, Uint64Type
  <2>3. amount <= a.activeStake /\ amount > 0 /\ a.pendingWithdrawals = 0
    BY <1>1, <2>1 DEF Unstake, ValidatorInfo
  <2>4. /\ draft \in ValidatorInfo
        /\ draft.pendingWithdrawals = amount
        /\ draft.withdrawAvailableAt = deadline
        /\ draft.jailedUntil = a.jailedUntil
        /\ draft.status = a.status
    BY <1>3, <2>1, <2>2, <2>3, RequestWithdrawalOK
  <2> QED
    BY <1>1, <1>4, <2>1, <2>3, <2>4, DraftWrite DEF AccountOK, ValidatorInfo
<1>6. validators' = [validators EXCEPT ![v] = info]
  BY <1>1, <1>2, <1>3, <1>4 DEF Unstake
<1>7. UNCHANGED <<now, config, rings, noParticipationCount, tokens>>
  BY DEF Unstake
<1>8. RestTyped'
  BY <1>7, IInvParts DEF RestTyped, config, rings, tokens
<1> QED
  BY <1>1, <1>5, <1>6, <1>7, <1>8, WritesNoWallet DEF tokens

LEMMA ClaimUnstakedStep ==
    ASSUME IInv, NEW v \in Validators, ClaimUnstaked(v)
    PROVE  Writes(v) /\ RestTyped'
<1>1. PICK a : a = validators[v]
  OBVIOUS
<1>2. PICK draft : draft = EndWithdrawal(a)
  OBVIOUS
<1>3. PICK info : info = SyncNow(draft)
  OBVIOUS
<1>4. a \in ValidatorInfo /\ AccountOK(a, now) /\ now \in Nat
  BY <1>1, CurrentAccount
<1>5. info \in ValidatorInfo /\ AccountOK(info, now) /\ GoodWrite(a, info)
  <2>1. /\ draft \in ValidatorInfo
        /\ draft.pendingWithdrawals = 0
        /\ draft.withdrawAvailableAt = 0
        /\ draft.jailedUntil = a.jailedUntil
        /\ draft.status = a.status
    BY <1>2, <1>4, EndWithdrawalOK
  <2> QED
    BY <1>1, <1>3, <1>4, <2>1, DraftWrite DEF AccountOK, ValidatorInfo
<1>6. validators' = [validators EXCEPT ![v] = info]
  BY <1>1, <1>2, <1>3 DEF ClaimUnstaked
<1>7. /\ wallet' = [wallet EXCEPT ![v] = @ + a.pendingWithdrawals]
      /\ now >= a.withdrawAvailableAt
      /\ UNCHANGED <<now, config, rings, noParticipationCount>>
  BY <1>1 DEF ClaimUnstaked
<1>8. wallet' \in [Validators -> Nat]
  BY <1>4, <1>7, IInvParts DEF RestTyped, ValidatorInfo
<1>9. RestTyped'
  BY <1>7, <1>8, IInvParts DEF RestTyped, config, rings
<1>10. a.withdrawAvailableAt <= now /\ \A w \in Validators \ {v} : wallet'[w] = wallet[w]
  BY <1>4, <1>7, IInvParts DEF RestTyped, ValidatorInfo
<1> QED
  BY <1>1, <1>5, <1>6, <1>7, <1>9, <1>10 DEF Writes

LEMMA ReactivateStep ==
    ASSUME IInv, NEW v \in Validators, Reactivate(v)
    PROVE  Writes(v) /\ RestTyped'
<1>1. PICK a : a = validators[v]
  OBVIOUS
<1>2. PICK draft : draft = EndJail(a)
  OBVIOUS
<1>3. PICK info : info = SyncNow(draft)
  OBVIOUS
<1>4. info \in ValidatorInfo /\ AccountOK(info, now) /\ GoodWrite(a, info)
  <2>1. a \in ValidatorInfo /\ AccountOK(a, now) /\ now \in Nat
    BY <1>1, CurrentAccount
  <2>2. /\ draft \in ValidatorInfo
        /\ draft.pendingWithdrawals = a.pendingWithdrawals
        /\ draft.withdrawAvailableAt = a.withdrawAvailableAt
        /\ draft.jailedUntil = 0
    BY <1>2, <2>1, EndJailOK
  <2>3. a.jailedUntil <= now
    BY <1>1, <2>1 DEF Reactivate, ValidatorInfo
  <2> QED
    BY <1>1, <1>3, <2>1, <2>2, <2>3, DraftWrite DEF AccountOK
<1>5. validators' = [validators EXCEPT ![v] = info]
  BY <1>1, <1>2, <1>3 DEF Reactivate
<1>6. UNCHANGED <<now, config, rings, noParticipationCount, tokens>>
  BY DEF Reactivate
<1>7. RestTyped'
  BY <1>6, IInvParts DEF RestTyped, config, rings, tokens
<1> QED
  BY <1>1, <1>4, <1>5, <1>6, <1>7, WritesNoWallet DEF tokens
\* What the slashing actions share: the account written is the slashed one.
LEMMA SlashWrites ==
    ASSUME IInv, NEW v \in Validators, NEW amount \in Nat,
           validators' = [validators EXCEPT ![v] = SlashNow(@, amount)],
           PaySlash(v, amount), now' = now
    PROVE  Writes(v) /\ wallet' = wallet
<1>1. PICK a : a = validators[v]
  OBVIOUS
<1>2. PICK info : info = SlashNow(a, amount)
  OBVIOUS
<1>3. /\ info \in ValidatorInfo /\ AccountOK(info, now)
      /\ GoodWrite(a, info)
  <2>1. /\ info \in ValidatorInfo /\ AccountOK(info, now)
        /\ info.jailedUntil = a.jailedUntil
        /\ info.pendingWithdrawals > 0 => info.withdrawAvailableAt = a.withdrawAvailableAt
        /\ info.status = "Active" =>
              \/ info = a
              \/ info.activeStake >= params.minStake /\ info.pendingWithdrawals = 0
    BY <1>1, <1>2, SlashAccount, IInvParts
  <2>2. ~ (info.jailedUntil < a.jailedUntil)
    BY <1>1, <2>1, CurrentAccount DEF ValidatorInfo
  <2> QED
    BY <2>1, <2>2 DEF GoodWrite
<1>4. validators' = [validators EXCEPT ![v] = info]
  BY <1>1, <1>2
<1>5. wallet' = wallet
  BY DEF PaySlash
<1> QED
  BY <1>1, <1>3, <1>4, <1>5, WritesNoWallet

LEMMA SlashStep ==
    ASSUME IInv, NEW s \in Slashers, NEW v \in Validators, NEW amount \in Nat,
           Slash(s, v, amount)
    PROVE  Writes(v) /\ RestTyped'
<1>1. UNCHANGED <<now, config, rings, noParticipationCount>>
  BY DEF Slash
<1>2. Writes(v) /\ wallet' = wallet
  BY <1>1, SlashWrites DEF Slash
<1> QED
  BY <1>1, <1>2, IInvParts DEF RestTyped, config, rings

\* Updates of the tables by validator, and by validator and slasher.
LEMMA UpdateTyped ==
    ASSUME NEW T, NEW D, NEW f \in [D -> T], NEW d \in D, NEW e \in T
    PROVE  [f EXCEPT ![d] = e] \in [D -> T]
  OBVIOUS

LEMMA UpdateTyped2 ==
    ASSUME NEW T, NEW f \in [Validators -> [Slashers -> T]],
           NEW v \in Validators, NEW s \in Slashers, NEW e \in T
    PROVE  [f EXCEPT ![v][s] = e] \in [Validators -> [Slashers -> T]]
  OBVIOUS

\* The rings a partial slash leaves are sequences of naturals.
LEMMA RecordedTyped ==
    ASSUME RestTyped, NEW s \in Slashers, NEW v \in Validators, NEW giIndex \in Nat
    PROVE  /\ RecordedGIs(v, s, giIndex) \in Seq(Nat)
           /\ RecordedTimes(v) \in Seq(Nat)
<1>1. VisibleRing(v, s) \in Seq(Nat) /\ partialSlashTimes[v] \in Seq(Nat) /\ now \in Nat
  BY DEF RestTyped, VisibleRing
<1>2. PICK ring : ring = VisibleRing(v, s)
  OBVIOUS
<1>3. PICK recorded : recorded = RecordInRing(ring, giIndex, params.s5Window)
  OBVIOUS
<1>4. recorded \in Seq(Nat)
  BY <1>1, <1>2, <1>3, ParamsParts, RecordInRingOK
<1>5. PICK times : times = RecordInRing(partialSlashTimes[v], now, params.s5GlobalWindow)
  OBVIOUS
<1>6. times \in Seq(Nat)
  BY <1>1, <1>5, ParamsParts, RecordInRingOK
<1> QED
  BY <1>1, <1>2, <1>3, <1>4, <1>5, <1>6 DEF RecordedGIs, RecordedTimes

LEMMA SlashPartialStep ==
    ASSUME IInv, NEW s \in Slashers, NEW v \in Validators, NEW amount \in Nat,
           NEW giIndex \in Nat, SlashPartial(s, v, amount, giIndex)
    PROVE  Writes(v) /\ RestTyped'
<1>1. UNCHANGED <<now, config, s5EscalationEpoch, noParticipationCount>>
  BY DEF SlashPartial
<1>2. Writes(v) /\ wallet' = wallet
  BY <1>1, SlashWrites DEF SlashPartial
<1>3. /\ reportedGI' = [reportedGI EXCEPT ![s] = giIndex]
      /\ partialSlashGIs' = [partialSlashGIs EXCEPT ![v][s] = RecordedGIs(v, s, giIndex)]
      /\ partialSlashEpoch' = [partialSlashEpoch EXCEPT ![v][s] = s5EscalationEpoch[v]]
      /\ partialSlashTimes' = [partialSlashTimes EXCEPT ![v] = RecordedTimes(v)]
      /\ sinceEscalation' = [sinceEscalation EXCEPT ![v] = @ + 1]
      /\ sinceEscalationBy' = [sinceEscalationBy EXCEPT ![v][s] = @ + 1]
  BY DEF SlashPartial, PartialSlashCall
<1>4. RecordedGIs(v, s, giIndex) \in Seq(Nat) /\ RecordedTimes(v) \in Seq(Nat)
  BY RecordedTyped, IInvParts
<1>5. /\ reportedGI' \in [Slashers -> Nat]
      /\ partialSlashGIs' \in [Validators -> [Slashers -> Seq(Nat)]]
      /\ partialSlashEpoch' \in [Validators -> [Slashers -> Nat]]
      /\ partialSlashTimes' \in [Validators -> Seq(Nat)]
      /\ sinceEscalation' \in [Validators -> Nat]
      /\ sinceEscalationBy' \in [Validators -> [Slashers -> Nat]]
  <2>1. reportedGI' \in [Slashers -> Nat]
    BY <1>3, IInvParts, UpdateTyped DEF RestTyped
  <2>2. partialSlashGIs' \in [Validators -> [Slashers -> Seq(Nat)]]
    <3>1. PICK ring \in Seq(Nat) : ring = RecordedGIs(v, s, giIndex)
      BY <1>4
    <3>2. partialSlashGIs' = [partialSlashGIs EXCEPT ![v][s] = ring]
      BY <1>3, <3>1
    <3>3. partialSlashGIs \in [Validators -> [Slashers -> Seq(Nat)]]
      BY IInvParts DEF RestTyped
    <3> QED
      BY <3>2, <3>3, UpdateTyped2
  <2>3. partialSlashEpoch' \in [Validators -> [Slashers -> Nat]]
    BY <1>3, IInvParts, UpdateTyped2 DEF RestTyped
  <2>4. partialSlashTimes' \in [Validators -> Seq(Nat)]
    BY <1>3, <1>4, IInvParts, UpdateTyped DEF RestTyped
  <2>5. sinceEscalation' \in [Validators -> Nat]
    BY <1>3, IInvParts DEF RestTyped
  <2>6. sinceEscalationBy' \in [Validators -> [Slashers -> Nat]]
    BY <1>3, IInvParts DEF RestTyped
  <2> QED
    BY <2>1, <2>2, <2>3, <2>4, <2>5, <2>6
<1> QED
  BY <1>1, <1>2, <1>5, IInvParts DEF RestTyped, config

LEMMA SlashPartialEscalatedStep ==
    ASSUME IInv, NEW s \in Slashers, NEW v \in Validators, NEW amount \in Nat,
           NEW giIndex \in Nat, SlashPartialEscalated(s, v, amount, giIndex)
    PROVE  Writes(v) /\ RestTyped'
<1>1. PICK a : a = validators[v]
  OBVIOUS
<1>2. PICK slashed : slashed = SlashNow(a, params.minStake)
  OBVIOUS
<1>3. PICK info : info = Jail(slashed, EscalationJail, now)
  OBVIOUS
<1>4. a \in ValidatorInfo /\ AccountOK(a, now) /\ now \in Nat
  BY <1>1, CurrentAccount
<1>5. /\ slashed \in ValidatorInfo /\ AccountOK(slashed, now)
      /\ slashed.jailedUntil = a.jailedUntil
      /\ slashed.pendingWithdrawals > 0 => slashed.withdrawAvailableAt = a.withdrawAvailableAt
  BY <1>1, <1>2, SlashAccount, ParamsParts, IInvParts
<1>6. /\ info \in ValidatorInfo /\ AccountOK(info, now)
      /\ JailWritten(slashed, info, now, EscalationJail)
  <2>1. PICK duration : duration = EscalationJail
    OBVIOUS
  <2>2. duration \in Nat
    BY <2>1, ParamsParts, IInvParts
  <2>3. info = Jail(slashed, duration, now)
    BY <1>3, <2>1
  <2> QED
    BY <1>4, <1>5, <2>1, <2>2, <2>3, JailOK
<1>7. GoodWrite(a, info)
  BY <1>4, <1>5, <1>6 DEF GoodWrite, JailWritten, ValidatorInfo
<1>8. validators' = [validators EXCEPT ![v] = info]
  BY <1>1, <1>2, <1>3 DEF SlashPartialEscalated
<1>9. wallet' = wallet
  BY DEF SlashPartialEscalated, PaySlash
<1>10. /\ UNCHANGED <<now, config, noParticipationCount>>
       /\ reportedGI' = [reportedGI EXCEPT ![s] = giIndex]
       /\ partialSlashEpoch' = [partialSlashEpoch EXCEPT ![v][s] = s5EscalationEpoch[v]]
       /\ s5EscalationEpoch' = [s5EscalationEpoch EXCEPT ![v] = @ + 1]
       /\ partialSlashGIs' = [partialSlashGIs EXCEPT ![v][s] = <<>>]
       /\ partialSlashTimes' = [partialSlashTimes EXCEPT ![v] = <<>>]
       /\ sinceEscalation' = [sinceEscalation EXCEPT ![v] = 0]
       /\ sinceEscalationBy' = [sinceEscalationBy EXCEPT ![v] = [z \in Slashers |-> 0]]
  BY DEF SlashPartialEscalated, PartialSlashCall
<1>11. /\ reportedGI' \in [Slashers -> Nat]
       /\ partialSlashEpoch' \in [Validators -> [Slashers -> Nat]]
       /\ s5EscalationEpoch' \in [Validators -> Nat]
       /\ partialSlashGIs' \in [Validators -> [Slashers -> Seq(Nat)]]
       /\ partialSlashTimes' \in [Validators -> Seq(Nat)]
       /\ sinceEscalation' \in [Validators -> Nat]
       /\ sinceEscalationBy' \in [Validators -> [Slashers -> Nat]]
  <2>1. <<>> \in Seq(Nat)
    OBVIOUS
  <2>2. reportedGI' \in [Slashers -> Nat]
    BY <1>10, IInvParts DEF RestTyped
  <2>3. partialSlashEpoch' \in [Validators -> [Slashers -> Nat]]
    BY <1>10, IInvParts, UpdateTyped2 DEF RestTyped
  <2>4. s5EscalationEpoch' \in [Validators -> Nat]
    BY <1>10, IInvParts DEF RestTyped
  <2>5. partialSlashGIs' \in [Validators -> [Slashers -> Seq(Nat)]]
    BY <1>10, <2>1, IInvParts, UpdateTyped2 DEF RestTyped
  <2>6. partialSlashTimes' \in [Validators -> Seq(Nat)]
    BY <1>10, <2>1, IInvParts, UpdateTyped DEF RestTyped
  <2>7. sinceEscalation' \in [Validators -> Nat]
    BY <1>10, IInvParts DEF RestTyped
  <2>8. sinceEscalationBy' \in [Validators -> [Slashers -> Nat]]
    BY <1>10, IInvParts DEF RestTyped
  <2> QED
    BY <2>2, <2>3, <2>4, <2>5, <2>6, <2>7, <2>8
<1>12. RestTyped'
  BY <1>9, <1>10, <1>11, IInvParts DEF RestTyped, config
<1> QED
  BY <1>1, <1>6, <1>7, <1>8, <1>9, <1>10, <1>12, WritesNoWallet
\* The S6 slash is a natural, at most MIN_STAKE.
LEMMA NoShowSlashTyped ==
    ASSUME RestTyped, NEW count \in Nat
    PROVE  NoShowSlash(count) \in Nat /\ NoShowSlash(count) <= params.minStake
<1>1. PICK min : min = params.minStake
  OBVIOUS
<1>2. PICK threshold : threshold = params.s6Threshold
  OBVIOUS
<1>3. min \in Nat /\ threshold \in Nat
  BY <1>1, <1>2 DEF RestTyped, Params
<1>4. CASE count < threshold
  BY <1>1, <1>2, <1>3, <1>4 DEF NoShowSlash
<1>5. CASE ~ (count < threshold)
  <2>1. PICK breaches : breaches = count - threshold + 1
    OBVIOUS
  <2>2. breaches \in Nat
    BY <1>3, <1>5, <2>1
  <2>3. PICK product : product = min * breaches
    OBVIOUS
  <2>4. product \in Nat
    BY <1>3, <2>2, <2>3
  <2>5. product \div 10 \in Nat
    BY <2>4
  <2>6. NoShowSlash(count) = IF product \div 10 > min THEN min ELSE product \div 10
    BY <1>1, <1>2, <1>5, <2>1, <2>3 DEF NoShowSlash
  <2> QED
    BY <1>1, <1>3, <2>5, <2>6
<1> QED
  BY <1>4, <1>5

LEMMA RecordNoParticipationStep ==
    ASSUME IInv, NEW s \in Slashers, NEW v \in Validators, RecordNoParticipation(s, v)
    PROVE  Writes(v) /\ RestTyped'
<1>1. PICK count : count = noParticipationCount[v] + 1
  OBVIOUS
<1>2. count \in Nat
  BY <1>1, IInvParts DEF RestTyped
<1>3. PICK amount : amount = NoShowSlash(count)
  OBVIOUS
<1>4. amount \in Nat
  BY <1>2, <1>3, NoShowSlashTyped, IInvParts
<1>5. /\ validators' = [validators EXCEPT ![v] = SlashNow(@, amount)]
      /\ PaySlash(v, amount)
      /\ noParticipationCount' = [noParticipationCount EXCEPT ![v] = count]
      /\ UNCHANGED <<now, config, rings>>
  BY <1>1, <1>3 DEF RecordNoParticipation
<1>6. Writes(v) /\ wallet' = wallet
  BY <1>4, <1>5, SlashWrites
<1>7. noParticipationCount' \in [Validators -> Nat]
  BY <1>2, <1>5, IInvParts DEF RestTyped
<1> QED
  BY <1>5, <1>6, <1>7, IInvParts DEF RestTyped, config, rings

LEMMA JailValidatorStep ==
    ASSUME IInv, NEW s \in Slashers, NEW v \in Validators, NEW duration \in Nat,
           JailValidator(s, v, duration)
    PROVE  Writes(v) /\ RestTyped'
<1>1. PICK a : a = validators[v]
  OBVIOUS
<1>2. PICK info : info = Jail(a, duration, now)
  OBVIOUS
<1>3. a \in ValidatorInfo /\ AccountOK(a, now) /\ now \in Nat
  BY <1>1, CurrentAccount
<1>4. /\ info \in ValidatorInfo /\ AccountOK(info, now)
      /\ JailWritten(a, info, now, duration)
  BY <1>2, <1>3, JailOK
<1>5. GoodWrite(a, info)
  BY <1>3, <1>4 DEF GoodWrite, JailWritten, ValidatorInfo
<1>6. validators' = [validators EXCEPT ![v] = info]
  BY <1>1, <1>2 DEF JailValidator
<1>7. UNCHANGED <<now, config, rings, noParticipationCount, tokens>>
  BY DEF JailValidator
<1>8. RestTyped'
  BY <1>7, IInvParts DEF RestTyped, config, rings, tokens
<1> QED
  BY <1>1, <1>4, <1>5, <1>6, <1>7, <1>8, WritesNoWallet DEF tokens

LEMMA BlacklistValidatorStep ==
    ASSUME IInv, NEW v \in Validators, BlacklistValidator(v)
    PROVE  Writes(v) /\ RestTyped'
<1>1. PICK a : a = validators[v]
  OBVIOUS
<1>2. PICK info : info = WithStatus(a, "Blacklisted")
  OBVIOUS
<1>3. a \in ValidatorInfo /\ AccountOK(a, now) /\ now \in Nat
  BY <1>1, CurrentAccount
<1>4. info \in ValidatorInfo /\ SameBut(info, a) /\ info.status = "Blacklisted"
  BY <1>2, <1>3, WithStatusOK DEF ValidatorStatus
<1>5. AccountOK(info, now) /\ GoodWrite(a, info)
  BY <1>3, <1>4 DEF AccountOK, GoodWrite, SameBut, ValidatorInfo
<1>6. validators' = [validators EXCEPT ![v] = info]
  BY <1>1, <1>2 DEF BlacklistValidator
<1>7. UNCHANGED <<now, config, rings, noParticipationCount, tokens>>
  BY DEF BlacklistValidator
<1>8. RestTyped'
  BY <1>7, IInvParts DEF RestTyped, config, rings, tokens
<1> QED
  BY <1>1, <1>4, <1>5, <1>6, <1>7, <1>8, WritesNoWallet DEF tokens

LEMMA UnblacklistValidatorStep ==
    ASSUME IInv, NEW v \in Validators, UnblacklistValidator(v)
    PROVE  Writes(v) /\ RestTyped'
<1>1. PICK a : a = validators[v]
  OBVIOUS
<1>2. PICK status : status = IF a.jailedUntil > now THEN "Jailed" ELSE "None"
  OBVIOUS
<1>3. PICK draft : draft = WithStatus(a, status)
  OBVIOUS
<1>4. PICK info : info = SyncNow(draft)
  OBVIOUS
<1>5. a \in ValidatorInfo /\ AccountOK(a, now) /\ now \in Nat
  BY <1>1, CurrentAccount
<1>6. draft \in ValidatorInfo /\ SameBut(draft, a) /\ draft.status = status
  BY <1>2, <1>3, <1>5, WithStatusOK DEF ValidatorStatus
<1>7. /\ draft.jailedUntil > now => draft.status \in {"Jailed", "Blacklisted"}
      /\ ~ (draft.jailedUntil < a.jailedUntil)
      /\ draft.pendingWithdrawals = 0 => draft.withdrawAvailableAt = 0
      /\ draft.withdrawAvailableAt = a.withdrawAvailableAt
  BY <1>2, <1>5, <1>6 DEF SameBut, AccountOK, ValidatorInfo
<1>8. info \in ValidatorInfo /\ AccountOK(info, now) /\ GoodWrite(a, info)
  BY <1>1, <1>4, <1>6, <1>7, DraftWrite
<1>9. validators' = [validators EXCEPT ![v] = info]
  BY <1>1, <1>2, <1>3, <1>4 DEF UnblacklistValidator
<1>10. UNCHANGED <<now, config, rings, noParticipationCount, tokens>>
  BY DEF UnblacklistValidator
<1>11. RestTyped'
  BY <1>10, IInvParts DEF RestTyped, config, rings, tokens
<1> QED
  BY <1>1, <1>8, <1>9, <1>10, <1>11, WritesNoWallet DEF tokens

\* The steps that write no account: the configuration calls and the clock.
LEMMA ConfigStep ==
    ASSUME IInv,
           \/ SetSlashTreasury
           \/ \E s \in Slashers : CoordinatorStep(s)
    PROVE  RestTyped' /\ UNCHANGED <<now, validators, wallet>>
  BY IInvParts DEF RestTyped, CoordinatorStep, AddSlasherContract, RemoveSlasherContract,
     SetSlashTreasury, rings, tokens

LEMMA SetParamsStep ==
    ASSUME IInv, NEW p \in Params, SetParams(p)
    PROVE  RestTyped' /\ UNCHANGED <<now, validators, wallet>>
  BY IInvParts DEF RestTyped, SetParams, rings, tokens

LEMMA SettersStep ==
    ASSUME IInv,
           \/ \E amount \in MinStakes : SetMinStake(amount)
           \/ \E period \in UnbondingPeriods : SetUnbondingPeriod(period)
           \/ \E p \in S5Params : SetS5RecidivismParams(p)
           \/ \E p \in S5GlobalParams : SetS5GlobalParams(p)
           \/ \E threshold \in S6Thresholds : SetS6NoParticipationThreshold(threshold)
    PROVE  RestTyped' /\ UNCHANGED <<now, validators, wallet>>
<1>1. params \in Params
  BY IInvParts DEF RestTyped
<1>2. CASE \E amount \in MinStakes : SetMinStake(amount)
  BY <1>1, <1>2, SetParamsStep, ConstantsAssumption DEF SetMinStake, Params
<1>3. CASE \E period \in UnbondingPeriods : SetUnbondingPeriod(period)
  BY <1>1, <1>3, SetParamsStep, ConstantsAssumption DEF SetUnbondingPeriod, Params
<1>4. CASE \E p \in S5Params : SetS5RecidivismParams(p)
  BY <1>1, <1>4, SetParamsStep, ConstantsAssumption DEF SetS5RecidivismParams, Params
<1>5. CASE \E p \in S5GlobalParams : SetS5GlobalParams(p)
  BY <1>1, <1>5, SetParamsStep, ConstantsAssumption DEF SetS5GlobalParams, Params
<1>6. CASE \E threshold \in S6Thresholds : SetS6NoParticipationThreshold(threshold)
  BY <1>1, <1>6, SetParamsStep, ConstantsAssumption DEF SetS6NoParticipationThreshold, Params
<1> QED
  BY <1>2, <1>3, <1>4, <1>5, <1>6

LEMMA TickStep ==
    ASSUME IInv, Tick
    PROVE  /\ RestTyped' /\ AccountsTyped' /\ AccountsOK'
           /\ UNCHANGED <<validators, wallet>>
<1>1. UNCHANGED <<config, validators, rings, noParticipationCount, tokens>> /\ now' = now + 1
  BY DEF Tick
<1>2. RestTyped'
  BY <1>1, IInvParts DEF RestTyped, config, rings, tokens
<1>3. AccountsTyped'
  BY <1>1, IInvParts DEF AccountsTyped
<1>4. ASSUME NEW v \in Validators PROVE AccountOK(validators'[v], now')
  BY <1>1, CurrentAccount, AccountOKLater
<1> QED
  BY <1>1, <1>2, <1>3, <1>4 DEF AccountsOK, tokens
-----------------------------------------------------------------------------
(* The invariant. *)

\* A write of one account, with the rest typed, keeps the invariant.
LEMMA WritesKeepIInv ==
    ASSUME IInv, NEW v \in Validators, Writes(v), RestTyped'
    PROVE  IInv'
<1>1. PICK info \in ValidatorInfo :
         /\ validators' = [validators EXCEPT ![v] = info]
         /\ AccountOK(info, now)
  BY DEF Writes
<1>2. now' = now
  BY DEF Writes
<1>3. AccountsTyped' /\ AccountsOK'
  BY <1>1, <1>2, WriteAccount, IInvParts
<1> QED
  BY <1>3, IInvParts2

\* Every step writes one account within bounds, or leaves accounts and
\* wallets as they were.
LEMMA StepCases ==
    ASSUME IInv, [Next]_vars
    PROVE  /\ RestTyped'
           /\ \/ \E v \in Validators : Writes(v)
              \/ UNCHANGED <<now, validators, wallet>>
              \/ Tick
<1>1. CASE Tick
  BY <1>1, TickStep
<1>2. ASSUME NEW v \in Validators, ValidatorStep(v) PROVE Writes(v) /\ RestTyped'
  BY <1>2, StakeStep, UnstakeStep, ClaimUnstakedStep, ReactivateStep, ConstantsAssumption
     DEF ValidatorStep
<1>3. ASSUME NEW s \in Slashers, NEW v \in Validators, SlasherStep(s, v)
      PROVE  Writes(v) /\ RestTyped'
  <2>1. 0..MaxGI \subseteq Nat /\ SlashAmounts \subseteq Nat /\ JailDurations \subseteq Nat
    BY ConstantsAssumption
  <2>2. CASE \E amount \in SlashAmounts : Slash(s, v, amount)
    BY <2>1, <2>2, SlashStep
  <2>3. CASE \E amount \in SlashAmounts, giIndex \in 0..MaxGI :
                 SlashPartial(s, v, amount, giIndex)
    BY <2>1, <2>3, SlashPartialStep
  <2>4. CASE \E amount \in SlashAmounts, giIndex \in 0..MaxGI :
                 SlashPartialEscalated(s, v, amount, giIndex)
    BY <2>1, <2>4, SlashPartialEscalatedStep
  <2>5. CASE RecordNoParticipation(s, v)
    BY <2>5, RecordNoParticipationStep
  <2>6. CASE \E duration \in JailDurations : JailValidator(s, v, duration)
    BY <2>1, <2>6, JailValidatorStep
  <2> QED
    BY <1>3, <2>2, <2>3, <2>4, <2>5, <2>6 DEF SlasherStep
<1>4. CASE OwnerStep
  <2>1. CASE \E v \in Validators : BlacklistValidator(v) \/ UnblacklistValidator(v)
    BY <2>1, BlacklistValidatorStep, UnblacklistValidatorStep
  <2>2. CASE SetSlashTreasury
    BY <2>2, ConfigStep
  <2>3. CASE \/ \E amount \in MinStakes : SetMinStake(amount)
             \/ \E period \in UnbondingPeriods : SetUnbondingPeriod(period)
             \/ \E p \in S5Params : SetS5RecidivismParams(p)
             \/ \E p \in S5GlobalParams : SetS5GlobalParams(p)
             \/ \E threshold \in S6Thresholds : SetS6NoParticipationThreshold(threshold)
    BY <2>3, SettersStep
  <2> QED
    BY <1>4, <2>1, <2>2, <2>3 DEF OwnerStep
<1>5. CASE \E s \in Slashers : CoordinatorStep(s)
  BY <1>5, ConfigStep
<1>6. CASE UNCHANGED vars
  BY <1>6, IInvParts DEF RestTyped, vars, config, rings, tokens
<1> QED
  BY <1>1, <1>2, <1>3, <1>4, <1>5, <1>6 DEF Next

LEMMA IInvInit == Init => IInv
<1> SUFFICES ASSUME Init PROVE IInv
  OBVIOUS
<1>1. NoValidator \in ValidatorInfo /\ AccountOK(NoValidator, 0)
  BY DEF NoValidator, ValidatorInfo, ValidatorStatus, AccountOK
<1>2. AccountsTyped /\ AccountsOK
  BY <1>1 DEF Init, AccountsTyped, AccountsOK
<1>3. RestTyped
  <2>1. <<>> \in Seq(Nat)
    OBVIOUS
  <2>2. partialSlashGIs \in [Validators -> [Slashers -> Seq(Nat)]]
    BY <2>1, Zenon DEF Init
  <2>3. partialSlashTimes \in [Validators -> Seq(Nat)]
    BY <2>1, Zenon DEF Init
  <2>4. /\ partialSlashEpoch \in [Validators -> [Slashers -> Nat]]
        /\ s5EscalationEpoch \in [Validators -> Nat]
        /\ noParticipationCount \in [Validators -> Nat]
        /\ reportedGI \in [Slashers -> Nat]
        /\ sinceEscalation \in [Validators -> Nat]
        /\ sinceEscalationBy \in [Validators -> [Slashers -> Nat]]
    BY DEF Init
  <2>5. treasurySet \in BOOLEAN /\ slasherContracts \subseteq Slashers
    BY DEF Init
  <2>6. /\ now \in Nat /\ params \in Params
        /\ wallet \in [Validators -> Nat]
    BY ConstantsAssumption DEF Init
  <2> QED
    BY <2>2, <2>3, <2>4, <2>5, <2>6 DEF RestTyped
<1> QED
  BY <1>2, <1>3, IInvParts

LEMMA IInvStep == IInv /\ [Next]_vars => IInv'
<1> SUFFICES ASSUME IInv, [Next]_vars PROVE IInv'
  OBVIOUS
<1>1. RestTyped'
  BY StepCases
<1>2. CASE \E v \in Validators : Writes(v)
  BY <1>1, <1>2, WritesKeepIInv
<1>3. CASE UNCHANGED <<now, validators, wallet>>
  BY <1>1, <1>3, IInvParts, IInvParts2 DEF AccountsTyped, AccountsOK
<1>4. CASE Tick
  BY <1>4, TickStep, IInvParts2
<1> QED
  BY <1>2, <1>3, <1>4, StepCases

THEOREM Invariance == Spec => []IInv
<1>1. Init => IInv
  BY IInvInit
<1>2. IInv /\ [Next]_vars => IInv'
  BY IInvStep
<1> QED
  BY <1>1, <1>2, PTL DEF Spec
-----------------------------------------------------------------------------
(* The properties the runs check. *)

\* The sums of DIN stay typed: every step leaves them alone, or moves what one
\* account gives or takes.
LEMMA PoolsStep ==
    ASSUME IInv, PoolsTyped, [Next]_vars PROVE PoolsTyped'
<1>1. CASE Tick \/ OwnerStep \/ (\E s \in Slashers : CoordinatorStep(s)) \/ UNCHANGED vars
  BY <1>1 DEF PoolsTyped, Tick, OwnerStep, CoordinatorStep, vars, tokens, BlacklistValidator,
     UnblacklistValidator, SetSlashTreasury, SetMinStake, SetUnbondingPeriod,
     SetS5RecidivismParams, SetS5GlobalParams, SetS6NoParticipationThreshold, SetParams,
     AddSlasherContract, RemoveSlasherContract
<1>2. ASSUME NEW v \in Validators, ValidatorStep(v) PROVE PoolsTyped'
  <2>1. validators[v].pendingWithdrawals \in Nat /\ StakeAmounts \subseteq Nat
    BY CurrentAccount, ConstantsAssumption DEF ValidatorInfo
  <2>2. CASE \E amount \in StakeAmounts : Stake(v, amount)
    BY <2>1, <2>2 DEF Stake, PoolsTyped
  <2>3. CASE ClaimUnstaked(v)
    BY <2>1, <2>3 DEF ClaimUnstaked, PoolsTyped
  <2>4. CASE (\E amount \in StakeAmounts : Unstake(v, amount)) \/ Reactivate(v)
    BY <2>4 DEF Unstake, Reactivate, PoolsTyped, tokens
  <2> QED
    BY <1>2, <2>2, <2>3, <2>4 DEF ValidatorStep
<1>3. ASSUME NEW s \in Slashers, NEW v \in Validators, SlasherStep(s, v) PROVE PoolsTyped'
  <2>1. CASE \E amount \in Nat : PaySlash(v, amount)
    BY <2>1, PaySlashTyped, IInvParts
  <2>2. CASE \E duration \in JailDurations : JailValidator(s, v, duration)
    BY <2>2 DEF JailValidator, PoolsTyped, tokens
  <2>3. CASE RecordNoParticipation(s, v)
    <3>1. PICK count : count = noParticipationCount[v] + 1
      OBVIOUS
    <3>2. count \in Nat
      BY <3>1, IInvParts DEF RestTyped
    <3>3. NoShowSlash(count) \in Nat
      BY <3>2, NoShowSlashTyped, IInvParts
    <3> QED
      BY <2>1, <2>3, <3>1, <3>3 DEF RecordNoParticipation
  <2>4. CASE \E amount \in SlashAmounts, giIndex \in 0..MaxGI :
                 SlashPartialEscalated(s, v, amount, giIndex)
    BY <2>1, <2>4, ParamsParts, IInvParts DEF SlashPartialEscalated
  <2>5. CASE \/ \E amount \in SlashAmounts : Slash(s, v, amount)
             \/ \E amount \in SlashAmounts, giIndex \in 0..MaxGI :
                    SlashPartial(s, v, amount, giIndex)
    BY <2>1, <2>5, ConstantsAssumption DEF Slash, SlashPartial
  <2> QED
    BY <1>3, <2>2, <2>3, <2>4, <2>5 DEF SlasherStep
<1> QED
  BY <1>1, <1>2, <1>3 DEF Next

\* Every variable keeps its type, whatever is called in whatever order.
THEOREM TypeCorrect == Spec => []TypeOK
<1>1. Init => PoolsTyped
  BY ConstantsAssumption DEF Init, PoolsTyped
<1>2. IInv /\ PoolsTyped /\ [Next]_vars => PoolsTyped'
  BY PoolsStep
<1>3. Spec => []PoolsTyped
  BY <1>1, <1>2, Invariance, PTL DEF Spec
<1>4. IInv /\ PoolsTyped => TypeOK
  BY IInvParts, TypeOKParts
<1> QED
  BY <1>3, <1>4, Invariance, PTL

\* An Active validator has stake and no withdrawal pending, None means that
\* nothing is held, Exiting that something still is.
THEOREM StatusAgreesWithStake == Spec => []StatusMatchesStake
<1>1. IInv => StatusMatchesStake
  BY DEF IInv, AccountsTyped, AccountsOK, AccountOK, StatusMatchesStake, SlashableStake, ValidatorInfo
<1> QED
  BY <1>1, Invariance, PTL

\* No withdrawal deadline outlives the withdrawal.
THEOREM DeadlineIsPending == Spec => []DeadlineNeedsPending
<1>1. IInv => DeadlineNeedsPending
  BY DEF IInv, AccountsOK, AccountOK, DeadlineNeedsPending
<1> QED
  BY <1>1, Invariance, PTL

\* A jail that still runs shows in the status, whatever happened since.
THEOREM JailCannotBeEscaped == Spec => []JailHolds
<1>1. IInv => JailHolds
  BY DEF IInv, AccountsOK, AccountOK, JailHolds
<1> QED
  BY <1>1, Invariance, PTL

\* What one write of an account means for the account of any validator.
LEMMA WriteEffect ==
    ASSUME IInv, NEW v \in Validators, Writes(v), NEW w \in Validators
    PROVE  /\ GoodWrite(validators[w], validators'[w])
           /\ wallet'[w] > wallet[w] => validators[w].withdrawAvailableAt <= now
           /\ AccountOK(validators'[w], now)
<1>1. PICK info \in ValidatorInfo :
         /\ validators' = [validators EXCEPT ![v] = info]
         /\ AccountOK(info, now)
         /\ GoodWrite(validators[v], info)
  BY DEF Writes
<1>2. validators \in [Validators -> ValidatorInfo]
  BY DEF IInv, AccountsTyped
<1>3. CASE w = v
  <2>1. validators'[w] = info
    BY <1>1, <1>2, <1>3
  <2> QED
    BY <1>1, <1>3, <2>1 DEF Writes
<1>4. CASE w # v
  <2>1. validators'[w] = validators[w] /\ wallet'[w] = wallet[w]
    BY <1>1, <1>2, <1>4 DEF Writes
  <2>2. validators[w] \in ValidatorInfo /\ AccountOK(validators[w], now) /\ wallet[w] \in Nat
    BY CurrentAccount
  <2>3. GoodWrite(validators[w], validators[w])
    BY <2>2 DEF GoodWrite, ValidatorInfo
  <2> QED
    BY <2>1, <2>2, <2>3
<1> QED
  BY <1>3, <1>4

\* The same for any step at all.
LEMMA StepEffect ==
    ASSUME IInv, [Next]_vars, NEW w \in Validators
    PROVE  /\ GoodWrite(validators[w], validators'[w])
           /\ wallet'[w] > wallet[w] => validators[w].withdrawAvailableAt <= now
           /\ AccountOK(validators'[w], now) \/ validators'[w] = validators[w]
<1>1. CASE \E v \in Validators : Writes(v)
  BY <1>1, WriteEffect
<1>2. CASE UNCHANGED <<validators, wallet>>
  <2>1. validators[w] \in ValidatorInfo /\ wallet[w] \in Nat
    BY CurrentAccount
  <2>2. GoodWrite(validators[w], validators[w])
    BY <2>1 DEF GoodWrite, ValidatorInfo
  <2> QED
    BY <1>2, <2>1, <2>2
<1> QED
  BY <1>1, <1>2, StepCases, TickStep

\* No step cuts a running jail term short.
THEOREM JailTermsOnlyGrow == Spec => JailNeverShortened
<1>1. IInv /\ [Next]_vars =>
        [\A v \in Validators : validators'[v].jailedUntil < validators[v].jailedUntil
                                  => validators[v].jailedUntil <= now]_vars
  BY StepEffect DEF GoodWrite
<1> QED
  BY <1>1, Invariance, PTL DEF Spec, JailNeverShortened

\* No step moves the deadline of a pending withdrawal, and none pays a
\* withdrawal out before it.
THEOREM DeadlinesAreKept == Spec => WithdrawalKeepsDeadline
<1>1. IInv /\ [Next]_vars =>
        [\A v \in Validators :
            /\ validators[v].pendingWithdrawals > 0 /\ validators'[v].pendingWithdrawals > 0
                  => validators'[v].withdrawAvailableAt = validators[v].withdrawAvailableAt
            /\ wallet'[v] > wallet[v] => validators[v].withdrawAvailableAt <= now]_vars
  BY StepEffect DEF GoodWrite
<1> QED
  BY <1>1, Invariance, PTL DEF Spec, WithdrawalKeepsDeadline

\* Whatever call makes a validator Active, it has the stake for it, nothing
\* on its way out and no jail running.
THEOREM EligibilityIsEarned == Spec => EligibleOnlyWithFloor
<1>1. IInv /\ [Next]_vars =>
        [\A v \in Validators :
            ~ IsActive(validators[v]) /\ IsActive(validators'[v])
               => /\ validators'[v].activeStake >= params.minStake
                  /\ validators'[v].pendingWithdrawals = 0
                  /\ validators'[v].jailedUntil <= now]_vars
  <2> SUFFICES ASSUME IInv, [Next]_vars, NEW v \in Validators,
                      ~ IsActive(validators[v]), IsActive(validators'[v])
               PROVE  /\ validators'[v].activeStake >= params.minStake
                      /\ validators'[v].pendingWithdrawals = 0
                      /\ validators'[v].jailedUntil <= now
    OBVIOUS
  <2>1. AccountOK(validators'[v], now) /\ GoodWrite(validators[v], validators'[v])
    BY StepEffect
  <2>2. validators'[v] \in ValidatorInfo /\ now \in Nat
    BY IInvStep, CurrentAccount DEF IInv, AccountsTyped
  <2> QED
    BY <2>1, <2>2 DEF AccountOK, GoodWrite, IsActive, ValidatorInfo
<1> QED
  BY <1>1, Invariance, PTL DEF Spec, EligibleOnlyWithFloor
-----------------------------------------------------------------------------
(* The recidivism rings. *)

\* Only the two partial slashes write the rings.
LEMMA RingsUntouched ==
    ASSUME IInv, [Next]_vars,
           ~ \E s \in Slashers, v \in Validators, amount \in SlashAmounts, giIndex \in 0..MaxGI :
                SlashPartial(s, v, amount, giIndex) \/ SlashPartialEscalated(s, v, amount, giIndex)
    PROVE  UNCHANGED rings
<1>1. CASE Tick
  BY <1>1 DEF Tick
<1>2. ASSUME NEW v \in Validators, ValidatorStep(v) PROVE UNCHANGED rings
  BY <1>2 DEF ValidatorStep, Stake, Unstake, ClaimUnstaked, Reactivate
<1>3. ASSUME NEW s \in Slashers, NEW v \in Validators, SlasherStep(s, v)
      PROVE  UNCHANGED rings
  BY <1>3 DEF SlasherStep, Slash, RecordNoParticipation, JailValidator
<1>4. CASE OwnerStep
  BY <1>4 DEF OwnerStep, BlacklistValidator, UnblacklistValidator, SetSlashTreasury,
     SetMinStake, SetUnbondingPeriod, SetS5RecidivismParams, SetS5GlobalParams,
     SetS6NoParticipationThreshold, SetParams
<1>5. CASE \E s \in Slashers : CoordinatorStep(s)
  BY <1>5 DEF CoordinatorStep, AddSlasherContract, RemoveSlasherContract
<1>6. CASE UNCHANGED vars
  BY <1>6 DEF vars
<1> QED
  BY <1>1, <1>2, <1>3, <1>4, <1>5, <1>6 DEF Next

\* Recording makes a ring at most one longer.
LEMMA RecordedLength ==
    ASSUME RestTyped, NEW s \in Slashers, NEW v \in Validators, NEW giIndex \in Nat
    PROVE  /\ Len(RecordedGIs(v, s, giIndex)) <= Len(VisibleRing(v, s)) + 1
           /\ Len(RecordedTimes(v)) <= Len(partialSlashTimes[v]) + 1
           /\ Len(VisibleRing(v, s)) \in Nat
           /\ Len(partialSlashTimes[v]) \in Nat
<1>1. PICK ring : ring = VisibleRing(v, s)
  OBVIOUS
<1>2. PICK times : times = partialSlashTimes[v]
  OBVIOUS
<1>3. ring \in Seq(Nat) /\ times \in Seq(Nat) /\ now \in Nat
  BY <1>1, <1>2 DEF RestTyped, VisibleRing
<1>4. PICK recorded : recorded = RecordInRing(ring, giIndex, params.s5Window)
  OBVIOUS
<1>5. Len(recorded) \in 1..(Len(ring) + 1)
  BY <1>3, <1>4, ParamsParts, RecordInRingOK
<1>6. PICK recordedTimes : recordedTimes = RecordInRing(times, now, params.s5GlobalWindow)
  OBVIOUS
<1>7. Len(recordedTimes) \in 1..(Len(times) + 1)
  BY <1>3, <1>6, ParamsParts, RecordInRingOK
<1>8. Len(ring) \in Nat /\ Len(times) \in Nat
  BY <1>3
<1> QED
  BY <1>1, <1>2, <1>4, <1>5, <1>6, <1>7, <1>8 DEF RecordedGIs, RecordedTimes

LEMMA SlashPartialCounts ==
    ASSUME IInv, RingsCountOnce, NEW s \in Slashers, NEW v \in Validators,
           NEW amount, NEW giIndex \in Nat, SlashPartial(s, v, amount, giIndex)
    PROVE  RingsCountOnce'
<1>1. /\ partialSlashGIs' = [partialSlashGIs EXCEPT ![v][s] = RecordedGIs(v, s, giIndex)]
      /\ partialSlashEpoch' = [partialSlashEpoch EXCEPT ![v][s] = s5EscalationEpoch[v]]
      /\ partialSlashTimes' = [partialSlashTimes EXCEPT ![v] = RecordedTimes(v)]
      /\ sinceEscalation' = [sinceEscalation EXCEPT ![v] = @ + 1]
      /\ sinceEscalationBy' = [sinceEscalationBy EXCEPT ![v][s] = @ + 1]
      /\ s5EscalationEpoch' = s5EscalationEpoch
  BY DEF SlashPartial
<1>2. /\ partialSlashGIs \in [Validators -> [Slashers -> Seq(Nat)]]
      /\ partialSlashEpoch \in [Validators -> [Slashers -> Nat]]
      /\ partialSlashTimes \in [Validators -> Seq(Nat)]
      /\ sinceEscalation \in [Validators -> Nat]
      /\ sinceEscalationBy \in [Validators -> [Slashers -> Nat]]
      /\ RestTyped
  BY IInvParts DEF RestTyped
<1>3. ASSUME NEW w \in Validators PROVE Len(partialSlashTimes'[w]) <= sinceEscalation'[w]
  <2>1. Len(partialSlashTimes[w]) <= sinceEscalation[w]
    BY DEF RingsCountOnce
  <2>2. Len(RecordedTimes(v)) <= Len(partialSlashTimes[v]) + 1 /\ Len(partialSlashTimes[v]) \in Nat
    BY <1>2, RecordedLength
  <2>3. Len(RecordedTimes(v)) \in Nat
    BY <1>2, RecordedTyped
  <2>4. CASE w = v
    BY <1>1, <1>2, <2>1, <2>2, <2>3, <2>4
  <2>5. CASE w # v
    BY <1>1, <1>2, <2>1, <2>5
  <2> QED
    BY <2>4, <2>5
<1>4. ASSUME NEW w \in Validators, NEW z \in Slashers
      PROVE  Len(VisibleRing(w, z)') <= sinceEscalationBy'[w][z]
  <2>1. Len(VisibleRing(w, z)) <= sinceEscalationBy[w][z]
    BY DEF RingsCountOnce
  <2>2. CASE w = v /\ z = s
    <3>1. VisibleRing(w, z)' = RecordedGIs(v, s, giIndex)
      BY <1>1, <1>2, <2>2 DEF VisibleRing
    <3>2. sinceEscalationBy'[w][z] = sinceEscalationBy[w][z] + 1
      BY <1>1, <1>2, <2>2
    <3>3. /\ Len(RecordedGIs(v, s, giIndex)) <= Len(VisibleRing(v, s)) + 1
          /\ Len(VisibleRing(v, s)) \in Nat
      BY <1>2, RecordedLength
    <3>4. Len(RecordedGIs(v, s, giIndex)) \in Nat /\ sinceEscalationBy[w][z] \in Nat
      BY <1>2, RecordedTyped
    <3> QED
      BY <2>1, <2>2, <3>1, <3>2, <3>3, <3>4
  <2>3. CASE ~ (w = v /\ z = s)
    <3>1. /\ partialSlashGIs'[w][z] = partialSlashGIs[w][z]
          /\ partialSlashEpoch'[w][z] = partialSlashEpoch[w][z]
          /\ sinceEscalationBy'[w][z] = sinceEscalationBy[w][z]
      BY <1>1, <1>2, <2>3
    <3>2. VisibleRing(w, z)' = VisibleRing(w, z)
      BY <1>1, <3>1 DEF VisibleRing
    <3> QED
      BY <2>1, <3>1, <3>2
  <2> QED
    BY <2>2, <2>3
<1> QED
  BY <1>3, <1>4 DEF RingsCountOnce

LEMMA EscalationCounts ==
    ASSUME IInv, RingsCountOnce, NEW s \in Slashers, NEW v \in Validators,
           NEW amount, NEW giIndex \in Nat, SlashPartialEscalated(s, v, amount, giIndex),
           \A z \in Slashers : partialSlashEpoch[v][z] <= s5EscalationEpoch[v]
    PROVE  RingsCountOnce'
<1>1. /\ partialSlashGIs' = [partialSlashGIs EXCEPT ![v][s] = <<>>]
      /\ partialSlashEpoch' = [partialSlashEpoch EXCEPT ![v][s] = s5EscalationEpoch[v]]
      /\ s5EscalationEpoch' = [s5EscalationEpoch EXCEPT ![v] = @ + 1]
      /\ partialSlashTimes' = [partialSlashTimes EXCEPT ![v] = <<>>]
      /\ sinceEscalation' = [sinceEscalation EXCEPT ![v] = 0]
      /\ sinceEscalationBy' = [sinceEscalationBy EXCEPT ![v] = [z \in Slashers |-> 0]]
  BY DEF SlashPartialEscalated
<1>2. /\ partialSlashGIs \in [Validators -> [Slashers -> Seq(Nat)]]
      /\ partialSlashEpoch \in [Validators -> [Slashers -> Nat]]
      /\ partialSlashTimes \in [Validators -> Seq(Nat)]
      /\ s5EscalationEpoch \in [Validators -> Nat]
      /\ sinceEscalation \in [Validators -> Nat]
      /\ sinceEscalationBy \in [Validators -> [Slashers -> Nat]]
  BY IInvParts DEF RestTyped
<1>3. ASSUME NEW w \in Validators PROVE Len(partialSlashTimes'[w]) <= sinceEscalation'[w]
  <2>1. Len(partialSlashTimes[w]) <= sinceEscalation[w]
    BY DEF RingsCountOnce
  <2>2. CASE w = v
    BY <1>1, <1>2, <2>2
  <2>3. CASE w # v
    BY <1>1, <1>2, <2>1, <2>3
  <2> QED
    BY <2>2, <2>3
<1>4. ASSUME NEW w \in Validators, NEW z \in Slashers
      PROVE  Len(VisibleRing(w, z)') <= sinceEscalationBy'[w][z]
  <2>1. Len(VisibleRing(w, z)) <= sinceEscalationBy[w][z]
    BY DEF RingsCountOnce
  <2>2. CASE w = v
    <3>1. s5EscalationEpoch'[w] = s5EscalationEpoch[v] + 1 /\ s5EscalationEpoch[v] \in Nat
      BY <1>1, <1>2, <2>2
    <3>2. partialSlashEpoch'[w][z] <= s5EscalationEpoch[v] /\ partialSlashEpoch'[w][z] \in Nat
      BY <1>1, <1>2, <2>2
    <3>3. VisibleRing(w, z)' = <<>>
      BY <3>1, <3>2 DEF VisibleRing
    <3>4. sinceEscalationBy'[w][z] = 0
      BY <1>1, <1>2, <2>2
    <3> QED
      BY <3>3, <3>4
  <2>3. CASE w # v
    <3>1. /\ partialSlashGIs'[w][z] = partialSlashGIs[w][z]
          /\ partialSlashEpoch'[w][z] = partialSlashEpoch[w][z]
          /\ s5EscalationEpoch'[w] = s5EscalationEpoch[w]
          /\ sinceEscalationBy'[w][z] = sinceEscalationBy[w][z]
      BY <1>1, <1>2, <2>3
    <3>2. VisibleRing(w, z)' = VisibleRing(w, z)
      BY <3>1 DEF VisibleRing
    <3> QED
      BY <2>1, <3>1, <3>2
  <2> QED
    BY <2>2, <2>3
<1> QED
  BY <1>3, <1>4 DEF RingsCountOnce

\* No ring was ever written in an epoch that is still to come.
EpochsOrdered ==
    \A v \in Validators, s \in Slashers : partialSlashEpoch[v][s] <= s5EscalationEpoch[v]

LEMMA EpochsOrderedStep ==
    ASSUME IInv, EpochsOrdered, [Next]_vars
    PROVE  EpochsOrdered'
<1>1. /\ partialSlashEpoch \in [Validators -> [Slashers -> Nat]]
      /\ s5EscalationEpoch \in [Validators -> Nat]
  BY IInvParts DEF RestTyped
<1>2. ASSUME NEW s \in Slashers, NEW v \in Validators, NEW amount \in SlashAmounts,
             NEW giIndex \in 0..MaxGI, SlashPartial(s, v, amount, giIndex)
      PROVE  EpochsOrdered'
  <2>1. /\ partialSlashEpoch' = [partialSlashEpoch EXCEPT ![v][s] = s5EscalationEpoch[v]]
        /\ s5EscalationEpoch' = s5EscalationEpoch
    BY <1>2 DEF SlashPartial
  <2> QED
    BY <1>1, <2>1 DEF EpochsOrdered
<1>3. ASSUME NEW s \in Slashers, NEW v \in Validators, NEW amount \in SlashAmounts,
             NEW giIndex \in 0..MaxGI, SlashPartialEscalated(s, v, amount, giIndex)
      PROVE  EpochsOrdered'
  <2>1. /\ partialSlashEpoch' = [partialSlashEpoch EXCEPT ![v][s] = s5EscalationEpoch[v]]
        /\ s5EscalationEpoch' = [s5EscalationEpoch EXCEPT ![v] = @ + 1]
    BY <1>3 DEF SlashPartialEscalated
  <2> QED
    BY <1>1, <2>1 DEF EpochsOrdered
<1>4. CASE UNCHANGED rings
  BY <1>4 DEF EpochsOrdered, rings
<1> QED
  BY <1>2, <1>3, <1>4, RingsUntouched

\* No partial slash is counted in two escalations, whatever the two levels'
\* windows and thresholds are and however they change.
THEOREM NoPartialSlashCountsTwice == Spec => []RingsCountOnce
<1>1. Init => EpochsOrdered /\ RingsCountOnce
  BY DEF Init, EpochsOrdered, RingsCountOnce, VisibleRing
<1>2. IInv /\ EpochsOrdered /\ RingsCountOnce /\ [Next]_vars => EpochsOrdered' /\ RingsCountOnce'
  <2> SUFFICES ASSUME IInv, EpochsOrdered, RingsCountOnce, [Next]_vars
               PROVE  EpochsOrdered' /\ RingsCountOnce'
    OBVIOUS
  <2>1. EpochsOrdered'
    BY EpochsOrderedStep
  <2>2. 0..MaxGI \subseteq Nat
    BY ConstantsAssumption
  <2>3. ASSUME NEW s \in Slashers, NEW v \in Validators, NEW amount \in SlashAmounts,
               NEW giIndex \in 0..MaxGI, SlashPartial(s, v, amount, giIndex)
        PROVE  RingsCountOnce'
    BY <2>2, <2>3, SlashPartialCounts
  <2>4. ASSUME NEW s \in Slashers, NEW v \in Validators, NEW amount \in SlashAmounts,
               NEW giIndex \in 0..MaxGI, SlashPartialEscalated(s, v, amount, giIndex)
        PROVE  RingsCountOnce'
    BY <2>2, <2>4, EscalationCounts DEF EpochsOrdered
  <2>5. ASSUME UNCHANGED rings PROVE RingsCountOnce'
    <3>1. /\ partialSlashGIs' = partialSlashGIs
          /\ partialSlashEpoch' = partialSlashEpoch
          /\ partialSlashTimes' = partialSlashTimes
          /\ s5EscalationEpoch' = s5EscalationEpoch
          /\ sinceEscalation' = sinceEscalation
          /\ sinceEscalationBy' = sinceEscalationBy
      BY <2>5 DEF rings
    <3>2. ASSUME NEW v, NEW s PROVE VisibleRing(v, s)' = VisibleRing(v, s)
      BY <3>1 DEF VisibleRing
    <3> QED
      BY <3>1, <3>2 DEF RingsCountOnce
  <2> QED
    BY <2>1, <2>3, <2>4, <2>5, RingsUntouched
<1> QED
  BY <1>1, <1>2, Invariance, PTL DEF Spec
-----------------------------------------------------------------------------
(* The accounts of DIN. *)

\* The stake held for each validator.
Stakes == [v \in Validators |-> SlashableStake(validators[v])]

Supply == InitialBalance * Cardinality(Validators)

LEMMA SolventParts ==
    Solvent <=> /\ held = SumFunctionOnSet(Stakes, Validators)
                /\ SumFunctionOnSet(wallet, Validators) + held + treasury + burned = Supply
  BY DEF Solvent, Stakes, Supply

LEMMA SolventParts2 ==
    Solvent' <=> /\ held' = SumFunctionOnSet(Stakes', Validators)
                 /\ SumFunctionOnSet(wallet', Validators) + held' + treasury' + burned' = Supply
  BY DEF Solvent, Stakes, Supply

LEMMA SumsTyped ==
    ASSUME IInv
    PROVE  /\ IsFiniteSet(Validators)
           /\ \A v \in Validators : Stakes[v] \in Int /\ Stakes[v] = SlashableStake(validators[v])
           /\ SumFunctionOnSet(Stakes, Validators) \in Int
           /\ SumFunctionOnSet(wallet, Validators) \in Int
<1>1. IsFiniteSet(Validators)
  BY ConstantsAssumption
<1>2. \A v \in Validators : Stakes[v] \in Int /\ Stakes[v] = SlashableStake(validators[v])
  BY CurrentAccount DEF Stakes, SlashableStake, ValidatorInfo
<1>3. \A v \in Validators : wallet[v] \in Int
  BY CurrentAccount
<1> QED
  BY <1>1, <1>2, <1>3, SumInt

\* The sum of the stakes when one account is written.
LEMMA StakesMove ==
    ASSUME IInv, NEW v \in Validators, NEW info \in ValidatorInfo,
           validators' = [validators EXCEPT ![v] = info]
    PROVE  SumFunctionOnSet(Stakes', Validators)
             = SumFunctionOnSet(Stakes, Validators)
                 - SlashableStake(validators[v]) + SlashableStake(info)
<1>1. PICK f : f = Stakes
  OBVIOUS
<1>2. PICK e : e = Stakes'
  OBVIOUS
<1>3. /\ IsFiniteSet(Validators)
      /\ \A w \in Validators : f[w] \in Int
      /\ f[v] = SlashableStake(validators[v])
  BY <1>1, SumsTyped
<1>4. e[v] = SlashableStake(info) /\ e[v] \in Int
  BY <1>2, IInvParts DEF Stakes, AccountsTyped, SlashableStake, ValidatorInfo
<1>5. \A w \in Validators \ {v} : e[w] = f[w]
  BY <1>1, <1>2, IInvParts DEF Stakes, AccountsTyped
<1>6. \A w \in Validators : f[w] \in Int /\ e[w] \in Int
  BY <1>3, <1>4, <1>5
<1>7. SumFunctionOnSet(e, Validators) = SumFunctionOnSet(f, Validators) - f[v] + e[v]
  BY <1>3, <1>5, <1>6, SumUpdate
<1> QED
  BY <1>1, <1>2, <1>3, <1>4, <1>7

\* The sum of the wallets when one is written.
LEMMA WalletsMove ==
    ASSUME IInv, NEW v \in Validators, NEW b \in Nat, wallet' = [wallet EXCEPT ![v] = b]
    PROVE  SumFunctionOnSet(wallet', Validators)
             = SumFunctionOnSet(wallet, Validators) - wallet[v] + b
<1>1. wallet \in [Validators -> Nat]
  BY IInvParts DEF RestTyped
<1>2. PICK f : f = wallet
  OBVIOUS
<1>3. PICK e : e = wallet'
  OBVIOUS
<1>4. e[v] = b /\ \A w \in Validators \ {v} : e[w] = f[w]
  BY <1>1, <1>2, <1>3
<1>5. IsFiniteSet(Validators) /\ \A w \in Validators : f[w] \in Int /\ e[w] \in Int
  BY <1>1, <1>2, <1>4, SumsTyped
<1>6. SumFunctionOnSet(e, Validators) = SumFunctionOnSet(f, Validators) - f[v] + e[v]
  BY <1>4, <1>5, SumUpdate
<1> QED
  BY <1>2, <1>3, <1>4, <1>6

\* A step that writes one account and one wallet keeps the books when what
\* leaves the contract is what the wallet, the treasury and the fire gain.
LEMMA BooksKept ==
    ASSUME IInv, PoolsTyped, Solvent, NEW v \in Validators, NEW info \in ValidatorInfo,
           NEW b \in Nat, NEW x \in Int, NEW y \in Int,
           validators' = [validators EXCEPT ![v] = info],
           wallet' = [wallet EXCEPT ![v] = b],
           held' = held - SlashableStake(validators[v]) + SlashableStake(info),
           treasury' = treasury + x,
           burned' = burned + y,
           SlashableStake(validators[v]) - SlashableStake(info) = b - wallet[v] + x + y
    PROVE  Solvent'
<1>1. PICK p \in Int : p = SumFunctionOnSet(Stakes, Validators)
  BY SumsTyped
<1>2. PICK q \in Int : q = SumFunctionOnSet(wallet, Validators)
  BY SumsTyped
<1>3. PICK k \in Int, n \in Int, m \in Int :
         k = SlashableStake(validators[v]) /\ n = SlashableStake(info) /\ m = wallet[v]
  BY CurrentAccount DEF SlashableStake, ValidatorInfo
<1>4. /\ SumFunctionOnSet(Stakes', Validators) = p - k + n
      /\ SumFunctionOnSet(wallet', Validators) = q - m + b
  BY <1>1, <1>2, <1>3, StakesMove, WalletsMove
<1>5. held = p /\ q + held + treasury + burned = Supply
  BY <1>1, <1>2, SolventParts
<1>6. treasury \in Int /\ burned \in Int
  BY DEF PoolsTyped
<1>7. held' = p - k + n
  BY <1>3, <1>5
<1>8. (q - m + b) + (p - k + n) + (treasury + x) + (burned + y) = Supply
  BY <1>3, <1>5, <1>6
<1> QED
  BY <1>4, <1>7, <1>8, SolventParts2

\* An account written without touching its stake or any pool.
LEMMA BooksUntouched ==
    ASSUME IInv, PoolsTyped, Solvent, NEW v \in Validators, NEW info \in ValidatorInfo,
           validators' = [validators EXCEPT ![v] = info],
           UNCHANGED tokens,
           SlashableStake(info) = SlashableStake(validators[v])
    PROVE  Solvent'
<1> PICK b : b = wallet[v]
  OBVIOUS
<1> PICK zero \in Int : zero = 0
  OBVIOUS
<1>1. b \in Nat /\ wallet' = [wallet EXCEPT ![v] = b]
  BY IInvParts DEF RestTyped, tokens
<1>2. SlashableStake(info) \in Int
  BY DEF SlashableStake, ValidatorInfo
<1>3. /\ held' = held - SlashableStake(validators[v]) + SlashableStake(info)
      /\ treasury' = treasury + zero
      /\ burned' = burned + zero
  BY <1>2 DEF tokens, PoolsTyped
<1>4. SlashableStake(validators[v]) - SlashableStake(info) = b - wallet[v] + zero + zero
  BY <1>1, <1>2
<1> QED
  BY <1>1, <1>3, <1>4, BooksKept

\* The slash: what the account loses is paid out of held, in two halves or
\* burned whole while no treasury is set.
LEMMA SlashKeepsBooks ==
    ASSUME IInv, PoolsTyped, Solvent, NEW v \in Validators, NEW amount \in Nat,
           PaySlash(v, amount), NEW info \in ValidatorInfo,
           validators' = [validators EXCEPT ![v] = info],
           SlashableStake(info)
              = SlashableStake(validators[v]) - ActualSlash(validators[v], amount)
    PROVE  Solvent'
<1>1. PICK actual : actual = ActualSlash(validators[v], amount)
  OBVIOUS
<1>2. actual \in Nat
  BY <1>1, CurrentAccount, ActualSlashBounds
<1>3. PICK k \in Int : k = SlashableStake(validators[v])
  BY CurrentAccount DEF SlashableStake, ValidatorInfo
<1>4. PICK x, y : /\ x = IF treasurySet THEN TreasuryShare(actual) ELSE 0
                  /\ y = IF treasurySet THEN BurnShare(actual) ELSE actual
  OBVIOUS
<1>5. x \in Int /\ y \in Int /\ x + y = actual
  <2>1. PICK half : half = actual \div 2
    OBVIOUS
  <2>2. half \in Int
    BY <1>2, <2>1
  <2>3. TreasuryShare(actual) = actual - half /\ BurnShare(actual) = half
    BY <2>1 DEF TreasuryShare, BurnShare
  <2> QED
    BY <1>2, <1>4, <2>2, <2>3
<1>6. /\ held' = held - actual
      /\ treasury' = treasury + x
      /\ burned' = burned + y
      /\ wallet' = wallet
  BY <1>1, <1>4 DEF PaySlash
<1>7. wallet[v] \in Nat /\ wallet' = [wallet EXCEPT ![v] = wallet[v]]
  BY <1>6, IInvParts DEF RestTyped
<1>8. SlashableStake(info) = k - actual
  BY <1>1, <1>3
<1>9. held' = held - SlashableStake(validators[v]) + SlashableStake(info)
  BY <1>2, <1>3, <1>6, <1>8 DEF PoolsTyped
<1>10. SlashableStake(validators[v]) - SlashableStake(info) = wallet[v] - wallet[v] + x + y
  BY <1>2, <1>3, <1>5, <1>7, <1>8
<1> QED
  BY <1>5, <1>6, <1>7, <1>9, <1>10, BooksKept

LEMMA StakeBooks ==
    ASSUME IInv, PoolsTyped, Solvent, NEW v \in Validators, NEW amount \in Nat,
           Stake(v, amount)
    PROVE  Solvent'
<1>1. PICK a : a = validators[v]
  OBVIOUS
<1>2. PICK draft : draft = AddStake(a, amount)
  OBVIOUS
<1>3. PICK info : info = SyncNow(draft)
  OBVIOUS
<1>4. a \in ValidatorInfo /\ AccountOK(a, now) /\ now \in Nat /\ wallet[v] \in Nat
  BY <1>1, CurrentAccount
<1>5. /\ draft \in ValidatorInfo
      /\ draft.pendingWithdrawals = a.pendingWithdrawals
      /\ draft.withdrawAvailableAt = a.withdrawAvailableAt
      /\ draft.jailedUntil = a.jailedUntil
      /\ draft.status = a.status
  BY <1>2, <1>4, AddStakeOK
<1>6. draft.activeStake = a.activeStake + amount
  BY <1>2, <1>4 DEF AddStake, ValidatorInfo
<1>7. info \in ValidatorInfo /\ SameBut(info, draft)
  BY <1>3, <1>4, <1>5, SyncAccount, IInvParts DEF AccountOK
<1>8. PICK k \in Nat : k = SlashableStake(a)
  BY <1>4 DEF SlashableStake, ValidatorInfo
<1>9. SlashableStake(info) = k + amount
  BY <1>4, <1>5, <1>6, <1>7, <1>8 DEF SlashableStake, SameBut, ValidatorInfo
<1>10. PICK b : b = wallet[v] - amount
  OBVIOUS
<1>11. PICK zero \in Int : zero = 0
  OBVIOUS
<1>12. /\ wallet[v] >= amount
       /\ wallet' = [wallet EXCEPT ![v] = b]
       /\ held' = held + amount
       /\ treasury' = treasury /\ burned' = burned
  BY <1>10 DEF Stake
<1>13. b \in Nat
  BY <1>4, <1>10, <1>12
<1>14. /\ held' = held - SlashableStake(a) + SlashableStake(info)
       /\ treasury' = treasury + zero
       /\ burned' = burned + zero
       /\ SlashableStake(a) - SlashableStake(info) = b - wallet[v] + zero + zero
  BY <1>4, <1>8, <1>9, <1>10, <1>11, <1>12 DEF PoolsTyped
<1>15. validators' = [validators EXCEPT ![v] = info]
  BY <1>1, <1>2, <1>3 DEF Stake
<1> QED
  BY <1>1, <1>7, <1>12, <1>13, <1>14, <1>15, BooksKept

LEMMA UnstakeBooks ==
    ASSUME IInv, PoolsTyped, Solvent, NEW v \in Validators, NEW amount \in Nat,
           Unstake(v, amount)
    PROVE  Solvent'
<1>1. PICK a : a = validators[v]
  OBVIOUS
<1>2. PICK deadline : deadline = Uint64(now + params.unbonding)
  OBVIOUS
<1>3. PICK draft : draft = RequestWithdrawal(a, amount, deadline)
  OBVIOUS
<1>4. PICK info : info = SyncNow(draft)
  OBVIOUS
<1>5. a \in ValidatorInfo /\ AccountOK(a, now) /\ now \in Nat
  BY <1>1, CurrentAccount
<1>6. deadline \in Nat
  <2>1. now + params.unbonding \in Nat
    BY <1>5, ParamsParts, IInvParts
  <2> QED
    BY <1>2, <2>1, Uint64Type
<1>7. amount <= a.activeStake /\ amount > 0 /\ a.pendingWithdrawals = 0
  BY <1>1, <1>5 DEF Unstake, ValidatorInfo
<1>8. /\ draft \in ValidatorInfo
      /\ draft.pendingWithdrawals = amount
      /\ draft.jailedUntil = a.jailedUntil
      /\ draft.status = a.status
  BY <1>3, <1>5, <1>6, <1>7, RequestWithdrawalOK
<1>9. draft.activeStake = a.activeStake - amount
  BY <1>3, <1>5 DEF RequestWithdrawal, ValidatorInfo
<1>10. info \in ValidatorInfo /\ SameBut(info, draft)
  BY <1>4, <1>5, <1>7, <1>8, SyncAccount, IInvParts DEF AccountOK
<1>11. SlashableStake(info) = SlashableStake(a)
  BY <1>5, <1>7, <1>8, <1>9, <1>10 DEF SlashableStake, SameBut, ValidatorInfo
<1>12. validators' = [validators EXCEPT ![v] = info] /\ UNCHANGED tokens
  BY <1>1, <1>2, <1>3, <1>4 DEF Unstake
<1> QED
  BY <1>1, <1>10, <1>11, <1>12, BooksUntouched

LEMMA ClaimUnstakedBooks ==
    ASSUME IInv, PoolsTyped, Solvent, NEW v \in Validators, ClaimUnstaked(v)
    PROVE  Solvent'
<1>1. PICK a : a = validators[v]
  OBVIOUS
<1>2. PICK draft : draft = EndWithdrawal(a)
  OBVIOUS
<1>3. PICK info : info = SyncNow(draft)
  OBVIOUS
<1>4. a \in ValidatorInfo /\ AccountOK(a, now) /\ now \in Nat /\ wallet[v] \in Nat
  BY <1>1, CurrentAccount
<1>5. /\ draft \in ValidatorInfo
      /\ draft.pendingWithdrawals = 0
      /\ draft.withdrawAvailableAt = 0
      /\ draft.jailedUntil = a.jailedUntil
      /\ draft.status = a.status
  BY <1>2, <1>4, EndWithdrawalOK
<1>6. draft.activeStake = a.activeStake
  BY <1>2, <1>4 DEF EndWithdrawal, ValidatorInfo
<1>7. info \in ValidatorInfo /\ SameBut(info, draft)
  BY <1>3, <1>4, <1>5, SyncAccount, IInvParts DEF AccountOK
<1>8. PICK n \in Nat, k \in Nat : n = a.pendingWithdrawals /\ k = a.activeStake
  BY <1>4 DEF ValidatorInfo
<1>9. SlashableStake(info) = k /\ SlashableStake(a) = k + n
  BY <1>4, <1>5, <1>6, <1>7, <1>8 DEF SlashableStake, SameBut, ValidatorInfo
<1>10. PICK b : b = wallet[v] + n
  OBVIOUS
<1>11. PICK zero \in Int : zero = 0
  OBVIOUS
<1>12. /\ wallet' = [wallet EXCEPT ![v] = b]
       /\ held' = held - n
       /\ treasury' = treasury /\ burned' = burned
  BY <1>1, <1>8, <1>10 DEF ClaimUnstaked
<1>13. b \in Nat
  BY <1>4, <1>10
<1>14. /\ held' = held - SlashableStake(a) + SlashableStake(info)
       /\ treasury' = treasury + zero
       /\ burned' = burned + zero
       /\ SlashableStake(a) - SlashableStake(info) = b - wallet[v] + zero + zero
  BY <1>4, <1>9, <1>10, <1>11, <1>12 DEF PoolsTyped
<1>15. validators' = [validators EXCEPT ![v] = info]
  BY <1>1, <1>2, <1>3 DEF ClaimUnstaked
<1> QED
  BY <1>1, <1>7, <1>12, <1>13, <1>14, <1>15, BooksKept

LEMMA ReactivateBooks ==
    ASSUME IInv, PoolsTyped, Solvent, NEW v \in Validators, Reactivate(v)
    PROVE  Solvent'
<1>1. PICK a : a = validators[v]
  OBVIOUS
<1>2. PICK draft : draft = EndJail(a)
  OBVIOUS
<1>3. PICK info : info = SyncNow(draft)
  OBVIOUS
<1>4. a \in ValidatorInfo /\ AccountOK(a, now) /\ now \in Nat
  BY <1>1, CurrentAccount
<1>5. /\ draft \in ValidatorInfo
      /\ draft.pendingWithdrawals = a.pendingWithdrawals
      /\ draft.withdrawAvailableAt = a.withdrawAvailableAt
      /\ draft.jailedUntil = 0
  BY <1>2, <1>4, EndJailOK
<1>6. draft.activeStake = a.activeStake
  BY <1>2, <1>4 DEF EndJail, ValidatorInfo
<1>7. info \in ValidatorInfo /\ SameBut(info, draft)
  BY <1>3, <1>4, <1>5, SyncAccount, IInvParts DEF AccountOK
<1>8. SlashableStake(info) = SlashableStake(a)
  BY <1>4, <1>5, <1>6, <1>7 DEF SlashableStake, SameBut, ValidatorInfo
<1>9. validators' = [validators EXCEPT ![v] = info] /\ UNCHANGED tokens
  BY <1>1, <1>2, <1>3 DEF Reactivate
<1> QED
  BY <1>1, <1>7, <1>8, <1>9, BooksUntouched

\* What a slash takes from an account, its status recomputed or not.
LEMMA SlashTakes ==
    ASSUME IInv, NEW v \in Validators, NEW amount \in Nat,
           NEW info, info = SlashNow(validators[v], amount)
    PROVE  /\ info \in ValidatorInfo /\ AccountOK(info, now)
           /\ SlashableStake(info)
                = SlashableStake(validators[v]) - ActualSlash(validators[v], amount)
<1>1. PICK a : a = validators[v]
  OBVIOUS
<1>2. PICK min : min = params.minStake
  OBVIOUS
<1>3. a \in ValidatorInfo /\ AccountOK(a, now) /\ now \in Nat /\ min \in Nat \ {0}
  BY <1>1, <1>2, CurrentAccount, ParamsParts, IInvParts
<1>4. info = ApplySlash(a, amount, min, now)
  BY <1>1, <1>2 DEF SlashNow
<1> QED
  BY <1>1, <1>3, <1>4, ApplySlashOK

LEMMA SlashNowBooks ==
    ASSUME IInv, PoolsTyped, Solvent, NEW v \in Validators, NEW amount \in Nat,
           validators' = [validators EXCEPT ![v] = SlashNow(@, amount)],
           PaySlash(v, amount)
    PROVE  Solvent'
<1>1. PICK info : info = SlashNow(validators[v], amount)
  OBVIOUS
<1>2. validators' = [validators EXCEPT ![v] = info]
  BY <1>1
<1> QED
  BY <1>1, <1>2, SlashTakes, SlashKeepsBooks

LEMMA EscalationBooks ==
    ASSUME IInv, PoolsTyped, Solvent, NEW s \in Slashers, NEW v \in Validators,
           NEW amount \in Nat, NEW giIndex \in Nat,
           SlashPartialEscalated(s, v, amount, giIndex)
    PROVE  Solvent'
<1>1. PICK min : min = params.minStake
  OBVIOUS
<1>2. PICK slashed : slashed = SlashNow(validators[v], min)
  OBVIOUS
<1>3. PICK duration : duration = EscalationJail
  OBVIOUS
<1>4. PICK info : info = Jail(slashed, duration, now)
  OBVIOUS
<1>5. min \in Nat /\ duration \in Nat /\ now \in Nat
  BY <1>1, <1>3, ParamsParts, IInvParts DEF RestTyped
<1>6. /\ slashed \in ValidatorInfo /\ AccountOK(slashed, now)
      /\ SlashableStake(slashed)
           = SlashableStake(validators[v]) - ActualSlash(validators[v], min)
  BY <1>2, <1>5, SlashTakes
<1>7. info \in ValidatorInfo /\ JailWritten(slashed, info, now, duration)
  BY <1>4, <1>5, <1>6, JailOK
<1>8. SlashableStake(info) = SlashableStake(slashed)
  BY <1>7 DEF JailWritten, SlashableStake
<1>9. validators' = [validators EXCEPT ![v] = info] /\ PaySlash(v, min)
  BY <1>1, <1>2, <1>3, <1>4 DEF SlashPartialEscalated
<1> QED
  BY <1>5, <1>6, <1>7, <1>8, <1>9, SlashKeepsBooks

LEMMA NoShowBooks ==
    ASSUME IInv, PoolsTyped, Solvent, NEW s \in Slashers, NEW v \in Validators,
           RecordNoParticipation(s, v)
    PROVE  Solvent'
<1>1. PICK count : count = noParticipationCount[v] + 1
  OBVIOUS
<1>2. count \in Nat
  BY <1>1, IInvParts DEF RestTyped
<1>3. PICK amount : amount = NoShowSlash(count)
  OBVIOUS
<1>4. amount \in Nat
  BY <1>2, <1>3, NoShowSlashTyped, IInvParts
<1>5. /\ validators' = [validators EXCEPT ![v] = SlashNow(@, amount)]
      /\ PaySlash(v, amount)
  BY <1>1, <1>3 DEF RecordNoParticipation
<1> QED
  BY <1>4, <1>5, SlashNowBooks

LEMMA JailBooks ==
    ASSUME IInv, PoolsTyped, Solvent, NEW s \in Slashers, NEW v \in Validators,
           NEW duration \in Nat, JailValidator(s, v, duration)
    PROVE  Solvent'
<1>1. PICK a : a = validators[v]
  OBVIOUS
<1>2. PICK info : info = Jail(a, duration, now)
  OBVIOUS
<1>3. a \in ValidatorInfo /\ AccountOK(a, now) /\ now \in Nat
  BY <1>1, CurrentAccount
<1>4. info \in ValidatorInfo /\ JailWritten(a, info, now, duration)
  BY <1>2, <1>3, JailOK
<1>5. SlashableStake(info) = SlashableStake(a)
  BY <1>4 DEF JailWritten, SlashableStake
<1>6. validators' = [validators EXCEPT ![v] = info] /\ UNCHANGED tokens
  BY <1>1, <1>2 DEF JailValidator
<1> QED
  BY <1>1, <1>4, <1>5, <1>6, BooksUntouched

LEMMA BlacklistBooks ==
    ASSUME IInv, PoolsTyped, Solvent, NEW v \in Validators,
           BlacklistValidator(v) \/ UnblacklistValidator(v)
    PROVE  Solvent'
<1>1. PICK a : a = validators[v]
  OBVIOUS
<1>2. a \in ValidatorInfo /\ AccountOK(a, now) /\ now \in Nat
  BY <1>1, CurrentAccount
<1>3. CASE BlacklistValidator(v)
  <2>1. PICK info : info = WithStatus(a, "Blacklisted")
    OBVIOUS
  <2>2. info \in ValidatorInfo /\ SameBut(info, a)
    BY <1>2, <2>1, WithStatusOK DEF ValidatorStatus
  <2>3. SlashableStake(info) = SlashableStake(a)
    BY <2>2 DEF SameBut, SlashableStake
  <2>4. validators' = [validators EXCEPT ![v] = info] /\ UNCHANGED tokens
    BY <1>1, <1>3, <2>1 DEF BlacklistValidator
  <2> QED
    BY <1>1, <2>2, <2>3, <2>4, BooksUntouched
<1>4. CASE UnblacklistValidator(v)
  <2>1. PICK status : status = IF a.jailedUntil > now THEN "Jailed" ELSE "None"
    OBVIOUS
  <2>2. PICK draft : draft = WithStatus(a, status)
    OBVIOUS
  <2>3. PICK info : info = SyncNow(draft)
    OBVIOUS
  <2>4. draft \in ValidatorInfo /\ SameBut(draft, a) /\ draft.status = status
    BY <1>2, <2>1, <2>2, WithStatusOK DEF ValidatorStatus
  <2>5. info \in ValidatorInfo /\ SameBut(info, draft)
    <3>1. /\ draft.pendingWithdrawals = 0 => draft.withdrawAvailableAt = 0
          /\ draft.jailedUntil > now => draft.status \in {"Jailed", "Blacklisted"}
      BY <1>2, <2>1, <2>4 DEF SameBut, AccountOK
    <3> QED
      BY <2>3, <2>4, <3>1, SyncAccount, IInvParts
  <2>6. SlashableStake(info) = SlashableStake(a)
    BY <2>4, <2>5 DEF SameBut, SlashableStake
  <2>7. validators' = [validators EXCEPT ![v] = info] /\ UNCHANGED tokens
    BY <1>1, <1>4, <2>1, <2>2, <2>3 DEF UnblacklistValidator
  <2> QED
    BY <1>1, <2>5, <2>6, <2>7, BooksUntouched
<1> QED
  BY <1>3, <1>4

LEMMA QuietBooks ==
    ASSUME Solvent, UNCHANGED <<validators, tokens>> PROVE Solvent'
<1>1. Stakes' = Stakes
  BY DEF Stakes
<1> QED
  BY <1>1, SolventParts, SolventParts2 DEF tokens

LEMMA BooksStep ==
    ASSUME IInv, PoolsTyped, Solvent, [Next]_vars PROVE Solvent'
<1>1. CASE UNCHANGED <<validators, tokens>>
  BY <1>1, QuietBooks
<1>2. ASSUME NEW v \in Validators, ValidatorStep(v) PROVE Solvent'
  BY <1>2, StakeBooks, UnstakeBooks, ClaimUnstakedBooks, ReactivateBooks, ConstantsAssumption
     DEF ValidatorStep
<1>3. ASSUME NEW s \in Slashers, NEW v \in Validators, SlasherStep(s, v) PROVE Solvent'
  <2>1. 0..MaxGI \subseteq Nat /\ SlashAmounts \subseteq Nat /\ JailDurations \subseteq Nat
    BY ConstantsAssumption
  <2>2. CASE \/ \E amount \in SlashAmounts : Slash(s, v, amount)
             \/ \E amount \in SlashAmounts, giIndex \in 0..MaxGI :
                    SlashPartial(s, v, amount, giIndex)
    BY <2>1, <2>2, SlashNowBooks DEF Slash, SlashPartial
  <2>3. CASE \E amount \in SlashAmounts, giIndex \in 0..MaxGI :
                 SlashPartialEscalated(s, v, amount, giIndex)
    BY <2>1, <2>3, EscalationBooks
  <2>4. CASE RecordNoParticipation(s, v)
    BY <2>4, NoShowBooks
  <2>5. CASE \E duration \in JailDurations : JailValidator(s, v, duration)
    BY <2>1, <2>5, JailBooks
  <2> QED
    BY <1>3, <2>2, <2>3, <2>4, <2>5 DEF SlasherStep
<1>4. CASE Tick \/ (\E s \in Slashers : CoordinatorStep(s)) \/ UNCHANGED vars
  BY <1>1, <1>4 DEF Tick, CoordinatorStep, AddSlasherContract, RemoveSlasherContract, vars
<1>5. CASE OwnerStep
  <2>1. CASE \E v \in Validators : BlacklistValidator(v) \/ UnblacklistValidator(v)
    BY <2>1, BlacklistBooks
  <2>2. CASE ~ \E v \in Validators : BlacklistValidator(v) \/ UnblacklistValidator(v)
    <3>1. UNCHANGED <<validators, tokens>>
      BY <1>5, <2>2 DEF OwnerStep, SetSlashTreasury, SetMinStake, SetUnbondingPeriod,
         SetS5RecidivismParams, SetS5GlobalParams, SetS6NoParticipationThreshold, SetParams
    <3> QED
      BY <1>1, <3>1
  <2> QED
    BY <2>1, <2>2
<1> QED
  BY <1>2, <1>3, <1>4, <1>5 DEF Next

\* At the start the contract holds nothing and every wallet is full.
LEMMA BooksInit ==
    ASSUME Init PROVE Solvent
<1>1. PICK f : f = Stakes
  OBVIOUS
<1>2. IsFiniteSet(Validators) /\ InitialBalance \in Nat
  BY ConstantsAssumption
<1>3. \A v \in Validators : f[v] = 0
  BY <1>1 DEF Init, Stakes, NoValidator, SlashableStake
<1>4. SumFunctionOnSet(f, Validators) = 0
  <2>1. PICK zero \in Nat : zero = 0
    OBVIOUS
  <2>2. SumFunctionOnSet(f, Validators) = zero * Cardinality(Validators)
    BY <1>2, <1>3, <2>1, SumConstant
  <2>3. Cardinality(Validators) \in Nat
    BY <1>2, FS_CardinalityType
  <2> QED
    BY <2>1, <2>2, <2>3
<1>5. \A v \in Validators : wallet[v] = InitialBalance
  BY DEF Init
<1>6. SumFunctionOnSet(wallet, Validators) = InitialBalance * Cardinality(Validators)
  BY <1>2, <1>5, SumConstant
<1>7. InitialBalance * Cardinality(Validators) \in Nat
  BY <1>2, FS_CardinalityType
<1>8. held = 0 /\ treasury = 0 /\ burned = 0
  BY DEF Init
<1>9. SumFunctionOnSet(wallet, Validators) + held + treasury + burned = Supply
  BY <1>6, <1>7, <1>8 DEF Supply
<1> QED
  BY <1>1, <1>4, <1>8, <1>9, SolventParts

\* The DIN the stake contract holds is exactly the stake of its validators,
\* active and withdrawing, and no DIN is made or lost by any sequence of
\* stakes, withdrawals, slashes and escalations.
THEOREM BooksBalance == Spec => []Solvent
<1>1. Init => PoolsTyped /\ Solvent
  <2>1. Init => PoolsTyped
    BY DEF Init, PoolsTyped
  <2> QED
    BY <2>1, BooksInit
<1>2. IInv /\ PoolsTyped /\ Solvent /\ [Next]_vars => PoolsTyped' /\ Solvent'
  BY PoolsStep, BooksStep
<1> QED
  BY <1>1, <1>2, Invariance, PTL DEF Spec
-----------------------------------------------------------------------------
(* The windows of the recidivism rings. *)

\* Oldest first, and nothing later than top.
InOrder(ring, top) ==
    \A i, j \in 1..Len(ring) : /\ ring[j] <= top
                               /\ i <= j => ring[i] <= ring[j]

\* Recording an entry no earlier than the others keeps the order, and what the
\* trim leaves is within the window.
LEMMA RecordKeepsWindow ==
    ASSUME NEW ring \in Seq(Nat), NEW entry \in Nat, NEW window \in Nat \ {0},
           InOrder(ring, entry),
           NEW recorded, recorded = RecordInRing(ring, entry, window)
    PROVE  InOrder(recorded, entry) /\ WithinWindow(recorded, window)
<1>1. PICK pushed : pushed = Append(ring, entry)
  OBVIOUS
<1>2. /\ pushed \in Seq(Nat) /\ Len(pushed) = Len(ring) + 1 /\ Len(ring) \in Nat
      /\ pushed[Len(pushed)] = entry
      /\ \A i \in 1..Len(ring) : pushed[i] = ring[i]
  BY <1>1, AppendProperties, LenProperties
<1>3. PICK first : first = FirstKept(pushed, entry, window)
  OBVIOUS
<1>4. /\ first \in 1..Len(pushed)
      /\ first = Len(pushed) \/ ~ Expired(pushed[first], entry, window)
  <2>1. window \in Nat /\ Len(pushed) > 0
    BY <1>2
  <2> QED
    BY <1>2, <1>3, <2>1, FirstKeptOK
<1>5. recorded = SubSeq(pushed, first, Len(pushed))
  BY <1>1, <1>3 DEF RecordInRing
<1>6. PICK n \in Nat : n = Len(pushed)
  BY <1>2
<1>7. \A i \in 1..n : pushed[i] \in Nat
  BY <1>2, <1>6, LenProperties
<1>8. /\ Len(recorded) = n - first + 1
      /\ \A i \in 1..(n - first + 1) : recorded[i] = pushed[first + i - 1]
  <2>1. first \in Int /\ n \in Int /\ first <= n
    BY <1>4, <1>6
  <2>2. \A i \in first..n : pushed[i] \in Nat
    BY <1>4, <1>7
  <2> QED
    BY <1>5, <1>6, <2>1, <2>2, SubSeqProperties
<1>9. InOrder(pushed, entry)
  <2>1. ASSUME NEW i \in 1..n, NEW j \in 1..n
        PROVE  pushed[j] <= entry /\ (i <= j => pushed[i] <= pushed[j])
    <3> PICK m \in Nat : m = Len(ring) /\ n = m + 1
      BY <1>2, <1>6
    <3>0. \A k \in 1..m : ring[k] <= entry /\ pushed[k] = ring[k]
      BY <1>2 DEF InOrder
    <3>1. CASE i \in 1..m /\ j \in 1..m
      BY <1>2, <3>0, <3>1 DEF InOrder
    <3>2. CASE i \in 1..m /\ j = n
      BY <1>2, <1>6, <3>0, <3>2
    <3>3. CASE i = n /\ j \in 1..m
      <4>1. ~ (i <= j)
        BY <3>3
      <4> QED
        BY <3>0, <3>3, <4>1
    <3>4. CASE i = n /\ j = n
      BY <1>2, <1>6, <3>4
    <3> QED
      BY <1>2, <1>6, <3>1, <3>2, <3>3, <3>4
  <2> QED
    BY <1>6, <2>1 DEF InOrder
<1>10. ASSUME NEW i \in first..n, NEW j \in first..n
       PROVE  /\ pushed[j] <= entry
              /\ i <= j => pushed[i] <= pushed[j]
              /\ pushed[j] - pushed[i] < window
  <2>1. i \in 1..n /\ j \in 1..n /\ first \in 1..n
    BY <1>4, <1>6
  <2>2. pushed[j] <= entry /\ pushed[first] <= pushed[i] /\ (i <= j => pushed[i] <= pushed[j])
    BY <1>6, <1>9, <2>1 DEF InOrder
  <2>3. pushed[first] \in Nat /\ pushed[i] \in Nat /\ pushed[j] \in Nat
    BY <1>7, <2>1
  <2>4. entry - pushed[first] < window
    BY <1>2, <1>4, <2>3 DEF Expired
  <2> QED
    BY <2>2, <2>3, <2>4
<1>11. ASSUME NEW i \in 1..Len(recorded), NEW j \in 1..Len(recorded)
       PROVE  /\ recorded[j] <= entry
              /\ i <= j => recorded[i] <= recorded[j]
              /\ recorded[j] - recorded[i] < window
  <2>1. PICK p, q : p = first + i - 1 /\ q = first + j - 1
    OBVIOUS
  <2>2. p \in first..n /\ q \in first..n /\ (i <= j => p <= q)
    BY <1>4, <1>6, <1>8, <2>1
  <2>3. recorded[i] = pushed[p] /\ recorded[j] = pushed[q]
    BY <1>8, <2>1
  <2> QED
    BY <1>10, <2>2, <2>3
<1> QED
  BY <1>11 DEF InOrder, WithinWindow

\* The parameters the windows depend on.
S5Steady ==
    /\ params'.s5Window = params.s5Window
    /\ params'.s5Threshold = params.s5Threshold
    /\ params'.s5GlobalWindow = params.s5GlobalWindow
    /\ params'.s5GlobalThreshold = params.s5GlobalThreshold

\* What RingsWithinWindow needs beside itself: the rings are in order, and the
\* global level is either off or has both a window and a threshold.
RingsInOrder ==
    /\ \A v \in Validators, s \in Slashers : InOrder(partialSlashGIs[v][s], reportedGI[s])
    /\ \A v \in Validators : InOrder(partialSlashTimes[v], now)

GlobalParamsPaired == (params.s5GlobalWindow = 0) <=> (params.s5GlobalThreshold = 0)

RingInv == RingsInOrder /\ GlobalParamsPaired /\ RingsWithinWindow

LEMMA LaterInOrder ==
    ASSUME NEW ring \in Seq(Nat), NEW t \in Nat, NEW u \in Nat, t <= u, InOrder(ring, t)
    PROVE  InOrder(ring, u)
<1>1. \A i \in 1..Len(ring) : ring[i] \in Nat
  BY LenProperties
<1> QED
  BY <1>1 DEF InOrder

LEMMA EmptyRing ==
    ASSUME NEW t, NEW window
    PROVE  InOrder(<<>>, t) /\ WithinWindow(<<>>, window)
  BY DEF InOrder, WithinWindow

\* What one partial slash leaves in the two rings it writes.
LEMMA RecordedWindows ==
    ASSUME RestTyped, RingInv, NEW s \in Slashers, NEW v \in Validators,
           NEW giIndex \in Nat, giIndex >= reportedGI[s], ~ Escalates(v, s, giIndex)
    PROVE  /\ InOrder(RecordedGIs(v, s, giIndex), giIndex)
           /\ WithinWindow(RecordedGIs(v, s, giIndex), params.s5Window)
           /\ Len(RecordedGIs(v, s, giIndex)) < params.s5Threshold
           /\ InOrder(RecordedTimes(v), now)
           /\ WithinWindow(RecordedTimes(v), params.s5GlobalWindow)
           /\ RecordedTimes(v) = <<>> \/ Len(RecordedTimes(v)) < params.s5GlobalThreshold
<1>1. PICK window : window = params.s5Window
  OBVIOUS
<1>2. PICK globalWindow : globalWindow = params.s5GlobalWindow
  OBVIOUS
<1>3. PICK threshold : threshold = params.s5GlobalThreshold
  OBVIOUS
<1>4. window \in Nat \ {0} /\ globalWindow \in Nat /\ threshold \in Nat /\ now \in Nat
  BY <1>1, <1>2, <1>3 DEF RestTyped, Params
<1>5. PICK ring : ring = VisibleRing(v, s)
  OBVIOUS
<1>6. ring \in Seq(Nat) /\ InOrder(ring, giIndex)
  <2>1. partialSlashGIs[v][s] \in Seq(Nat) /\ reportedGI[s] \in Nat
    BY DEF RestTyped
  <2>2. InOrder(partialSlashGIs[v][s], giIndex)
    <3>1. PICK old : old = partialSlashGIs[v][s]
      OBVIOUS
    <3>2. PICK t \in Nat : t = reportedGI[s]
      BY <2>1
    <3>3. old \in Seq(Nat) /\ InOrder(old, t) /\ t <= giIndex
      BY <2>1, <3>1, <3>2 DEF RingInv, RingsInOrder
    <3> QED
      BY <3>1, <3>3, LaterInOrder
  <2>3. <<>> \in Seq(Nat) /\ InOrder(<<>>, giIndex)
    BY EmptyRing
  <2> QED
    BY <1>5, <2>1, <2>2, <2>3 DEF VisibleRing
<1>7. PICK recorded : recorded = RecordInRing(ring, giIndex, window)
  OBVIOUS
<1>8. InOrder(recorded, giIndex) /\ WithinWindow(recorded, window)
  BY <1>4, <1>6, <1>7, RecordKeepsWindow
<1>9. RecordedGIs(v, s, giIndex) = recorded
  BY <1>1, <1>5, <1>7 DEF RecordedGIs
<1>10. Len(recorded) < params.s5Threshold
  <2>1. ~ (Len(recorded) >= params.s5Threshold)
    BY <1>9 DEF Escalates, PerSlasherHit
  <2>2. Len(recorded) \in Nat /\ params.s5Threshold \in Nat
    BY <1>9, RecordedTyped DEF RestTyped, Params
  <2> QED
    BY <2>1, <2>2
<1>11. PICK times : times = partialSlashTimes[v]
  OBVIOUS
<1>12. /\ times \in Seq(Nat) /\ InOrder(times, now)
       /\ WithinWindow(times, globalWindow)
       /\ times = <<>> \/ Len(times) < threshold
  BY <1>2, <1>3, <1>11 DEF RestTyped, RingInv, RingsInOrder, RingsWithinWindow
<1>13. CASE threshold = 0
  <2>1. RecordedTimes(v) = times
    BY <1>3, <1>11, <1>13 DEF RecordedTimes
  <2> QED
    BY <1>1, <1>2, <1>3, <1>8, <1>9, <1>10, <1>12, <2>1
<1>14. CASE threshold # 0
  <2>1. globalWindow # 0
    BY <1>2, <1>3, <1>14 DEF RingInv, GlobalParamsPaired
  <2>2. PICK rt : rt = RecordInRing(times, now, globalWindow)
    OBVIOUS
  <2>3. InOrder(rt, now) /\ WithinWindow(rt, globalWindow)
    <3>1. globalWindow \in Nat \ {0}
      BY <1>4, <2>1
    <3> QED
      BY <1>4, <1>12, <2>2, <3>1, RecordKeepsWindow
  <2>4. RecordedTimes(v) = rt
    BY <1>2, <1>3, <1>11, <1>14, <2>2 DEF RecordedTimes
  <2>5. Len(rt) < threshold
    <3>1. ~ (Len(rt) >= threshold)
      BY <1>3, <1>14, <2>4 DEF Escalates, GlobalHit
    <3>2. Len(rt) \in Nat
      BY <2>4, RecordedTyped
    <3> QED
      BY <1>4, <3>1, <3>2
  <2> QED
    BY <1>1, <1>2, <1>3, <1>8, <1>9, <1>10, <2>3, <2>4, <2>5
<1> QED
  BY <1>13, <1>14

LEMMA RingInvSlashPartial ==
    ASSUME IInv, RingInv, S5Steady, NEW s \in Slashers, NEW v \in Validators,
           NEW amount, NEW giIndex \in Nat, SlashPartial(s, v, amount, giIndex)
    PROVE  RingInv'
<1> USE DEF RingInv, RingsInOrder, RingsWithinWindow, GlobalParamsPaired
<1>1. /\ partialSlashGIs' = [partialSlashGIs EXCEPT ![v][s] = RecordedGIs(v, s, giIndex)]
      /\ partialSlashTimes' = [partialSlashTimes EXCEPT ![v] = RecordedTimes(v)]
      /\ reportedGI' = [reportedGI EXCEPT ![s] = giIndex]
      /\ now' = now /\ params' = params
      /\ giIndex >= reportedGI[s] /\ ~ Escalates(v, s, giIndex)
  BY DEF SlashPartial, PartialSlashCall, config
<1>2. /\ RestTyped
      /\ partialSlashGIs \in [Validators -> [Slashers -> Seq(Nat)]]
      /\ partialSlashTimes \in [Validators -> Seq(Nat)]
      /\ reportedGI \in [Slashers -> Nat]
  BY IInvParts DEF RestTyped
<1>3. PICK gis : gis = RecordedGIs(v, s, giIndex)
  OBVIOUS
<1>4. PICK times : times = RecordedTimes(v)
  OBVIOUS
<1>5. /\ InOrder(gis, giIndex) /\ WithinWindow(gis, params.s5Window)
      /\ Len(gis) < params.s5Threshold
      /\ InOrder(times, now) /\ WithinWindow(times, params.s5GlobalWindow)
      /\ times = <<>> \/ Len(times) < params.s5GlobalThreshold
  BY <1>1, <1>2, <1>3, <1>4, RecordedWindows
<1>6. ASSUME NEW w \in Validators, NEW z \in Slashers
      PROVE  /\ InOrder(partialSlashGIs'[w][z], reportedGI'[z])
             /\ WithinWindow(partialSlashGIs'[w][z], params.s5Window)
             /\ Len(partialSlashGIs'[w][z]) < params.s5Threshold
  <2>1. CASE w = v /\ z = s
    <3>1. partialSlashGIs'[w][z] = gis /\ reportedGI'[z] = giIndex
      BY <1>1, <1>2, <1>3, <2>1
    <3> QED
      BY <1>5, <3>1
  <2>2. CASE ~ (w = v /\ z = s)
    <3>1. PICK ring : ring = partialSlashGIs[w][z]
      OBVIOUS
    <3>2. partialSlashGIs'[w][z] = ring
      BY <1>1, <1>2, <2>2, <3>1
    <3>3. PICK t \in Nat, u \in Nat : t = reportedGI[z] /\ u = reportedGI'[z] /\ t <= u
      BY <1>1, <1>2
    <3>4. ring \in Seq(Nat) /\ InOrder(ring, t)
      BY <1>2, <3>1, <3>3
    <3>5. InOrder(ring, u)
      BY <3>3, <3>4, LaterInOrder
    <3> QED
      BY <3>1, <3>2, <3>3, <3>5
  <2> QED
    BY <2>1, <2>2
<1>7. ASSUME NEW w \in Validators
      PROVE  /\ InOrder(partialSlashTimes'[w], now)
             /\ WithinWindow(partialSlashTimes'[w], params.s5GlobalWindow)
             /\ \/ partialSlashTimes'[w] = <<>>
                \/ Len(partialSlashTimes'[w]) < params.s5GlobalThreshold
  <2>1. CASE w = v
    BY <1>1, <1>2, <1>4, <1>5, <2>1
  <2>2. CASE w # v
    BY <1>1, <1>2, <2>2
  <2> QED
    BY <2>1, <2>2
<1> QED
  BY <1>1, <1>6, <1>7

LEMMA RingInvEscalation ==
    ASSUME IInv, RingInv, S5Steady, NEW s \in Slashers, NEW v \in Validators,
           NEW amount, NEW giIndex \in Nat, SlashPartialEscalated(s, v, amount, giIndex)
    PROVE  RingInv'
<1> USE DEF RingInv, RingsInOrder, RingsWithinWindow, GlobalParamsPaired
<1>1. /\ partialSlashGIs' = [partialSlashGIs EXCEPT ![v][s] = <<>>]
      /\ partialSlashTimes' = [partialSlashTimes EXCEPT ![v] = <<>>]
      /\ reportedGI' = [reportedGI EXCEPT ![s] = giIndex]
      /\ now' = now /\ params' = params
      /\ giIndex >= reportedGI[s]
  BY DEF SlashPartialEscalated, PartialSlashCall, config
<1>2. /\ partialSlashGIs \in [Validators -> [Slashers -> Seq(Nat)]]
      /\ partialSlashTimes \in [Validators -> Seq(Nat)]
      /\ reportedGI \in [Slashers -> Nat]
      /\ params.s5Threshold \in Nat \ {0}
  BY IInvParts DEF RestTyped, Params
<1>3. \A t, window : InOrder(<<>>, t) /\ WithinWindow(<<>>, window)
  BY EmptyRing
<1>4. Len(<<>>) < params.s5Threshold
  BY <1>2
<1>5. ASSUME NEW w \in Validators, NEW z \in Slashers
      PROVE  /\ InOrder(partialSlashGIs'[w][z], reportedGI'[z])
             /\ WithinWindow(partialSlashGIs'[w][z], params.s5Window)
             /\ Len(partialSlashGIs'[w][z]) < params.s5Threshold
  <2>1. CASE w = v /\ z = s
    <3>1. partialSlashGIs'[w][z] = <<>>
      BY <1>1, <1>2, <2>1
    <3> QED
      BY <1>3, <1>4, <3>1
  <2>2. CASE ~ (w = v /\ z = s)
    <3>1. PICK ring : ring = partialSlashGIs[w][z]
      OBVIOUS
    <3>2. partialSlashGIs'[w][z] = ring
      BY <1>1, <1>2, <2>2, <3>1
    <3>3. PICK t \in Nat, u \in Nat : t = reportedGI[z] /\ u = reportedGI'[z] /\ t <= u
      BY <1>1, <1>2
    <3>4. ring \in Seq(Nat) /\ InOrder(ring, t)
      BY <1>2, <3>1, <3>3
    <3>5. InOrder(ring, u)
      BY <3>3, <3>4, LaterInOrder
    <3> QED
      BY <3>1, <3>2, <3>3, <3>5
  <2> QED
    BY <2>1, <2>2
<1>6. ASSUME NEW w \in Validators
      PROVE  /\ InOrder(partialSlashTimes'[w], now)
             /\ WithinWindow(partialSlashTimes'[w], params.s5GlobalWindow)
             /\ \/ partialSlashTimes'[w] = <<>>
                \/ Len(partialSlashTimes'[w]) < params.s5GlobalThreshold
  <2>1. CASE w = v
    BY <1>1, <1>2, <1>3, <2>1
  <2>2. CASE w # v
    BY <1>1, <1>2, <2>2
  <2> QED
    BY <2>1, <2>2
<1> QED
  BY <1>1, <1>5, <1>6

\* Time passes, and nothing else the rings depend on changes.
LEMMA RingInvQuiet ==
    ASSUME IInv, IInv', RingInv, S5Steady, UNCHANGED rings, now' >= now
    PROVE  RingInv'
<1>1. /\ partialSlashGIs' = partialSlashGIs
      /\ partialSlashTimes' = partialSlashTimes
      /\ reportedGI' = reportedGI
  BY DEF rings
<1>2. ASSUME NEW w \in Validators PROVE InOrder(partialSlashTimes[w], now')
  <2>1. PICK ring : ring = partialSlashTimes[w]
    OBVIOUS
  <2>2. ring \in Seq(Nat) /\ now \in Nat /\ now' \in Nat /\ InOrder(ring, now)
    BY <2>1, IInvParts, IInvParts2 DEF RestTyped, RingInv, RingsInOrder
  <2> QED
    BY <2>1, <2>2, LaterInOrder
<1> QED
  BY <1>1, <1>2 DEF RingInv, RingsInOrder, RingsWithinWindow, GlobalParamsPaired, S5Steady

LEMMA TimePasses ==
    ASSUME IInv, [Next]_vars PROVE now' >= now
<1>1. now \in Nat
  BY IInvParts DEF RestTyped
<1>2. now' = now \/ now' = now + 1
  BY StepCases DEF Writes, Tick
<1> QED
  BY <1>1, <1>2

\* While the S5 parameters keep their values, no ring holds two entries a
\* window apart or as many as its threshold: an offence that has aged out is
\* not the one that escalates.
THEOREM OnlyRecentOffencesCount ==
    Spec /\ [][S5Steady]_vars => []RingsWithinWindow
<1>1. Init => RingInv
  <2> SUFFICES ASSUME Init PROVE RingInv
    OBVIOUS
  <2>1. \A t, window : InOrder(<<>>, t) /\ WithinWindow(<<>>, window)
    BY EmptyRing
  <2>2. \A v \in Validators :
           /\ partialSlashTimes[v] = <<>>
           /\ \A s \in Slashers : partialSlashGIs[v][s] = <<>>
    BY DEF Init
  <2>3. Len(<<>>) < params.s5Threshold /\ GlobalParamsPaired
    BY ConstantsAssumption DEF Init, GlobalParamsPaired, Params
  <2> QED
    BY <2>1, <2>2, <2>3 DEF RingInv, RingsInOrder, RingsWithinWindow
<1>2. IInv /\ RingInv /\ [Next]_vars /\ [S5Steady]_vars => RingInv'
  <2> SUFFICES ASSUME IInv, RingInv, [Next]_vars, [S5Steady]_vars PROVE RingInv'
    OBVIOUS
  <2>1. S5Steady
    BY DEF S5Steady, vars, config
  <2>2. 0..MaxGI \subseteq Nat
    BY ConstantsAssumption
  <2>3. CASE \E s \in Slashers, v \in Validators, amount \in SlashAmounts, giIndex \in 0..MaxGI :
                SlashPartial(s, v, amount, giIndex) \/ SlashPartialEscalated(s, v, amount, giIndex)
    BY <2>1, <2>2, <2>3, RingInvSlashPartial, RingInvEscalation
  <2>4. CASE UNCHANGED rings
    BY <2>1, <2>4, RingInvQuiet, IInvStep, TimePasses
  <2> QED
    BY <2>3, <2>4, RingsUntouched
<1>3. RingInv => RingsWithinWindow
  BY DEF RingInv
<1> QED
  BY <1>1, <1>2, <1>3, Invariance, PTL DEF Spec
=============================================================================
