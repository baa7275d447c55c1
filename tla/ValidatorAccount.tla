-------------------------- MODULE ValidatorAccount --------------------------
(***************************************************************************)
(* One validator's account in DinValidatorStake.sol and the internal       *)
(* helpers every entry point of that contract is built from: the status    *)
(* recomputation, the slash, the jail and the two recidivism rings.  The   *)
(* operators are pure; ValidatorStake.tla and the modules of the task      *)
(* contracts that slash apply them to their state.                         *)
(*                                                                         *)
(* Word stands for 2^64, the width of the two deadlines of ValidatorInfo.  *)
(***************************************************************************)
EXTENDS Integers, Sequences

CONSTANT Word

ASSUME WordAssumption == Word \in Nat \ {0}

ValidatorStatus == {"None", "Active", "Exiting", "Jailed", "Blacklisted"}

ValidatorInfo ==
    [activeStake         : Nat,
     pendingWithdrawals  : Nat,
     withdrawAvailableAt : Nat,
     jailedUntil         : Nat,
     status              : ValidatorStatus]

\* A mapping entry nobody has written yet.
NoValidator ==
    [activeStake         |-> 0,
     pendingWithdrawals  |-> 0,
     withdrawAvailableAt |-> 0,
     jailedUntil         |-> 0,
     status              |-> "None"]

\* Conversion to uint64: the high bits are dropped.
Uint64(n) == n % Word

SlashableStake(v) == v.activeStake + v.pendingWithdrawals

IsActive(v) == v.status = "Active"

-----------------------------------------------------------------------------
(* Status recomputation. *)

\* A blacklist, and a jail that still runs, are not recomputed.
StatusIsSticky(v, now) ==
    \/ v.status = "Blacklisted"
    \/ v.status = "Jailed" /\ v.jailedUntil > now

StatusFromStake(v, minStake) ==
    CASE v.pendingWithdrawals > 0     -> "Exiting"
      [] /\ v.pendingWithdrawals = 0
         /\ v.activeStake >= minStake -> "Active"
      [] /\ v.pendingWithdrawals = 0
         /\ v.activeStake < minStake
         /\ v.activeStake > 0         -> "Exiting"
      [] OTHER                        -> "None"

\* A sync that forgets the running jail.
SyncForgetsJail(v, minStake, now) ==
    IF v.status = "Blacklisted" THEN v
    ELSE [v EXCEPT !.status = StatusFromStake(v, minStake)]

\* A sync that recomputes the status from the active stake alone.
SyncIgnoresPending(v, minStake, now) ==
    IF StatusIsSticky(v, now) THEN v
    ELSE [v EXCEPT !.status =
             StatusFromStake([v EXCEPT !.pendingWithdrawals = 0], minStake)]

SyncStatus(v, minStake, now) ==
    IF StatusIsSticky(v, now) THEN v
    ELSE [v EXCEPT !.status = StatusFromStake(v, minStake)]

-----------------------------------------------------------------------------
(* Slash and jail. *)

\* What a request for `amount' really takes.
ActualSlash(v, amount) ==
    IF SlashableStake(v) < amount THEN SlashableStake(v) ELSE amount

\* A slash that never reaches the pending withdrawal.
TakeStakeSparesPending(v, actual) ==
    IF v.activeStake >= actual
    THEN [v EXCEPT !.activeStake = @ - actual]
    ELSE [v EXCEPT !.activeStake = 0]

\* The account after `actual' has left it, active stake first.
TakeStake(v, actual) ==
    IF v.activeStake >= actual
    THEN [v EXCEPT !.activeStake = @ - actual]
    ELSE LET pending == v.pendingWithdrawals - (actual - v.activeStake)
         IN  [v EXCEPT !.activeStake = 0,
                       !.pendingWithdrawals = pending,
                       !.withdrawAvailableAt = IF pending = 0 THEN 0 ELSE @]

ApplySlash(v, amount, minStake, now) ==
    IF ActualSlash(v, amount) = 0
    THEN v
    ELSE SyncStatus(TakeStake(v, ActualSlash(v, amount)), minStake, now)

\* Half of a slash is burned, rounded down; the rest is for the treasury.
BurnShare(actual) == actual \div 2

TreasuryShare(actual) == actual - actual \div 2

\* _jailInternal reverts for a blacklisted validator.
CanJail(v) == v.status # "Blacklisted"

\* A jail whose deadline always replaces the previous one.
JailReplacesDeadline(v, duration, now) ==
    [v EXCEPT !.jailedUntil = now + duration, !.status = "Jailed"]

Jail(v, duration, now) ==
    [v EXCEPT !.jailedUntil = IF now + duration > @ THEN now + duration ELSE @,
              !.status = "Jailed"]

-----------------------------------------------------------------------------
(* The fields a validator's own call or the owner writes before the status *)
(* is recomputed.                                                          *)

AddStake(v, amount) == [v EXCEPT !.activeStake = @ + amount]

RequestWithdrawal(v, amount, deadline) ==
    [v EXCEPT !.activeStake = @ - amount,
              !.pendingWithdrawals = amount,
              !.withdrawAvailableAt = deadline]

EndWithdrawal(v) == [v EXCEPT !.pendingWithdrawals = 0, !.withdrawAvailableAt = 0]

EndJail(v) == [v EXCEPT !.jailedUntil = 0]

WithStatus(v, status) == [v EXCEPT !.status = status]

-----------------------------------------------------------------------------
(* Recidivism rings. *)

Expired(old, entry, window) == entry - old >= window

\* Index of the first entry the trim keeps: it stops at the first one that is
\* still in the window and never drops the one just pushed.
FirstKept(pushed, entry, window) ==
    CHOOSE i \in 1..Len(pushed) :
        /\ i = Len(pushed) \/ ~ Expired(pushed[i], entry, window)
        /\ \A j \in 1..(i - 1) : Expired(pushed[j], entry, window)

\* A ring that is never trimmed.
RecordWithoutTrim(ring, entry, window) == Append(ring, entry)

\* Push the entry, then trim the expired ones from the front.
RecordInRing(ring, entry, window) ==
    LET pushed == Append(ring, entry)
    IN  SubSeq(pushed, FirstKept(pushed, entry, window), Len(pushed))
=============================================================================
