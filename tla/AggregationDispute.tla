------------------------- MODULE AggregationDispute -------------------------
(***************************************************************************)
(* Disputes about the CID of a finalized Tier-1 or Tier-2 batch, with the  *)
(* commands that open, resolve, settle and expire them and collect bonds.  *)
(*                                                                         *)
(* The challenger's bond stays in DINTaskCoordinator until the dispute is  *)
(* over, and then goes one of two ways: back to the challenger, who claims *)
(* it, or away, burnt and to the treasury.  Each command reads the dispute *)
(* before it sends; the owner, the challengers and anyone who expires a    *)
(* dispute run theirs at the same time.                                    *)
(***************************************************************************)
EXTENDS Integers, FiniteSets, Functions

CONSTANTS
    Batches,       \* the finalized batches, of either tier
    Challengers,   \* active validators
    Owner,         \* the model owner
    Bonds,         \* the values disputeBond takes
    MaxMoves   \* bound: how often the seed of a dispute moves

Users == Challengers \cup {Owner}
Nobody == "nobody"
Verdicts == {"upheld", "rejected"}
Recomputed == {"confirmed", "dismissed"}

ASSUME DisputeAssumption ==
    /\ IsFiniteSet(Batches) /\ IsFiniteSet(Challengers)
    /\ Bonds \subseteq Nat \ {0} /\ MaxMoves \in Nat
    /\ Owner \notin Challengers /\ Nobody \notin Users

VARIABLES
    dispute,        \* per batch, as in the contract, without the unused fields
    window,         \* per batch: is its dispute window still open
    disputeBond,
    allowance,      \* per challenger: what it approved
    bondClaimable,  \* disputeBondClaimable
    bank,           \* the bonds the contract holds
    disputeCommand  \* per user: the command it runs

disputeChain == <<dispute, window, disputeBond, allowance, bondClaimable, bank>>
disputeVars == <<disputeChain, disputeCommand>>

NoDispute == [challenger |-> Nobody, bond |-> 0, seed |-> "none", anchors |-> 0,
              resolved |-> FALSE, upheld |-> FALSE, finalized |-> FALSE, late |-> FALSE]
Resting == [name |-> "none", step |-> "idle", of |-> Nobody, amount |-> 0]

DisputeInit ==
    /\ dispute = [b \in Batches |-> NoDispute]
    /\ window = [b \in Batches |-> TRUE]
    /\ disputeBond \in Bonds
    /\ allowance = [c \in Challengers |-> 0]
    /\ bondClaimable = [c \in Challengers |-> 0]
    /\ bank = 0
    /\ disputeCommand = [u \in Users |-> Resting]

\* A command that has checked what it needs.
RunsCommand(u, name, step, of, amount) ==
    /\ disputeCommand[u] = Resting
    /\ disputeCommand' = [disputeCommand EXCEPT ![u] = [name |-> name, step |-> step, of |-> of,
                                          amount |-> amount]]
    /\ UNCHANGED disputeChain

AtStep(u, name, step) == disputeCommand[u].name = name /\ disputeCommand[u].step = step
Finished(u) == disputeCommand' = [disputeCommand EXCEPT ![u] = Resting]

\* Any command may be killed, and any send may fail.
CommandStops(u) == disputeCommand[u] # Resting /\ Finished(u) /\ UNCHANGED disputeChain

(***************************************************************************)
(* aggregator dispute: the bond in force is approved, then taken.          *)
(***************************************************************************)
Dispute(c, b) ==
    /\ dispute[b].challenger = Nobody
    /\ RunsCommand(c, "dispute", "approve", b, disputeBond)

\* approve_din: the allowance is set, not added to.
ApproveDin(c) ==
    /\ AtStep(c, "dispute", "approve")
    /\ allowance' = [allowance EXCEPT ![c] = disputeCommand[c].amount]
    /\ disputeCommand' = [disputeCommand EXCEPT ![c].step = "open"]
    /\ UNCHANGED <<dispute, window, disputeBond, bondClaimable, bank>>

\* One dispute per batch ever; disputeBond may have changed since the approval.
OpenDispute(c) ==
    /\ AtStep(c, "dispute", "open")
    /\ LET b == disputeCommand[c].of
       IN  /\ window[b] /\ dispute[b].challenger = Nobody
           /\ allowance[c] >= disputeBond
           /\ dispute' = [dispute EXCEPT ![b] =
                [NoDispute EXCEPT !.challenger = c, !.bond = disputeBond, !.seed = "ahead"]]
    /\ allowance' = [allowance EXCEPT ![c] = @ - disputeBond]
    /\ bank' = bank + disputeBond
    /\ Finished(c)
    /\ UNCHANGED <<window, disputeBond, bondClaimable>>

(***************************************************************************)
(* model-owner disputes resolve-aggregation.                               *)
(***************************************************************************)
Awaiting(d) == d.challenger # Nobody /\ ~d.resolved

ResolveAggregation(b, verdict) ==
    /\ Awaiting(dispute[b])
    /\ RunsCommand(Owner, verdict, IF verdict = "upheld" THEN "lock" ELSE "send", b, 0)

\* Mutant: the loop only goes by its own transactions.
LockedOwnTxOnly(b) ==
    /\ dispute[b].seed = "ready"
    /\ dispute' = [dispute EXCEPT ![b].seed = "locked"]
    /\ disputeCommand' = [disputeCommand EXCEPT ![Owner].step = "send"]

\* One turn of _lock_dispute_seed: done when the seed is locked, by whomever;
\* else its transaction locks a seed whose block was mined, or anchors it anew
\* when that was too long ago, and the loop looks again.
LockTurn(b) ==
    \/ /\ dispute[b].seed = "locked"
       /\ disputeCommand' = [disputeCommand EXCEPT ![Owner].step = "send"]
       /\ UNCHANGED dispute
    \/ /\ dispute[b].seed = "ready"
       /\ dispute' = [dispute EXCEPT ![b].seed = "locked"]
       /\ UNCHANGED disputeCommand
    \/ /\ dispute[b].seed = "old"
       /\ dispute' = [dispute EXCEPT ![b].seed = "ahead", ![b].anchors = @ + 1]
       /\ UNCHANGED disputeCommand

LockDisputeSeed ==
    /\ AtStep(Owner, "upheld", "lock")
    /\ LockTurn(disputeCommand[Owner].of)
    /\ UNCHANGED <<window, disputeBond, allowance, bondClaimable, bank>>

\* lockDisputeSeed is for anyone.
AnyoneLocksSeed(b) ==
    /\ Awaiting(dispute[b]) /\ dispute[b].seed = "ready"
    /\ dispute' = [dispute EXCEPT ![b].seed = "locked"]
    /\ UNCHANGED <<window, disputeBond, allowance, bondClaimable, bank, disputeCommand>>

\* resolveDispute: upholding draws a fresh subgroup, which may find too few
\* active aggregators and revert; rejecting takes the bond at once.
ResolveDispute ==
    \E verdict \in Verdicts :
      /\ AtStep(Owner, verdict, "send")
      /\ LET b == disputeCommand[Owner].of
         IN  /\ Awaiting(dispute[b])
             /\ verdict = "upheld" => dispute[b].seed = "locked"
             /\ dispute' = [dispute EXCEPT
                  ![b].resolved = TRUE, ![b].upheld = verdict = "upheld",
                  ![b].finalized = verdict = "rejected"]
             /\ bank' = IF verdict = "rejected" THEN bank - dispute[b].bond ELSE bank
      /\ Finished(Owner)
      /\ UNCHANGED <<window, disputeBond, allowance, bondClaimable>>

(***************************************************************************)
(* settle-recomputation by the owner, expire by anyone.                    *)
(***************************************************************************)
AwaitingRecomputation(d) == d.resolved /\ d.upheld /\ ~d.finalized

SettleRecomputation(b, outcome) ==
    /\ AwaitingRecomputation(dispute[b])
    /\ RunsCommand(Owner, outcome, "send", b, 0)

\* Mutant: the two flags of the verdict are mixed up.
ExpirableUpheldOnly(d) == d.upheld /\ ~d.resolved /\ ~d.finalized /\ d.late

\* The checks of expire, and of the contract.
Expirable(d) == AwaitingRecomputation(d) /\ d.late

Expire(c, b) ==
    /\ Expirable(dispute[b])
    /\ RunsCommand(c, "expire", "send", b, 0)

\* Mutant: the contract does not look whether the other one came first.
MayFinalizeTwice(d) == d.resolved /\ d.upheld

\* The contract's own check, at execution.
MayFinalize(d) == AwaitingRecomputation(d)

ReturnsBond(b) ==
    /\ bondClaimable' = [bondClaimable EXCEPT ![dispute[b].challenger] = @ + dispute[b].bond]
    /\ UNCHANGED bank

\* settleRecomputation; the slashing of the original aggregators is in
\* ValidatorStake.tla.
SettleDispute ==
    \E outcome \in Recomputed :
      /\ AtStep(Owner, outcome, "send")
      /\ LET b == disputeCommand[Owner].of
         IN  /\ MayFinalize(dispute[b])
             /\ dispute' = [dispute EXCEPT ![b].finalized = TRUE]
             /\ IF outcome = "confirmed" THEN ReturnsBond(b)
                ELSE bank' = bank - dispute[b].bond /\ UNCHANGED bondClaimable
      /\ Finished(Owner)
      /\ UNCHANGED <<window, disputeBond, allowance>>

\* expireDispute: the bond goes back, the fresh subgroup is slashed.
ExpireDispute(c) ==
    /\ AtStep(c, "expire", "send")
    /\ LET b == disputeCommand[c].of
       IN  /\ MayFinalize(dispute[b]) /\ dispute[b].late
           /\ dispute' = [dispute EXCEPT ![b].finalized = TRUE]
           /\ ReturnsBond(b)
    /\ Finished(c)
    /\ UNCHANGED <<window, disputeBond, allowance>>

(***************************************************************************)
(* aggregator claim-dispute-bond.                                          *)
(***************************************************************************)
ClaimDisputeBond(c) ==
    bondClaimable[c] > 0 /\ RunsCommand(c, "claim", "send", Nobody, bondClaimable[c])

\* The contract pays what is claimable by then.
PayBond(c) ==
    /\ AtStep(c, "claim", "send") /\ bondClaimable[c] > 0
    /\ bank' = bank - bondClaimable[c]
    /\ bondClaimable' = [bondClaimable EXCEPT ![c] = 0]
    /\ Finished(c)
    /\ UNCHANGED <<dispute, window, disputeBond, allowance>>

(***************************************************************************)
(* Time, and the owner's parameters.                                       *)
(***************************************************************************)
WindowCloses(b) ==
    /\ window[b]
    /\ window' = [window EXCEPT ![b] = FALSE]
    /\ UNCHANGED <<dispute, disputeBond, allowance, bondClaimable, bank, disputeCommand>>

TimePasses(b) ==
    /\ \/ /\ dispute[b].seed = "ahead"
          /\ dispute' = [dispute EXCEPT ![b].seed = "ready"]
       \/ /\ dispute[b].seed = "ready" /\ dispute[b].anchors < MaxMoves
          /\ dispute' = [dispute EXCEPT ![b].seed = "old"]
       \/ /\ AwaitingRecomputation(dispute[b]) /\ ~dispute[b].late
          /\ dispute' = [dispute EXCEPT ![b].late = TRUE]
    /\ UNCHANGED <<window, disputeBond, allowance, bondClaimable, bank, disputeCommand>>

\* setDisputeParams.
SetDisputeParams(bond) ==
    /\ disputeBond # bond
    /\ disputeBond' = bond
    /\ UNCHANGED <<dispute, window, allowance, bondClaimable, bank, disputeCommand>>

DisputeNext ==
    \/ LockDisputeSeed \/ ResolveDispute \/ SettleDispute
    \/ \E bond \in Bonds : SetDisputeParams(bond)
    \/ \E u \in Users : CommandStops(u)
    \/ \E b \in Batches :
         \/ AnyoneLocksSeed(b) \/ WindowCloses(b) \/ TimePasses(b)
         \/ \E v \in Verdicts : ResolveAggregation(b, v)
         \/ \E o \in Recomputed : SettleRecomputation(b, o)
         \/ \E c \in Challengers : Dispute(c, b) \/ Expire(c, b)
    \/ \E c \in Challengers :
         \/ ApproveDin(c) \/ OpenDispute(c) \/ ExpireDispute(c)
         \/ ClaimDisputeBond(c) \/ PayBond(c)

DisputeSpec == DisputeInit /\ [][DisputeNext]_disputeVars

\* Time passes, the owner's loop goes on, and somebody expires what is late
\* and is not stopped forever; nothing is asked of the owner.
DisputeFairness ==
    /\ WF_disputeVars(LockDisputeSeed)
    /\ \A b \in Batches : WF_disputeVars(TimePasses(b))
    /\ \A c \in Challengers : /\ SF_disputeVars(ExpireDispute(c))
                              /\ \A b \in Batches : SF_disputeVars(Expire(c, b))

FairDisputeSpec == DisputeSpec /\ DisputeFairness

(***************************************************************************)
(* Properties.                                                             *)
(***************************************************************************)
\* What the contract still holds of the bond of a dispute.
StillHeld(d) == IF d.finalized THEN 0 ELSE d.bond

\* The contract holds exactly the bonds of the disputes that are not over and
\* those that may be claimed, whichever of settle and expire came first and
\* however disputeBond was changed (Dispute.finalized, disputeBondClaimable).
BondsCovered ==
    bank = SumFunctionOnSet([b \in Batches |-> StillHeld(dispute[b])], Batches)
           + SumFunctionOnSet(bondClaimable, Challengers)

\* An upheld dispute ends even when the owner does nothing more (expireDispute
\* is permissionless).
UpheldDisputesEnd ==
    \A b \in Batches : dispute[b].upheld ~> dispute[b].finalized
=============================================================================
