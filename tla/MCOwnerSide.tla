---------------------------- MODULE MCOwnerSide -----------------------------
(***************************************************************************)
(* What a model owner runs once its model is registered: the commands of   *)
(* the iterations (OwnerClient.tla) and those of a dispute, with its       *)
(* challengers (AggregationDispute.tla).  The two share no state; a        *)
(* behaviour is one of them, the other is still.                           *)
(***************************************************************************)
EXTENDS OwnerClient, AggregationDispute

CONSTANTS c1, c2

VARIABLE part   \* the part that this behaviour is about

sideVars == <<part, vars, disputeVars>>

SideInit ==
    /\ part \in {"iterations", "disputes"}
    /\ OwnerInit /\ DisputeInit
    /\ part = "iterations" => disputeBond = 1

Iterations == part = "iterations" /\ OwnerNext /\ UNCHANGED <<part, disputeVars>>
Disputes == part = "disputes" /\ DisputeNext /\ UNCHANGED <<part, vars>>

\* Nothing of a dispute that is fair is enabled where no dispute is opened.
SideSpec ==
    /\ SideInit /\ [][Iterations \/ Disputes]_sideVars
    /\ WF_sideVars(Iterations) /\ DisputeFairness
=============================================================================
