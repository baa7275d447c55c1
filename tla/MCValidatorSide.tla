------------------------- MODULE MCValidatorSide --------------------------
(***************************************************************************)
(* What a validator does from its terminals: the commands of an iteration  *)
(* (ValidatorClient.tla) and those that move its funds (Payments.tla).     *)
(* The two share no state; a behaviour is one of them, the other is still. *)
(***************************************************************************)
EXTENDS ValidatorClient, Payments

CONSTANTS v1, v2, host, t1, t2

VARIABLE part   \* the part that this behaviour is about

OneHost == [a \in Accounts |-> host]

T1Batch0 == <<"t1", 0>>
T2Batch == <<"t2", 0>>
Model0 == <<"audit", 0>>
Model1 == <<"audit", 1>>

AllSlots == {T1Batch0, T2Batch, Model0, Model1}

\* Two aggregators of one batch; one of them also scores two models.
TwoTiers == v1 :> {T1Batch0} @@ v2 :> {T1Batch0, T2Batch, Model0, Model1}

\* A behaviour covers one phase of an iteration.
Phases == {<<"DINaggregatorsRegistrationStarted", "DINauditorsRegistrationClosed">>,
           <<"LMSclosed", "AuditSeedLocked">>,
           <<"LMSevaluationStarted", "LMSevaluationClosed">>,
           <<"LMSevaluationClosed", "AggSeedLocked">>,
           <<"T1AggregationStarted", "T1AggregationDone">>,
           <<"T2AggregationStarted", "T2AggregationDone">>}

SideInit ==
    /\ part \in {"commands", "payments"}
    /\ ClientInit /\ PaymentsInit
    /\ part # "commands" => GIstate = "T1AggregationStarted"

SideNext ==
    /\ \/ part = "commands" /\ ClientNext /\ UNCHANGED paymentVars
       \/ part = "payments" /\ PaymentsNext /\ UNCHANGED vars
    /\ UNCHANGED part

\* Nothing that is fair is enabled in a part that is still.
SideSpec ==
    /\ SideInit /\ [][SideNext]_<<part, vars, paymentVars>>
    /\ ClientFairness /\ PaymentsFairness
=============================================================================
