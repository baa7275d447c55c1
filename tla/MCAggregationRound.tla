------------------------- MODULE MCAggregationRound -------------------------
(***************************************************************************)
(* Values of the constants of AggregationRound.tla for its runs.  The      *)
(* aggregators are named in the order in which the shuffle left them.      *)
(***************************************************************************)
EXTENDS AggregationRound

CONSTANTS a1, a2, a3, a4, a5, a6, a7, s1, s2

Symmetric == Permutations(Validators)

\* Two misses within two iterations escalate.
RoundParams ==
    [minStake |-> 4, unbonding |-> 1,
     s5Window |-> 2, s5Threshold |-> 2, s5Jail |-> 1,
     s5GlobalWindow |-> 0, s5GlobalThreshold |-> 0, s6Threshold |-> 1]

NoParams == {}
Fractions == {10000, 20000}
NoFractions == {}

\* One batch, with the disturbed aggregator between the two others.
DisturbedInTheMiddle == {<<a2, a1, a3>>}
\* The seven, or the six when the disturbed one is not Active.
SevenOrders ==
    {<<a1, a2, a3, a4, a5, a6, a7>>, <<a7, a1, a2, a3, a4, a5, a6>>,
     <<a1, a2, a3, a5, a6, a7>>, <<a7, a1, a2, a3, a5, a6>>}

ThreeModels == {<<1, 2, 3>>}
UpToSixModels == {<<1, 2, 3>>, <<4, 2, 1, 3>>, <<5, 1, 2, 3, 4>>, <<1, 2, 3, 4, 5, 6>>}

NoMisses == {<<>>}
MaybeOneMiss == {<<>>, <<0>>}
=============================================================================
