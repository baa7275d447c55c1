-------------------------- MODULE MCValidatorStake --------------------------
(***************************************************************************)
(* Values of the constants of ValidatorStake.tla for its runs.  Amounts    *)
(* keep the proportions that matter: MIN_STAKE against a partial slash,    *)
(* odd amounts for the 50/50 split, windows and thresholds close together. *)
(***************************************************************************)
EXTENDS ValidatorStake, TLC

CONSTANTS v1, v2, s1, s2

Symmetric == Permutations(Validators)
SymmetricSlashers == Permutations(Slashers)

\* Two partial slashes escalate, the global level is off.
StrictParams ==
    [minStake |-> 2, unbonding |-> 2,
     s5Window |-> 2, s5Threshold |-> 2, s5Jail |-> 2,
     s5GlobalWindow |-> 0, s5GlobalThreshold |-> 0, s6Threshold |-> 1]

\* MIN_STAKE is ten units, so that the tenths of S6 do not vanish; both levels on.
BooksParams ==
    [minStake |-> 10, unbonding |-> 1,
     s5Window |-> 2, s5Threshold |-> 2, s5Jail |-> 1,
     s5GlobalWindow |-> 2, s5GlobalThreshold |-> 3, s6Threshold |-> 2]

NoS5Params == {}
SomeS5Params ==
    {[window |-> 3, threshold |-> 1, jail |-> 1]}
NoS5GlobalParams == {}
SomeS5GlobalParams ==
    {[window |-> 1, threshold |-> 1]}
=============================================================================
