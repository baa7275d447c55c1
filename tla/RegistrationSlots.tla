------------------------- MODULE RegistrationSlots -------------------------
(***************************************************************************)
(* What activeRegistrationCount of DinValidatorStake.sol promises to the   *)
(* task contracts of all the models: a registration occupies one unit of   *)
(* its validator from the moment it is made until its iteration is         *)
(* released, an iteration is released once and with everybody in it, and   *)
(* the counter is the number of units a validator occupies.                *)
(*                                                                         *)
(* Neither contract keeps the units themselves: the coordinator of one     *)
(* model increments a counter that the others read.                        *)
(***************************************************************************)
EXTENDS Integers, FiniteSets

CONSTANTS
    Registers,   \* registration lists: those of one role in one model's iterations
    Iterations,  \* indexes of the iterations
    Validators

VARIABLES
    occupied,    \* the units in use, as <<register, iteration, validator>>
    released,    \* the <<register, iteration>> that gave their units back
    count        \* activeRegistrationCount

slotVars == <<occupied, released, count>>

Slots == Registers \X Iterations \X Validators

SlotsInit ==
    /\ occupied = {}
    /\ released = {}
    /\ count = [v \in Validators |-> 0]

Occupy(r, i, v) ==
    /\ <<r, i>> \notin released
    /\ <<r, i, v>> \notin occupied
    /\ occupied' = occupied \cup {<<r, i, v>>}
    /\ count' = [count EXCEPT ![v] = @ + 1]
    /\ UNCHANGED released

\* The units of some registers in one iteration are given back together.
GiveBack(registers, i) ==
    /\ \A r \in registers : <<r, i>> \notin released
    /\ released' = released \cup (registers \X {i})
    /\ occupied' = {slot \in occupied : ~ (slot[1] \in registers /\ slot[2] = i)}
    /\ count' = [v \in Validators |->
           count[v] - Cardinality({slot \in occupied :
                          slot[1] \in registers /\ slot[2] = i /\ slot[3] = v})]

SlotsNext ==
    \/ \E r \in Registers, i \in Iterations, v \in Validators : Occupy(r, i, v)
    \/ \E registers \in SUBSET Registers, i \in Iterations : GiveBack(registers, i)

SlotsSpec == SlotsInit /\ [][SlotsNext]_slotVars

OccupiedBy(v) == {slot \in occupied : slot[3] = v}

\* A validator's counter is the number of units it occupies, in whichever
\* models and iterations (incrementActiveRegistration, decrementActiveRegistration).
CountIsExact == \A v \in Validators : count[v] = Cardinality(OccupiedBy(v))
=============================================================================
