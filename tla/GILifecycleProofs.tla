-------------------------- MODULE GILifecycleProofs --------------------------
(***************************************************************************)
(* Theorems of GILifecycle.tla, for every set of models and validators,    *)
(* every delay and window of the seeds and any number of iterations.       *)
(*                                                                         *)
(* What one model's contracts keep consistent among themselves is ModelOK; *)
(* an action changes one model, so most of the proof is about ModelOK as   *)
(* a predicate on one model's values.  The counter all models share is     *)
(* proved exact together with its refinement of RegistrationSlots, which   *)
(* needs ModelOK: only an iteration that is over is ever released.         *)
(***************************************************************************)
EXTENDS GILifecycle, FiniteSetTheorems, TLAPS

-----------------------------------------------------------------------------
(* The order of the states. *)

\* No state is listed twice.
LEMMA OrdinalOf ==
    ASSUME NEW i \in 1..29
    PROVE  GIstates[i] \in StateNames /\ Ordinal[GIstates[i]] = i
<1>1. DOMAIN GIstates = 1..29
  BY DEF GIstates
<1>2. \A j \in 1..29 : GIstates[j] = GIstates[i] => j = i
  BY SMTT(60) DEF GIstates
<1>3. GIstates[i] \in StateNames
  BY <1>1 DEF StateNames
<1>4. Ordinal[GIstates[i]] = CHOOSE j \in 1..29 : GIstates[j] = GIstates[i]
  BY <1>1, <1>3 DEF Ordinal
<1> QED
  BY <1>2, <1>3, <1>4

\* Every state has an ordinal.
LEMMA StateOf ==
    ASSUME NEW st \in StateNames
    PROVE  Ordinal[st] \in 1..29 /\ GIstates[Ordinal[st]] = st
<1>1. DOMAIN GIstates = 1..29
  BY DEF GIstates
<1>2. PICK i \in 1..29 : st = GIstates[i]
  BY <1>1 DEF StateNames
<1> QED
  BY <1>2, OrdinalOf

\* Following, by ordinal.
LEMMA FollowingOf ==
    ASSUME NEW i \in 1..28
    PROVE  Following(GIstates[i]) = GIstates[i + 1]
  BY OrdinalOf DEF Following

\* The states the invariant speaks of, by ordinal.
LEMMA NamedStates ==
    /\ GIstates[1] = "AwaitingDINTaskAuditorToBeSet"
    /\ GIstates[2] = "AwaitingDINTaskCoordinatorAsSlasher"
    /\ GIstates[3] = "AwaitingDINTaskAuditorAsSlasher"
    /\ GIstates[5] = "GenesisModelCreated"
    /\ GIstates[6] = "GIstarted"
    /\ GIstates[7] = "DINaggregatorsRegistrationStarted"
    /\ GIstates[9] = "DINauditorsRegistrationStarted"
    /\ GIstates[11] = "LMSstarted"
    /\ GIstates[12] = "LMSclosed"
    /\ GIstates[17] = "LMSevaluationRevealStarted"
    /\ GIstates[18] = "LMSevaluationClosed"
    /\ GIstates[29] = "GIended"
  BY DEF GIstates

\* The states the actions name are states, and not the last one.
LEMMA NamedTyped ==
    \A st \in {"AwaitingDINTaskAuditorToBeSet", "AwaitingDINTaskCoordinatorAsSlasher",
               "AwaitingDINTaskAuditorAsSlasher", "GenesisModelCreated", "GIstarted",
               "DINaggregatorsRegistrationStarted", "DINauditorsRegistrationStarted",
               "LMSstarted", "LMSclosed", "LMSevaluationRevealStarted",
               "LMSevaluationClosed"} :
        st \in StateNames /\ Ordinal[st] # 29
  BY NamedStates, OrdinalOf

\* Their ordinals.
LEMMA NamedOrdinals ==
    /\ Ordinal["AwaitingDINTaskAuditorToBeSet"] = 1
    /\ Ordinal["AwaitingDINTaskCoordinatorAsSlasher"] = 2
    /\ Ordinal["AwaitingDINTaskAuditorAsSlasher"] = 3
    /\ Ordinal["GenesisModelCreated"] = 5
    /\ Ordinal["GIstarted"] = 6
    /\ Ordinal["DINaggregatorsRegistrationStarted"] = 7
    /\ Ordinal["DINauditorsRegistrationStarted"] = 9
    /\ Ordinal["LMSstarted"] = 11
    /\ Ordinal["LMSclosed"] = 12
    /\ Ordinal["LMSevaluationRevealStarted"] = 17
    /\ Ordinal["LMSevaluationClosed"] = 18
    /\ Ordinal["GIended"] = 29
  BY NamedStates, OrdinalOf

\* The plain calls leave a state that is neither one of the setup checks, nor
\* a possible start, nor one that an anchor leaves or a lock does.
LEMMA PlainOrdinals ==
    ASSUME NEW st \in PlainStates
    PROVE  st \in StateNames /\ Ordinal[st] \in (1..28) \ {2, 3, 5, 11, 12, 17, 18}
<1>1. PICK i \in (1..28) \ {2, 3, 5, 11, 12, 17, 18} : st = GIstates[i]
  BY SMTT(60) DEF PlainStates, GIstates
<1> QED
  BY <1>1, OrdinalOf

\* The next state has the next ordinal.
LEMMA FollowingOrdinal ==
    ASSUME NEW st \in StateNames, Ordinal[st] # 29
    PROVE  Following(st) \in StateNames /\ Ordinal[Following(st)] = Ordinal[st] + 1
<1>1. PICK i \in 1..28 : st = GIstates[i] /\ Ordinal[st] = i
  BY StateOf
<1>2. Following(st) = GIstates[i + 1] /\ i + 1 \in 1..29
  BY <1>1, FollowingOf
<1> QED
  BY <1>1, <1>2, OrdinalOf

-----------------------------------------------------------------------------
(* Type correctness. *)

\* What the seed operations give is a seed.
LEMMA SeedTypes ==
    /\ NoSeed \in Seed /\ FreshSeed \in Seed
    /\ \A sd \in Seed : [sd EXCEPT !.status = "locked"] \in Seed
    /\ \A sd \in Seed : sd.age <= SeedWindow => [sd EXCEPT !.age = @ + 1] \in Seed
<1>1. SeedDelay \in Nat /\ SeedWindow \in Nat
  BY LifecycleAssumption
<1> QED
  BY <1>1 DEF Seed, NoSeed, FreshSeed

\* A function stays one of its set when a value of it is replaced.
LEMMA UpdateTyped ==
    ASSUME NEW A, NEW B, NEW f \in [A -> B], NEW a \in A, NEW b \in B
    PROVE  [f EXCEPT ![a] = b] \in [A -> B]
  OBVIOUS

\* A validator is added to one list of one model.
ListGains(lists, new, m, g, v) ==
    /\ new \in [Models -> [1..MaxGI -> SUBSET Validators]]
    /\ \A n \in Models \ {m} : new[n] = lists[n]
    /\ \A h \in 1..MaxGI :
          new[m][h] = IF h = g THEN lists[m][h] \cup {v} ELSE lists[m][h]

\* Both registrations change one list this way.
LEMMA ListUpdated ==
    ASSUME NEW lists \in [Models -> [1..MaxGI -> SUBSET Validators]],
           NEW m \in Models, NEW g \in 0..MaxGI, NEW v \in Validators, NEW new,
           new = [lists EXCEPT ![m][g] = @ \cup {v}]
    PROVE  ListGains(lists, new, m, g, v)
<1> DEFINE changed == [lists[m] EXCEPT ![g] = @ \cup {v}]
<1>1. lists[m] \in [1..MaxGI -> SUBSET Validators]
  OBVIOUS
<1>2. changed \in [1..MaxGI -> SUBSET Validators]
  BY <1>1
<1>3. \A h \in 1..MaxGI : changed[h] = IF h = g THEN lists[m][h] \cup {v} ELSE lists[m][h]
  BY <1>1
<1>4. new = [lists EXCEPT ![m] = changed]
  OBVIOUS
<1> HIDE DEF changed
<1>5. new \in [Models -> [1..MaxGI -> SUBSET Validators]]
  BY <1>2, <1>4, UpdateTyped
<1>6. \A n \in Models : new[n] = IF n = m THEN changed ELSE lists[n]
  BY <1>4
<1> QED
  BY <1>3, <1>5, <1>6 DEF ListGains

\* The initial state has the types of the model.
LEMMA InitTypeOK == LifecycleInit => LifecycleTypeOK
<1> SUFFICES ASSUME LifecycleInit PROVE LifecycleTypeOK
  OBVIOUS
<1>1. "AwaitingDINTaskAuditorToBeSet" \in StateNames
  BY NamedStates, OrdinalOf
<1>2. GIstate \in [Models -> StateNames] /\ GI \in [Models -> 0..MaxGI]
  BY <1>1, LifecycleAssumption DEF LifecycleInit
<1>3. seeds \in [Models -> [Seeds -> Seed]]
  BY SeedTypes, Zenon DEF LifecycleInit
<1>4. /\ fundedGIs \in [Models -> SUBSET (1..MaxGI)]
      /\ registrationSlotsReleased \in [Models -> SUBSET (1..MaxGI)]
      /\ dinAggregators \in [Models -> [1..MaxGI -> SUBSET Validators]]
      /\ dinAuditors \in [Models -> [1..MaxGI -> SUBSET Validators]]
  BY DEF LifecycleInit
<1>5. /\ slasherContracts \subseteq TaskContracts
      /\ activeRegistrationCount \in [Validators -> Nat]
      /\ modelStakeMin \in [Models -> Nat]
      /\ maxConcurrent \in Nat
  BY DEF LifecycleInit
<1> QED
  BY <1>2, <1>3, <1>4, <1>5 DEF LifecycleTypeOK
\* The states a call goes to.
LEMMA GoToTyped ==
    ASSUME LifecycleTypeOK, NEW m \in Models, NEW st \in StateNames, Ordinal[st] # 29,
           GoTo(m, st)
    PROVE  /\ GIstate' \in [Models -> StateNames]
           /\ GIstate[m] = st /\ GIstate'[m] = Following(st)
           /\ \A n \in Models \ {m} : GIstate'[n] = GIstate[n]
<1>1. Following(st) \in StateNames
  BY FollowingOrdinal
<1>2. GIstate \in [Models -> StateNames]
  BY DEF LifecycleTypeOK
<1> QED
  BY <1>1, <1>2 DEF GoTo

\* One seed of one model is replaced.
LEMMA SeedUpdateTyped ==
    ASSUME NEW sd \in [Models -> [Seeds -> Seed]], NEW m \in Models, NEW k \in Seeds,
           NEW s \in Seed
    PROVE  /\ [sd EXCEPT ![m][k] = s] \in [Models -> [Seeds -> Seed]]
           /\ [sd EXCEPT ![m][k] = s][m] = [sd[m] EXCEPT ![k] = s]
           /\ \A n \in Models \ {m} : [sd EXCEPT ![m][k] = s][n] = sd[n]
<1>1. [sd[m] EXCEPT ![k] = s] \in [Seeds -> Seed]
  OBVIOUS
<1> QED
  BY <1>1

\* No step leaves the types of the model.
LEMMA StepTypeOK == LifecycleTypeOK /\ [LifecycleNext]_lifeVars => LifecycleTypeOK'
<1> SUFFICES ASSUME LifecycleTypeOK, [LifecycleNext]_lifeVars PROVE LifecycleTypeOK'
  OBVIOUS
<1>0. ASSUME UNCHANGED lifeVars PROVE LifecycleTypeOK'
  <2>1. UNCHANGED <<GIstate, GI, slasherContracts, fundedGIs, dinAggregators, dinAuditors,
                    registrationSlotsReleased, seeds, activeRegistrationCount,
                    modelStakeMin, maxConcurrent>>
    BY <1>0 DEF lifeVars, members, bounds
  <2> QED
    BY <2>1 DEF LifecycleTypeOK
<1>1. ASSUME NEW m \in Models, MoveOn(m) PROVE LifecycleTypeOK'
  <2>1. PICK st \in PlainStates : GoTo(m, st)
    BY <1>1 DEF MoveOn
  <2>2. GIstate' \in [Models -> StateNames]
    BY <2>1, PlainOrdinals, GoToTyped
  <2> QED
    BY <1>1, <2>2 DEF LifecycleTypeOK, MoveOn, members, bounds
<1>2. ASSUME NEW m \in Models, SetDINTaskCoordinatorAsSlasher(m) PROVE LifecycleTypeOK'
  <2>1. GIstate' \in [Models -> StateNames]
    BY <1>2, NamedTyped, GoToTyped DEF SetDINTaskCoordinatorAsSlasher
  <2> QED
    BY <1>2, <2>1 DEF LifecycleTypeOK, SetDINTaskCoordinatorAsSlasher, members, bounds
<1>3. ASSUME NEW m \in Models, SetDINTaskAuditorAsSlasher(m) PROVE LifecycleTypeOK'
  <2>1. GIstate' \in [Models -> StateNames]
    BY <1>3, NamedTyped, GoToTyped DEF SetDINTaskAuditorAsSlasher
  <2> QED
    BY <1>3, <2>1 DEF LifecycleTypeOK, SetDINTaskAuditorAsSlasher, members, bounds
<1>4. ASSUME NEW m \in Models, StartGI(m) PROVE LifecycleTypeOK'
  <2>1. GI[m] + 1 \in 1..MaxGI
    BY <1>4 DEF StartGI, MayStart, LifecycleTypeOK
  <2>2. GI' \in [Models -> 0..MaxGI]
    BY <1>4, <2>1, LifecycleAssumption DEF StartGI, LifecycleTypeOK
  <2>3. GIstate' \in [Models -> StateNames]
    BY <1>4, NamedTyped DEF StartGI, LifecycleTypeOK
  <2>4. [k \in Seeds |-> NoSeed] \in [Seeds -> Seed]
    BY SeedTypes, Zenon
  <2>5. seeds' \in [Models -> [Seeds -> Seed]]
    BY <1>4, <2>4, UpdateTyped DEF StartGI, LifecycleTypeOK
  <2> QED
    BY <1>4, <2>2, <2>3, <2>5 DEF LifecycleTypeOK, StartGI, members, bounds
<1>5. ASSUME NEW m \in Models, NEW k \in Seeds, NEW st \in {"LMSstarted", "LMSevaluationRevealStarted"},
             AnchorSeed(m, k, st)
      PROVE  LifecycleTypeOK'
  <2>1. GIstate' \in [Models -> StateNames]
    BY <1>5, NamedTyped, GoToTyped DEF AnchorSeed
  <2>2. seeds' \in [Models -> [Seeds -> Seed]]
    BY <1>5, SeedTypes, SeedUpdateTyped DEF AnchorSeed, LifecycleTypeOK
  <2> QED
    BY <1>5, <2>1, <2>2 DEF LifecycleTypeOK, AnchorSeed, members, bounds
<1>6. ASSUME NEW m \in Models, NEW k \in Seeds, LockSeed(m, k) PROVE LifecycleTypeOK'
  <2>1. Following(AnchoredIn[k]) \in StateNames
    BY NamedTyped, FollowingOrdinal DEF Seeds, AnchoredIn
  <2>2. GIstate' \in [Models -> StateNames]
    BY <1>6, <2>1 DEF LockSeed, LifecycleTypeOK
  <2>3. seeds[m][k] \in Seed
    BY DEF LifecycleTypeOK
  <2>4. PICK s \in Seed : s = [seeds[m][k] EXCEPT !.status = "locked"]
    BY <2>3, SeedTypes
  <2>5. seeds' = [seeds EXCEPT ![m][k] = s]
    BY <1>6, <2>4 DEF LockSeed
  <2>6. seeds' \in [Models -> [Seeds -> Seed]]
    BY <2>5, SeedUpdateTyped DEF LifecycleTypeOK
  <2> QED
    BY <1>6, <2>2, <2>6 DEF LifecycleTypeOK, LockSeed, members, bounds
<1>7. ASSUME NEW m \in Models, NEW k \in Seeds, ReanchorSeed(m, k) PROVE LifecycleTypeOK'
  <2>1. seeds' = [seeds EXCEPT ![m][k] = FreshSeed]
    BY <1>7 DEF ReanchorSeed, Reanchored
  <2>2. seeds' \in [Models -> [Seeds -> Seed]]
    BY <2>1, SeedTypes, SeedUpdateTyped DEF LifecycleTypeOK
  <2> QED
    BY <1>7, <2>2 DEF LifecycleTypeOK, ReanchorSeed, members, bounds
<1>8. ASSUME NextBlock PROVE LifecycleTypeOK'
  <2>1. seeds' \in [Models -> [Seeds -> Seed]]
    <3> DEFINE older(m, k) ==
                 IF seeds[m][k].status = "anchored" /\ seeds[m][k].age <= SeedWindow
                 THEN [seeds[m][k] EXCEPT !.age = @ + 1] ELSE seeds[m][k]
    <3>1. ASSUME NEW m \in Models, NEW k \in Seeds PROVE older(m, k) \in Seed
      <4>1. seeds[m][k] \in Seed
        BY DEF LifecycleTypeOK
      <4> QED
        BY <4>1, SeedTypes
    <3>2. seeds' = [m \in Models |-> [k \in Seeds |-> older(m, k)]]
      BY <1>8 DEF NextBlock
    <3> HIDE DEF older
    <3> QED
      BY <3>1, <3>2, Zenon
  <2> QED
    BY <1>8, <2>1 DEF LifecycleTypeOK, NextBlock, members, bounds
<1>9. ASSUME NEW m \in Models, NEW v \in Validators, NEW stake, RegisterDINaggregator(m, v, stake)
      PROVE  LifecycleTypeOK'
  <2>1. dinAggregators' \in [Models -> [1..MaxGI -> SUBSET Validators]]
    <3>1. GI[m] \in 0..MaxGI /\ dinAggregators \in [Models -> [1..MaxGI -> SUBSET Validators]]
      BY DEF LifecycleTypeOK
    <3>2. dinAggregators' = [dinAggregators EXCEPT ![m][GI[m]] = @ \cup {v}]
      BY <1>9 DEF RegisterDINaggregator
    <3>3. ListGains(dinAggregators, dinAggregators', m, GI[m], v)
      BY <3>1, <3>2, ListUpdated, ZenonT(30)
    <3> QED
      BY <3>3 DEF ListGains
  <2>2. activeRegistrationCount' \in [Validators -> Nat]
    BY <1>9 DEF RegisterDINaggregator, Increment, LifecycleTypeOK
  <2> QED
    BY <1>9, <2>1, <2>2 DEF LifecycleTypeOK, RegisterDINaggregator, bounds
<1>10. ASSUME NEW m \in Models, NEW v \in Validators, NEW stake, RegisterDINAuditor(m, v, stake)
       PROVE  LifecycleTypeOK'
  <2>1. dinAuditors' \in [Models -> [1..MaxGI -> SUBSET Validators]]
    <3>1. GI[m] \in 0..MaxGI /\ dinAuditors \in [Models -> [1..MaxGI -> SUBSET Validators]]
      BY DEF LifecycleTypeOK
    <3>2. dinAuditors' = [dinAuditors EXCEPT ![m][GI[m]] = @ \cup {v}]
      BY <1>10 DEF RegisterDINAuditor
    <3>3. ListGains(dinAuditors, dinAuditors', m, GI[m], v)
      BY <3>1, <3>2, ListUpdated, ZenonT(30)
    <3> QED
      BY <3>3 DEF ListGains
  <2>2. activeRegistrationCount' \in [Validators -> Nat]
    BY <1>10 DEF RegisterDINAuditor, Increment, LifecycleTypeOK
  <2> QED
    BY <1>10, <2>1, <2>2 DEF LifecycleTypeOK, RegisterDINAuditor, bounds
<1>11. ASSUME NEW m \in Models, NEW g \in 1..MaxGI, ReleaseGIRegistrationSlots(m, g)
       PROVE  LifecycleTypeOK'
  <2>1. registrationSlotsReleased' \in [Models -> SUBSET (1..MaxGI)]
    BY <1>11 DEF ReleaseGIRegistrationSlots, LifecycleTypeOK
  <2>2. activeRegistrationCount' \in [Validators -> Nat]
    BY <1>11 DEF ReleaseGIRegistrationSlots, Decremented, Units, LifecycleTypeOK
  <2> QED
    BY <1>11, <2>1, <2>2 DEF LifecycleTypeOK, ReleaseGIRegistrationSlots, bounds
<1>12. ASSUME NEW iteration \in Fundable, DepositRewards(iteration[1], iteration[2])
       PROVE  LifecycleTypeOK'
  <2>1. iteration[1] \in Models /\ iteration[2] \in 1..MaxGI
    BY LifecycleAssumption
  <2>2. fundedGIs' \in [Models -> SUBSET (1..MaxGI)]
    BY <1>12, <2>1 DEF DepositRewards, LifecycleTypeOK
  <2> QED
    BY <1>12, <2>2 DEF LifecycleTypeOK, DepositRewards, members, bounds
<1>13. ASSUME PlatformStep PROVE LifecycleTypeOK'
  <2>1. ASSUME NEW c \in TaskContracts, AddSlasherContract(c) PROVE LifecycleTypeOK'
    BY <2>1 DEF LifecycleTypeOK, AddSlasherContract, members, bounds
  <2>2. ASSUME NEW c, RemoveSlasherContract(c) PROVE LifecycleTypeOK'
    BY <2>2 DEF LifecycleTypeOK, RemoveSlasherContract, members, bounds
  <2>3. ASSUME NEW m \in Models, NEW min \in ModelFloors, SetModelStakeBounds(m, min)
        PROVE  LifecycleTypeOK'
    <3>1. min \in Nat
      BY LifecycleAssumption
    <3>2. modelStakeMin' \in [Models -> Nat]
      BY <2>3, <3>1 DEF LifecycleTypeOK, SetModelStakeBounds
    <3> QED
      BY <2>3, <3>2 DEF LifecycleTypeOK, SetModelStakeBounds, members
  <2>4. ASSUME NEW cap \in RegistrationCaps, SetMaxConcurrentRegistrationsPerStakeUnit(cap)
        PROVE  LifecycleTypeOK'
    BY <2>4, LifecycleAssumption
       DEF LifecycleTypeOK, SetMaxConcurrentRegistrationsPerStakeUnit, members
  <2> QED
    BY <1>13, <2>1, <2>2, <2>3, <2>4 DEF PlatformStep
<1> QED
  <2>1. ASSUME NEW m \in Models, OwnerStep(m) PROVE LifecycleTypeOK'
    BY <2>1, <1>1, <1>2, <1>3, <1>4, <1>5, <1>11
       DEF OwnerStep, CloseLMsubmissions, CloseLMsubmissionsEvaluation, Seeds
  <2>2. ASSUME NEW m \in Models, NEW v \in Validators, ValidatorStep(m, v)
        PROVE  LifecycleTypeOK'
    BY <2>2, <1>9, <1>10 DEF ValidatorStep
  <2> QED
    BY <1>0, <1>6, <1>7, <1>8, <1>12, <1>13, <2>1, <2>2 DEF LifecycleNext
-----------------------------------------------------------------------------
(* What one model's contracts keep consistent among themselves: the state,   *)
(* the index, the seeds, the lists by iteration and the released iterations. *)

ModelOK(st, gi, sd, aggs, auds, rel) ==
    /\ \A k \in Seeds : sd[k].status = "anchored" <=> st = AnchoredIn[k]
    /\ Ordinal[st] >= 6 => gi >= 1
    /\ Ordinal[st] < 12 => sd["audit"].status = "unanchored"
    /\ \A g \in 1..MaxGI : g > gi => aggs[g] = {} /\ auds[g] = {}
    /\ \A g \in 1..MaxGI : g = gi /\ Ordinal[st] < 9 => auds[g] = {}
    /\ \A g \in rel : g < gi \/ (g = gi /\ st = "GIended")
    /\ \A g \in 1..MaxGI : aggs[g] \cap auds[g] = {}

Consistent(m) ==
    ModelOK(GIstate[m], GI[m], seeds[m], dinAggregators[m], dinAuditors[m],
            registrationSlotsReleased[m])

LifecycleInv == LifecycleTypeOK /\ \A m \in Models : Consistent(m)

\* What the types say of one model's values.
ModelTyped(st, gi, sd, aggs, auds, rel) ==
    /\ st \in StateNames
    /\ gi \in 0..MaxGI
    /\ sd \in [Seeds -> Seed]
    /\ aggs \in [1..MaxGI -> SUBSET Validators]
    /\ auds \in [1..MaxGI -> SUBSET Validators]
    /\ rel \in SUBSET (1..MaxGI)

\* They follow from the type invariant.
LEMMA TypedModel ==
    ASSUME LifecycleTypeOK, NEW m \in Models
    PROVE  ModelTyped(GIstate[m], GI[m], seeds[m], dinAggregators[m], dinAuditors[m],
                      registrationSlotsReleased[m])
  BY DEF LifecycleTypeOK, ModelTyped

\* The two states that wait for a lock, by ordinal.
LEMMA AnchorStates ==
    /\ AnchoredIn["audit"] = "LMSclosed" /\ AnchoredIn["agg"] = "LMSevaluationClosed"
    /\ Seeds = {"audit", "agg"}
  BY DEF AnchoredIn, Seeds

\* A call that goes to the next state and touches no seed.
LEMMA AdvanceKeepsModel ==
    ASSUME NEW st, NEW gi, NEW sd, NEW aggs, NEW auds, NEW rel,
           ModelTyped(st, gi, sd, aggs, auds, rel), ModelOK(st, gi, sd, aggs, auds, rel),
           Ordinal[st] \in (1..28) \ {5, 11, 12, 17, 18}
    PROVE  ModelOK(Following(st), gi, sd, aggs, auds, rel)
<1>1. st \in StateNames /\ gi \in Nat
  BY LifecycleAssumption DEF ModelTyped
<1>2. /\ Following(st) \in StateNames
      /\ Ordinal[Following(st)] = Ordinal[st] + 1
      /\ Ordinal[st] \in 1..29
  BY <1>1, StateOf, FollowingOrdinal
<1>3. st \notin {"LMSclosed", "LMSevaluationClosed", "GIended"}
  BY NamedOrdinals
<1>4. Following(st) \notin {"LMSclosed", "LMSevaluationClosed"}
  BY <1>2, NamedOrdinals
<1>5. \A k \in Seeds : sd[k].status = "anchored" <=> Following(st) = AnchoredIn[k]
  BY <1>3, <1>4, AnchorStates DEF ModelOK
<1>6. Ordinal[Following(st)] >= 6 => gi >= 1
  BY <1>2 DEF ModelOK
<1>7. Ordinal[Following(st)] < 12 => sd["audit"].status = "unanchored"
  BY <1>2 DEF ModelOK
<1>8. \A g \in 1..MaxGI : g = gi /\ Ordinal[Following(st)] < 9 => auds[g] = {}
  BY <1>2 DEF ModelOK
<1>9. \A g \in rel : g < gi
  BY <1>3 DEF ModelOK
<1> QED
  BY <1>5, <1>6, <1>7, <1>8, <1>9 DEF ModelOK

\* A start: the lists of the new iteration are still empty.
LEMMA StartKeepsModel ==
    ASSUME NEW st, NEW gi, NEW sd, NEW aggs, NEW auds, NEW rel,
           ModelTyped(st, gi, sd, aggs, auds, rel), ModelOK(st, gi, sd, aggs, auds, rel)
    PROVE  ModelOK("GIstarted", gi + 1, [k \in Seeds |-> NoSeed], aggs, auds, rel)
<1>1. gi \in Nat /\ MaxGI \in Nat /\ rel \subseteq 1..MaxGI
  BY LifecycleAssumption DEF ModelTyped
<1>2. \A k \in Seeds : [j \in Seeds |-> NoSeed][k].status = "unanchored"
  BY DEF NoSeed
<1>3. /\ \A k \in Seeds : "GIstarted" # AnchoredIn[k]
      /\ Ordinal["GIstarted"] = 6
      /\ "audit" \in Seeds
  BY AnchorStates, NamedOrdinals
<1>4. \A g \in rel : g < gi + 1
  BY <1>1 DEF ModelOK
<1>5. \A g \in 1..MaxGI : g > gi => aggs[g] = {} /\ auds[g] = {}
  BY DEF ModelOK
<1>6. \A g \in 1..MaxGI : aggs[g] \cap auds[g] = {}
  BY DEF ModelOK
<1>7. \A g \in 1..MaxGI : g >= gi + 1 => aggs[g] = {} /\ auds[g] = {}
  BY <1>1, <1>5
<1> QED
  BY <1>1, <1>2, <1>3, <1>4, <1>6, <1>7 DEF ModelOK

\* The close that anchors seed k.
LEMMA AnchorKeepsModel ==
    ASSUME NEW st, NEW gi, NEW sd, NEW aggs, NEW auds, NEW rel, NEW k \in Seeds, NEW new,
           ModelTyped(st, gi, sd, aggs, auds, rel), ModelOK(st, gi, sd, aggs, auds, rel),
           Ordinal[st] \in {11, 17}, Following(st) = AnchoredIn[k],
           new \in [Seeds -> Seed],
           new[k].status = "anchored", \A j \in Seeds \ {k} : new[j].status = sd[j].status
    PROVE  ModelOK(Following(st), gi, new, aggs, auds, rel)
<1>1. st \in StateNames /\ gi \in Nat
  BY LifecycleAssumption DEF ModelTyped
<1>2. Ordinal[Following(st)] = Ordinal[st] + 1
  BY <1>1, FollowingOrdinal
<1>3. st \notin {"LMSclosed", "LMSevaluationClosed", "GIended"}
  BY NamedOrdinals
<1>4. \A j \in Seeds : new[j].status = "anchored" <=> Following(st) = AnchoredIn[j]
  BY <1>3, AnchorStates DEF ModelOK
<1>5. Ordinal[Following(st)] \in {12, 18} /\ gi >= 1
  BY <1>2 DEF ModelOK
<1>6. \A g \in rel : g < gi
  BY <1>3 DEF ModelOK
<1> QED
  BY <1>4, <1>5, <1>6 DEF ModelOK

\* The lock of seed k.  The state is the one the seed was anchored in, which
\* the function does not check.
LEMMA LockKeepsModel ==
    ASSUME NEW st, NEW gi, NEW sd, NEW aggs, NEW auds, NEW rel, NEW k \in Seeds, NEW new,
           ModelTyped(st, gi, sd, aggs, auds, rel), ModelOK(st, gi, sd, aggs, auds, rel),
           sd[k].status = "anchored", new \in [Seeds -> Seed],
           new[k].status = "locked", \A j \in Seeds \ {k} : new[j] = sd[j]
    PROVE  /\ st = AnchoredIn[k]
           /\ ModelOK(Following(AnchoredIn[k]), gi, new, aggs, auds, rel)
<1>1. st \in StateNames /\ gi \in Nat
  BY LifecycleAssumption DEF ModelTyped
<1>2. st = AnchoredIn[k] /\ Ordinal[st] \in {12, 18}
  BY AnchorStates, NamedOrdinals DEF ModelOK
<1>3. Ordinal[Following(st)] = Ordinal[st] + 1
  BY <1>1, <1>2, FollowingOrdinal
<1>4. Following(st) \notin {"LMSclosed", "LMSevaluationClosed"} /\ st # "GIended"
  BY <1>2, <1>3, NamedOrdinals
<1>5. \A j \in Seeds : new[j].status = "anchored" <=> Following(st) = AnchoredIn[j]
  BY <1>2, <1>4, AnchorStates DEF ModelOK
<1>6. Ordinal[Following(st)] \in {13, 19} /\ gi >= 1
  BY <1>2, <1>3 DEF ModelOK
<1>7. \A g \in rel : g < gi
  BY <1>4 DEF ModelOK
<1>8. ModelOK(Following(st), gi, new, aggs, auds, rel)
  BY <1>5, <1>6, <1>7 DEF ModelOK
<1> QED
  BY <1>2, <1>8

\* A block or a re-anchoring changes ages only.
LEMMA AgeingKeepsModel ==
    ASSUME NEW st, NEW gi, NEW sd, NEW aggs, NEW auds, NEW rel, NEW new,
           ModelOK(st, gi, sd, aggs, auds, rel),
           \A k \in Seeds : new[k].status = sd[k].status
    PROVE  ModelOK(st, gi, new, aggs, auds, rel)
  BY AnchorStates DEF ModelOK

\* The registration of an aggregator, before there is any auditor.
LEMMA AggregatorKeepsModel ==
    ASSUME NEW st, NEW gi, NEW sd, NEW aggs, NEW auds, NEW rel, NEW v, NEW new,
           ModelTyped(st, gi, sd, aggs, auds, rel), ModelOK(st, gi, sd, aggs, auds, rel),
           st = "DINaggregatorsRegistrationStarted",
           \A g \in 1..MaxGI : new[g] = IF g = gi THEN aggs[g] \cup {v} ELSE aggs[g]
    PROVE  ModelOK(st, gi, sd, new, auds, rel)
<1>1. Ordinal[st] = 7 /\ gi \in Nat
  BY NamedOrdinals, LifecycleAssumption DEF ModelTyped
<1>2. \A g \in 1..MaxGI : g > gi => new[g] = {} /\ auds[g] = {}
  <2>1. \A g \in 1..MaxGI : g > gi => aggs[g] = {} /\ auds[g] = {}
    BY DEF ModelOK
  <2>2. \A g \in 1..MaxGI : g > gi => g # gi
    BY <1>1, LifecycleAssumption
  <2> QED
    BY <2>1, <2>2, Zenon
<1>3. \A g \in 1..MaxGI : new[g] \cap auds[g] = {}
  <2>1. /\ \A g \in 1..MaxGI : g = gi => auds[g] = {}
        /\ \A g \in 1..MaxGI : aggs[g] \cap auds[g] = {}
    BY <1>1 DEF ModelOK
  <2> QED
    BY <2>1
<1> QED
  BY <1>2, <1>3 DEF ModelOK

\* The registration of an auditor who does not aggregate.
LEMMA AuditorKeepsModel ==
    ASSUME NEW st, NEW gi, NEW sd, NEW aggs, NEW auds, NEW rel, NEW v, NEW new,
           ModelTyped(st, gi, sd, aggs, auds, rel), ModelOK(st, gi, sd, aggs, auds, rel),
           st = "DINauditorsRegistrationStarted", v \notin aggs[gi],
           \A g \in 1..MaxGI : new[g] = IF g = gi THEN auds[g] \cup {v} ELSE auds[g]
    PROVE  ModelOK(st, gi, sd, aggs, new, rel)
<1>1. Ordinal[st] = 9 /\ gi \in Nat
  BY NamedOrdinals, LifecycleAssumption DEF ModelTyped
<1>2. \A g \in 1..MaxGI : g > gi => aggs[g] = {} /\ new[g] = {}
  <2>1. \A g \in 1..MaxGI : g > gi => aggs[g] = {} /\ auds[g] = {}
    BY DEF ModelOK
  <2>2. \A g \in 1..MaxGI : g > gi => g # gi
    BY <1>1, LifecycleAssumption
  <2> QED
    BY <2>1, <2>2, Zenon
<1>3. \A g \in 1..MaxGI : aggs[g] \cap new[g] = {}
  <2>1. \A g \in 1..MaxGI : aggs[g] \cap auds[g] = {}
    BY DEF ModelOK
  <2> QED
    BY <2>1
<1>4. \A g \in 1..MaxGI : g = gi /\ Ordinal[st] < 9 => new[g] = {}
  BY <1>1
<1> QED
  BY <1>2, <1>3, <1>4 DEF ModelOK

\* The release of an iteration that is over.
LEMMA ReleaseKeepsModel ==
    ASSUME NEW st, NEW gi, NEW sd, NEW aggs, NEW auds, NEW rel, NEW g,
           ModelOK(st, gi, sd, aggs, auds, rel), g < gi \/ (g = gi /\ st = "GIended")
    PROVE  ModelOK(st, gi, sd, aggs, auds, rel \cup {g})
  BY DEF ModelOK
-----------------------------------------------------------------------------
(* The invariant. *)

\* A model whose values a step leaves alone stays consistent.
LEMMA UntouchedModel ==
    ASSUME NEW n, Consistent(n),
           GIstate'[n] = GIstate[n], GI'[n] = GI[n], seeds'[n] = seeds[n],
           dinAggregators'[n] = dinAggregators[n], dinAuditors'[n] = dinAuditors[n],
           registrationSlotsReleased'[n] = registrationSlotsReleased[n]
    PROVE  Consistent(n)'
<1>1. Consistent(n)' <=> ModelOK(GIstate'[n], GI'[n], seeds'[n], dinAggregators'[n],
                                 dinAuditors'[n], registrationSlotsReleased'[n])
  BY DEF Consistent, ModelOK
<1> QED
  BY <1>1 DEF Consistent

\* The calls that go to the next state and do nothing else, by model.
LEMMA AdvanceConsistent ==
    ASSUME LifecycleInv, NEW m \in Models, NEW st \in StateNames, GoTo(m, st),
           Ordinal[st] \in (1..28) \ {5, 11, 12, 17, 18},
           UNCHANGED <<GI, seeds, dinAggregators, dinAuditors, registrationSlotsReleased>>,
           NEW n \in Models
    PROVE  Consistent(n)'
<1>1. LifecycleTypeOK /\ Consistent(m) /\ Consistent(n)
  BY DEF LifecycleInv
<1>2. /\ GIstate[m] = st /\ GIstate'[m] = Following(st)
      /\ \A p \in Models \ {m} : GIstate'[p] = GIstate[p]
  BY <1>1, GoToTyped
<1>3. CASE n # m
  BY <1>1, <1>2, <1>3, UntouchedModel
<1>4. CASE n = m
  <2>1. ModelOK(Following(st), GI[m], seeds[m], dinAggregators[m], dinAuditors[m],
                registrationSlotsReleased[m])
    BY <1>1, <1>2, TypedModel, AdvanceKeepsModel DEF Consistent
  <2> QED
    BY <1>2, <1>4, <2>1 DEF Consistent, ModelOK
<1> QED
  BY <1>3, <1>4

\* Every model starts consistent.
LEMMA InitConsistent == LifecycleInit => \A m \in Models : Consistent(m)
<1> SUFFICES ASSUME LifecycleInit, NEW m \in Models PROVE Consistent(m)
  OBVIOUS
<1>1. /\ GIstate[m] = "AwaitingDINTaskAuditorToBeSet" /\ GI[m] = 0
      /\ \A k \in Seeds : seeds[m][k].status = "unanchored"
      /\ \A g \in 1..MaxGI : dinAggregators[m][g] = {} /\ dinAuditors[m][g] = {}
      /\ registrationSlotsReleased[m] = {}
  BY DEF LifecycleInit, NoSeed
<1>2. Ordinal[GIstate[m]] = 1 /\ "audit" \in Seeds
  BY <1>1, NamedOrdinals, AnchorStates
<1>3. \A k \in Seeds : GIstate[m] # AnchoredIn[k]
  BY <1>1, AnchorStates
<1> QED
  BY <1>1, <1>2, <1>3 DEF Consistent, ModelOK

\* No step makes a model inconsistent, one case per action.
LEMMA StepConsistent ==
    ASSUME LifecycleInv, [LifecycleNext]_lifeVars, NEW n \in Models
    PROVE  Consistent(n)'
<1>t. LifecycleTypeOK /\ Consistent(n)
  BY DEF LifecycleInv
<1>0. ASSUME UNCHANGED <<GIstate, GI, seeds, dinAggregators, dinAuditors,
                         registrationSlotsReleased>>
      PROVE  Consistent(n)'
  BY <1>t, <1>0, UntouchedModel
<1>1. ASSUME NEW m \in Models, MoveOn(m) PROVE Consistent(n)'
  <2>1. PICK st \in PlainStates : GoTo(m, st)
    BY <1>1 DEF MoveOn
  <2>2. UNCHANGED <<GI, seeds, dinAggregators, dinAuditors, registrationSlotsReleased>>
    BY <1>1 DEF MoveOn, members
  <2> QED
    BY <2>1, <2>2, PlainOrdinals, AdvanceConsistent
<1>2. ASSUME NEW m \in Models,
             SetDINTaskCoordinatorAsSlasher(m) \/ SetDINTaskAuditorAsSlasher(m)
      PROVE  Consistent(n)'
  <2>1. PICK st \in {"AwaitingDINTaskCoordinatorAsSlasher",
                     "AwaitingDINTaskAuditorAsSlasher"} : GoTo(m, st)
    BY <1>2 DEF SetDINTaskCoordinatorAsSlasher, SetDINTaskAuditorAsSlasher
  <2>2. UNCHANGED <<GI, seeds, dinAggregators, dinAuditors, registrationSlotsReleased>>
    BY <1>2 DEF SetDINTaskCoordinatorAsSlasher, SetDINTaskAuditorAsSlasher, members
  <2>3. st \in StateNames /\ Ordinal[st] \in {2, 3}
    BY NamedTyped, NamedOrdinals
  <2> QED
    BY <2>1, <2>2, <2>3, AdvanceConsistent
<1>3. ASSUME NEW m \in Models, StartGI(m) PROVE Consistent(n)'
  <2>1. /\ GIstate' = [GIstate EXCEPT ![m] = "GIstarted"]
        /\ GI' = [GI EXCEPT ![m] = @ + 1]
        /\ seeds' = [seeds EXCEPT ![m] = [k \in Seeds |-> NoSeed]]
        /\ UNCHANGED <<dinAggregators, dinAuditors, registrationSlotsReleased>>
    BY <1>3 DEF StartGI, members
  <2>2. CASE n # m
    BY <1>t, <2>1, <2>2, UntouchedModel DEF LifecycleTypeOK
  <2>3. CASE n = m
    <3>1. ModelOK("GIstarted", GI[m] + 1, [k \in Seeds |-> NoSeed], dinAggregators[m],
                  dinAuditors[m], registrationSlotsReleased[m])
      BY <1>t, <2>3, TypedModel, StartKeepsModel DEF Consistent
    <3>2. /\ GIstate'[n] = "GIstarted" /\ GI'[n] = GI[m] + 1
          /\ seeds'[n] = [k \in Seeds |-> NoSeed]
      BY <1>t, <2>1, <2>3 DEF LifecycleTypeOK
    <3> QED
      BY <2>1, <2>3, <3>1, <3>2 DEF Consistent, ModelOK
  <2> QED
    BY <2>2, <2>3
<1>4. ASSUME NEW m \in Models, NEW k \in Seeds, NEW st \in StateNames, AnchorSeed(m, k, st),
             Ordinal[st] \in {11, 17}, Following(st) = AnchoredIn[k]
      PROVE  Consistent(n)'
  <2>1. /\ GIstate[m] = st /\ GIstate'[m] = Following(st)
        /\ \A p \in Models \ {m} : GIstate'[p] = GIstate[p]
    BY <1>t, <1>4, GoToTyped DEF AnchorSeed
  <2>2. /\ seeds' = [seeds EXCEPT ![m][k] = FreshSeed]
        /\ UNCHANGED <<GI, dinAggregators, dinAuditors, registrationSlotsReleased>>
    BY <1>4 DEF AnchorSeed, members
  <2>3. /\ seeds \in [Models -> [Seeds -> Seed]]
        /\ FreshSeed \in Seed
    BY <1>t, SeedTypes DEF LifecycleTypeOK
  <2>4. /\ seeds'[m] = [seeds[m] EXCEPT ![k] = FreshSeed]
        /\ \A p \in Models \ {m} : seeds'[p] = seeds[p]
    BY <2>2, <2>3, SeedUpdateTyped
  <2>5. CASE n # m
    BY <1>t, <2>1, <2>2, <2>4, <2>5, UntouchedModel
  <2>6. CASE n = m
    <3>1. PICK new : new = [seeds[m] EXCEPT ![k] = FreshSeed]
      OBVIOUS
    <3>2. new \in [Seeds -> Seed]
      BY <2>3, <3>1
    <3>3. new[k].status = "anchored" /\ \A j \in Seeds \ {k} : new[j].status = seeds[m][j].status
      BY <2>3, <3>1 DEF FreshSeed
    <3>4. /\ ModelTyped(st, GI[m], seeds[m], dinAggregators[m], dinAuditors[m],
                        registrationSlotsReleased[m])
          /\ ModelOK(st, GI[m], seeds[m], dinAggregators[m], dinAuditors[m],
                     registrationSlotsReleased[m])
      BY <1>t, <2>1, <2>6, TypedModel DEF Consistent
    <3>5. ModelOK(Following(st), GI[m], new, dinAggregators[m], dinAuditors[m],
                  registrationSlotsReleased[m])
      BY <1>4, <3>2, <3>3, <3>4, AnchorKeepsModel
    <3> QED
      BY <2>1, <2>2, <2>4, <2>6, <3>1, <3>5 DEF Consistent, ModelOK
  <2> QED
    BY <2>5, <2>6
<1>5. ASSUME NEW m \in Models, NEW k \in Seeds, LockSeed(m, k) PROVE Consistent(n)'
  <2>1. /\ seeds[m][k].status = "anchored"
        /\ seeds' = [seeds EXCEPT ![m][k].status = "locked"]
        /\ GIstate' = [GIstate EXCEPT ![m] = Following(AnchoredIn[k])]
        /\ UNCHANGED <<GI, dinAggregators, dinAuditors, registrationSlotsReleased>>
    BY <1>5 DEF LockSeed, Lockable, members
  <2>2. /\ seeds \in [Models -> [Seeds -> Seed]] /\ seeds[m][k] \in Seed
        /\ GIstate \in [Models -> StateNames]
    BY <1>t DEF LifecycleTypeOK
  <2>3. PICK s \in Seed : s = [seeds[m][k] EXCEPT !.status = "locked"]
    BY <2>2, SeedTypes
  <2>4. s.status = "locked"
    BY <2>2, <2>3 DEF Seed
  <2>5. seeds' = [seeds EXCEPT ![m][k] = s]
    BY <2>1, <2>3
  <2>6. /\ seeds'[m] = [seeds[m] EXCEPT ![k] = s]
        /\ \A p \in Models \ {m} : seeds'[p] = seeds[p]
    BY <2>2, <2>5, SeedUpdateTyped
  <2>7. CASE n # m
    BY <1>t, <2>1, <2>2, <2>6, <2>7, UntouchedModel
  <2>8. CASE n = m
    <3>1. PICK new : new = [seeds[m] EXCEPT ![k] = s]
      OBVIOUS
    <3>2. new \in [Seeds -> Seed] /\ new[k].status = "locked"
      BY <2>2, <2>4, <3>1
    <3>3. \A j \in Seeds \ {k} : new[j] = seeds[m][j]
      BY <2>2, <3>1
    <3>4. /\ ModelTyped(GIstate[m], GI[m], seeds[m], dinAggregators[m], dinAuditors[m],
                        registrationSlotsReleased[m])
          /\ ModelOK(GIstate[m], GI[m], seeds[m], dinAggregators[m], dinAuditors[m],
                     registrationSlotsReleased[m])
      BY <1>t, <2>8, TypedModel DEF Consistent
    <3>0. /\ seeds[m][k].status = "anchored"
          /\ UNCHANGED <<GI, dinAggregators, dinAuditors, registrationSlotsReleased>>
      BY <2>1
    <3>5. ModelOK(Following(AnchoredIn[k]), GI[m], new, dinAggregators[m], dinAuditors[m],
                  registrationSlotsReleased[m])
      BY <3>0, <3>2, <3>3, <3>4, LockKeepsModel, SMTT(30)
    <3>6. GIstate'[m] = Following(AnchoredIn[k])
      BY <2>1, <2>2
    <3> QED
      BY <2>6, <2>8, <3>0, <3>1, <3>5, <3>6 DEF Consistent, ModelOK
  <2> QED
    BY <2>7, <2>8
<1>6. ASSUME \A k \in Seeds : seeds'[n][k].status = seeds[n][k].status,
             UNCHANGED <<GIstate, GI, dinAggregators, dinAuditors, registrationSlotsReleased>>
      PROVE  Consistent(n)'
  <2>1. ModelOK(GIstate[n], GI[n], seeds[n], dinAggregators[n], dinAuditors[n],
                registrationSlotsReleased[n])
    BY <1>t DEF Consistent
  <2>2. ModelOK(GIstate[n], GI[n], seeds'[n], dinAggregators[n], dinAuditors[n],
                registrationSlotsReleased[n])
    BY <1>6, <2>1, AgeingKeepsModel
  <2> QED
    BY <1>6, <2>2 DEF Consistent, ModelOK
<1>7. ASSUME NEW m \in Models, NEW k \in Seeds, ReanchorSeed(m, k) PROVE Consistent(n)'
  <2>1. /\ seeds[m][k].status = "anchored"
        /\ seeds' = [seeds EXCEPT ![m][k] = FreshSeed]
        /\ UNCHANGED <<GIstate, GI, dinAggregators, dinAuditors, registrationSlotsReleased>>
    BY <1>7 DEF ReanchorSeed, Reanchored, members
  <2>2. \A j \in Seeds : seeds'[n][j].status = seeds[n][j].status
    BY <1>t, <2>1 DEF LifecycleTypeOK, FreshSeed
  <2> QED
    BY <1>6, <2>1, <2>2
<1>8. ASSUME NextBlock PROVE Consistent(n)'
  <2>1. ASSUME NEW j \in Seeds PROVE seeds'[n][j].status = seeds[n][j].status
    <3>1. seeds[n][j] \in Seed
      BY <1>t DEF LifecycleTypeOK
    <3>2. seeds'[n][j] = IF seeds[n][j].status = "anchored" /\ seeds[n][j].age <= SeedWindow
                         THEN [seeds[n][j] EXCEPT !.age = @ + 1] ELSE seeds[n][j]
      BY <1>8 DEF NextBlock
    <3> QED
      BY <3>1, <3>2 DEF Seed
  <2>2. UNCHANGED <<GIstate, GI, dinAggregators, dinAuditors, registrationSlotsReleased>>
    BY <1>8 DEF NextBlock, members
  <2> QED
    BY <1>6, <2>1, <2>2
<1>9. ASSUME NEW m \in Models, NEW v \in Validators, NEW stake, RegisterDINaggregator(m, v, stake)
      PROVE  Consistent(n)'
  <2>1. /\ GIstate[m] = "DINaggregatorsRegistrationStarted"
        /\ dinAggregators' = [dinAggregators EXCEPT ![m][GI[m]] = @ \cup {v}]
        /\ UNCHANGED <<GIstate, GI, seeds, dinAuditors, registrationSlotsReleased>>
    BY <1>9 DEF RegisterDINaggregator
  <2>2. /\ GI[m] \in 0..MaxGI
        /\ dinAggregators \in [Models -> [1..MaxGI -> SUBSET Validators]]
    BY <1>t DEF LifecycleTypeOK
  <2>3. ListGains(dinAggregators, dinAggregators', m, GI[m], v)
    BY <2>1, <2>2, ListUpdated, ZenonT(30)
  <2>4. CASE n # m
    <3>1. dinAggregators'[n] = dinAggregators[n]
      BY <2>3, <2>4 DEF ListGains
    <3> QED
      BY <1>t, <2>1, <3>1, UntouchedModel
  <2>5. CASE n = m
    <3>1. ModelOK(GIstate[m], GI[m], seeds[m], dinAggregators[m], dinAuditors[m],
                  registrationSlotsReleased[m])
      BY <1>t, <2>5 DEF Consistent
    <3>2. PICK new : new = dinAggregators'[m]
      OBVIOUS
    <3>3. \A g \in 1..MaxGI : new[g] = IF g = GI[m] THEN dinAggregators[m][g] \cup {v}
                                                    ELSE dinAggregators[m][g]
      BY <2>3, <3>2 DEF ListGains
    <3>4. ModelOK(GIstate[m], GI[m], seeds[m], new, dinAuditors[m],
                  registrationSlotsReleased[m])
      BY <1>t, <2>1, <3>1, <3>3, TypedModel, AggregatorKeepsModel, ZenonT(30)
    <3> QED
      BY <2>1, <2>5, <3>2, <3>4 DEF Consistent, ModelOK
  <2> QED
    BY <2>4, <2>5
<1>10. ASSUME NEW m \in Models, NEW v \in Validators, NEW stake, RegisterDINAuditor(m, v, stake)
       PROVE  Consistent(n)'
  <2>1. /\ GIstate[m] = "DINauditorsRegistrationStarted"
        /\ v \notin dinAggregators[m][GI[m]]
        /\ dinAuditors' = [dinAuditors EXCEPT ![m][GI[m]] = @ \cup {v}]
        /\ UNCHANGED <<GIstate, GI, seeds, dinAggregators, registrationSlotsReleased>>
    BY <1>10 DEF RegisterDINAuditor, OpenToAuditor
  <2>2. /\ GI[m] \in 0..MaxGI
        /\ dinAuditors \in [Models -> [1..MaxGI -> SUBSET Validators]]
    BY <1>t DEF LifecycleTypeOK
  <2>3. ListGains(dinAuditors, dinAuditors', m, GI[m], v)
    BY <2>1, <2>2, ListUpdated, ZenonT(30)
  <2>4. CASE n # m
    <3>1. dinAuditors'[n] = dinAuditors[n]
      BY <2>3, <2>4 DEF ListGains
    <3> QED
      BY <1>t, <2>1, <3>1, UntouchedModel
  <2>5. CASE n = m
    <3>1. ModelOK(GIstate[m], GI[m], seeds[m], dinAggregators[m], dinAuditors[m],
                  registrationSlotsReleased[m])
      BY <1>t, <2>5 DEF Consistent
    <3>2. PICK new : new = dinAuditors'[m]
      OBVIOUS
    <3>3. \A g \in 1..MaxGI : new[g] = IF g = GI[m] THEN dinAuditors[m][g] \cup {v}
                                                    ELSE dinAuditors[m][g]
      BY <2>3, <3>2 DEF ListGains
    <3>4. ModelOK(GIstate[m], GI[m], seeds[m], dinAggregators[m], new,
                  registrationSlotsReleased[m])
      BY <1>t, <2>1, <3>1, <3>3, TypedModel, AuditorKeepsModel, ZenonT(30)
    <3> QED
      BY <2>1, <2>5, <3>2, <3>4 DEF Consistent, ModelOK
  <2> QED
    BY <2>4, <2>5
<1>11. ASSUME NEW m \in Models, NEW g \in 1..MaxGI, ReleaseGIRegistrationSlots(m, g)
       PROVE  Consistent(n)'
  <2>1. /\ g < GI[m] \/ (g = GI[m] /\ GIstate[m] = "GIended")
        /\ registrationSlotsReleased' = [registrationSlotsReleased EXCEPT ![m] = @ \cup {g}]
        /\ UNCHANGED <<GIstate, GI, seeds, dinAggregators, dinAuditors>>
    BY <1>11 DEF ReleaseGIRegistrationSlots, Ended
  <2>2. CASE n # m
    BY <1>t, <2>1, <2>2, UntouchedModel DEF LifecycleTypeOK
  <2>3. CASE n = m
    <3>1. ModelOK(GIstate[m], GI[m], seeds[m], dinAggregators[m], dinAuditors[m],
                  registrationSlotsReleased[m] \cup {g})
      BY <1>t, <2>1, <2>3, ReleaseKeepsModel DEF Consistent
    <3>2. registrationSlotsReleased'[m] = registrationSlotsReleased[m] \cup {g}
      BY <1>t, <2>1 DEF LifecycleTypeOK
    <3> QED
      BY <2>1, <2>3, <3>1, <3>2 DEF Consistent, ModelOK
  <2> QED
    BY <2>2, <2>3
<1>12. ASSUME NEW m \in Models, OwnerStep(m) PROVE Consistent(n)'
  <2>1. /\ "LMSstarted" \in StateNames /\ Ordinal["LMSstarted"] = 11
        /\ "LMSevaluationRevealStarted" \in StateNames
        /\ Ordinal["LMSevaluationRevealStarted"] = 17
    BY NamedTyped, NamedOrdinals
  <2>2. /\ Following("LMSstarted") = AnchoredIn["audit"]
        /\ Following("LMSevaluationRevealStarted") = AnchoredIn["agg"]
        /\ "audit" \in Seeds /\ "agg" \in Seeds
    BY NamedStates, FollowingOf, AnchorStates
  <2>3. ASSUME CloseLMsubmissions(m) PROVE Consistent(n)'
    BY <1>4, <2>1, <2>2, <2>3 DEF CloseLMsubmissions
  <2>4. ASSUME CloseLMsubmissionsEvaluation(m) PROVE Consistent(n)'
    BY <1>4, <2>1, <2>2, <2>4 DEF CloseLMsubmissionsEvaluation
  <2> QED
    BY <1>1, <1>2, <1>3, <1>11, <1>12, <2>3, <2>4 DEF OwnerStep
<1>13. ASSUME NEW iteration \in Fundable, DepositRewards(iteration[1], iteration[2])
       PROVE  Consistent(n)'
  BY <1>0, <1>13 DEF DepositRewards, members
<1>14. ASSUME PlatformStep PROVE Consistent(n)'
  BY <1>0, <1>14 DEF PlatformStep, AddSlasherContract, RemoveSlasherContract,
     SetModelStakeBounds, SetMaxConcurrentRegistrationsPerStakeUnit, members
<1>15. ASSUME UNCHANGED lifeVars PROVE Consistent(n)'
  BY <1>0, <1>15 DEF lifeVars, members
<1>16. ASSUME NEW m \in Models, NEW v \in Validators, ValidatorStep(m, v) PROVE Consistent(n)'
  BY <1>9, <1>10, <1>16 DEF ValidatorStep
<1> QED
  BY <1>5, <1>7, <1>8, <1>12, <1>13, <1>14, <1>15, <1>16 DEF LifecycleNext

\* Every reachable state has the types of the model.
THEOREM LifecycleTypeCorrect == LifecycleSpec => []LifecycleTypeOK
<1>1. LifecycleInit => LifecycleTypeOK
  BY InitTypeOK
<1>2. LifecycleTypeOK /\ [LifecycleNext]_lifeVars => LifecycleTypeOK'
  BY StepTypeOK
<1> QED
  BY <1>1, <1>2, PTL DEF LifecycleSpec

\* The invariant the properties below follow from.
THEOREM LifecycleInvariance == LifecycleSpec => []LifecycleInv
<1>1. LifecycleInit => LifecycleInv
  BY InitTypeOK, InitConsistent DEF LifecycleInv
<1>2. LifecycleInv /\ [LifecycleNext]_lifeVars => LifecycleInv'
  <2> SUFFICES ASSUME LifecycleInv, [LifecycleNext]_lifeVars PROVE LifecycleInv'
    OBVIOUS
  <2>1. LifecycleTypeOK'
    BY StepTypeOK DEF LifecycleInv
  <2>2. (\A m \in Models : Consistent(m))'
    BY StepConsistent
  <2> QED
    BY <2>1, <2>2 DEF LifecycleInv
<1> QED
  BY <1>1, <1>2, PTL DEF LifecycleSpec

\* In no iteration of any model does a validator audit what it aggregates.
THEOREM NobodyHasBothRoles == LifecycleSpec => []NoDualRole
<1>1. LifecycleInv => NoDualRole
  BY DEF LifecycleInv, Consistent, ModelOK, NoDualRole
<1> QED
  BY <1>1, LifecycleInvariance, PTL

\* A seed waits for its lock in the state that anchored it, and nowhere else:
\* lockAuditSeed and lockAggSeed may leave the state unchecked.
THEOREM SeedStateCorrect == LifecycleSpec => []SeedWaitsInItsState
<1>1. LifecycleInv => SeedWaitsInItsState
  BY DEF LifecycleInv, Consistent, ModelOK, SeedWaitsInItsState
<1> QED
  BY <1>1, LifecycleInvariance, PTL
-----------------------------------------------------------------------------
(* What a step may never do. *)

\* A call that goes to the next state moves the iteration forward.
LEMMA GoToAdvances ==
    ASSUME LifecycleInv, NEW m \in Models, NEW st \in StateNames, Ordinal[st] # 29,
           GoTo(m, st), NEW n \in Models
    PROVE  Ordinal[GIstate'[n]] >= Ordinal[GIstate[n]]
<1>1. LifecycleTypeOK /\ GIstate[n] \in StateNames
  BY DEF LifecycleInv, LifecycleTypeOK
<1>2. /\ GIstate[m] = st /\ GIstate'[m] = Following(st)
      /\ \A p \in Models \ {m} : GIstate'[p] = GIstate[p]
  BY <1>1, GoToTyped
<1>3. Ordinal[Following(st)] = Ordinal[st] + 1 /\ Ordinal[st] \in 1..29
  BY FollowingOrdinal, StateOf
<1>4. Ordinal[GIstate[n]] \in 1..29
  BY <1>1, StateOf
<1> QED
  BY <1>2, <1>3, <1>4

\* No step takes an iteration back, one case per action.
LEMMA StepAdvances ==
    ASSUME LifecycleInv, [LifecycleNext]_lifeVars, NEW n \in Models
    PROVE  \/ GI'[n] > GI[n]
           \/ GI'[n] = GI[n] /\ Ordinal[GIstate'[n]] >= Ordinal[GIstate[n]]
<1> DEFINE Advances == \/ GI'[n] > GI[n]
                       \/ GI'[n] = GI[n] /\ Ordinal[GIstate'[n]] >= Ordinal[GIstate[n]]
<1> SUFFICES Advances
  OBVIOUS
<1>t. /\ LifecycleTypeOK
      /\ GI \in [Models -> 0..MaxGI] /\ GIstate \in [Models -> StateNames]
      /\ GI[n] \in Nat
      /\ Ordinal[GIstate[n]] \in 1..29
  BY StateOf, LifecycleAssumption DEF LifecycleInv, LifecycleTypeOK
<1>0. ASSUME UNCHANGED <<GIstate, GI>> PROVE Advances
  BY <1>t, <1>0
<1>1. ASSUME NEW m \in Models, NEW st \in StateNames, Ordinal[st] # 29, GoTo(m, st),
             UNCHANGED GI
      PROVE  Advances
  BY <1>1, GoToAdvances
<1>2. ASSUME NEW m \in Models, MoveOn(m) PROVE Advances
  <2>1. PICK st \in PlainStates : GoTo(m, st)
    BY <1>2 DEF MoveOn
  <2>2. st \in StateNames /\ Ordinal[st] # 29 /\ UNCHANGED GI
    BY <1>2, PlainOrdinals DEF MoveOn
  <2> QED
    BY <1>1, <2>1, <2>2
<1>3. ASSUME NEW m \in Models, SetDINTaskCoordinatorAsSlasher(m) PROVE Advances
  BY <1>1, <1>3, NamedTyped DEF SetDINTaskCoordinatorAsSlasher
<1>4. ASSUME NEW m \in Models, SetDINTaskAuditorAsSlasher(m) PROVE Advances
  BY <1>1, <1>4, NamedTyped DEF SetDINTaskAuditorAsSlasher
<1>5. ASSUME NEW m \in Models, CloseLMsubmissions(m) PROVE Advances
  BY <1>1, <1>5, NamedTyped DEF CloseLMsubmissions, AnchorSeed
<1>6. ASSUME NEW m \in Models, CloseLMsubmissionsEvaluation(m) PROVE Advances
  BY <1>1, <1>6, NamedTyped DEF CloseLMsubmissionsEvaluation, AnchorSeed
<1>7. ASSUME NEW m \in Models, StartGI(m) PROVE Advances
  <2>1. GI' = [GI EXCEPT ![m] = @ + 1] /\ GIstate' = [GIstate EXCEPT ![m] = "GIstarted"]
    BY <1>7 DEF StartGI
  <2> QED
    BY <1>t, <2>1
<1>8. ASSUME NEW m \in Models, NEW k \in Seeds, LockSeed(m, k) PROVE Advances
  <2>1. /\ seeds[m][k].status = "anchored"
        /\ GIstate' = [GIstate EXCEPT ![m] = Following(AnchoredIn[k])]
        /\ UNCHANGED GI
    BY <1>8 DEF LockSeed, Lockable
  <2>2. GIstate[m] = AnchoredIn[k]
    BY <2>1 DEF LifecycleInv, Consistent, ModelOK
  <2>3. AnchoredIn[k] \in StateNames /\ Ordinal[AnchoredIn[k]] # 29
    BY NamedTyped, AnchorStates
  <2>4. GoTo(m, AnchoredIn[k])
    BY <2>1, <2>2 DEF GoTo
  <2> QED
    BY <1>1, <2>1, <2>3, <2>4
<1>9. ASSUME NEW m \in Models, OwnerStep(m) PROVE Advances
  BY <1>0, <1>2, <1>3, <1>4, <1>5, <1>6, <1>7, <1>9 DEF OwnerStep, ReleaseGIRegistrationSlots
<1>10. ASSUME NEW m \in Models, NEW v \in Validators, ValidatorStep(m, v) PROVE Advances
  BY <1>0, <1>10 DEF ValidatorStep, RegisterDINaggregator, RegisterDINAuditor
<1>11. ASSUME NEW m \in Models, NEW k \in Seeds, ReanchorSeed(m, k) PROVE Advances
  BY <1>0, <1>11 DEF ReanchorSeed
<1>12. ASSUME NEW iteration \in Fundable, DepositRewards(iteration[1], iteration[2])
       PROVE  Advances
  BY <1>0, <1>12 DEF DepositRewards
<1>13. ASSUME PlatformStep PROVE Advances
  BY <1>0, <1>13 DEF PlatformStep, AddSlasherContract, RemoveSlasherContract,
     SetModelStakeBounds, SetMaxConcurrentRegistrationsPerStakeUnit
<1>14. ASSUME NextBlock PROVE Advances
  BY <1>0, <1>14 DEF NextBlock
<1>15. ASSUME UNCHANGED lifeVars PROVE Advances
  BY <1>0, <1>15 DEF lifeVars
<1> HIDE DEF Advances
<1> QED
  BY <1>8, <1>9, <1>10, <1>11, <1>12, <1>13, <1>14, <1>15 DEF LifecycleNext

\* An iteration never goes back, whoever locks the seeds and whenever.
THEOREM IterationsOnlyAdvance == LifecycleSpec => GIOnlyAdvances
<1>1. LifecycleInv /\ [LifecycleNext]_lifeVars =>
        [\A m \in Models :
            \/ GI'[m] > GI[m]
            \/ GI'[m] = GI[m] /\ Ordinal[GIstate'[m]] >= Ordinal[GIstate[m]]]_lifeVars
  BY StepAdvances
<1> QED
  BY <1>1, LifecycleInvariance, PTL DEF LifecycleSpec, GIOnlyAdvances

\* The steps that touch the lists, the releases or the counter.
LEMMA MembershipSteps ==
    ASSUME [LifecycleNext]_lifeVars
    PROVE  \/ \E m \in Models, v \in Validators, stake \in Stakes : RegisterDINaggregator(m, v, stake)
           \/ \E m \in Models, v \in Validators, stake \in Stakes : RegisterDINAuditor(m, v, stake)
           \/ \E m \in Models, g \in 1..MaxGI : ReleaseGIRegistrationSlots(m, g)
           \/ UNCHANGED members
<1>1. ASSUME NEW m \in Models, OwnerStep(m)
      PROVE  (\E g \in 1..MaxGI : ReleaseGIRegistrationSlots(m, g)) \/ UNCHANGED members
  BY <1>1 DEF OwnerStep, MoveOn, SetDINTaskCoordinatorAsSlasher, SetDINTaskAuditorAsSlasher,
     StartGI, CloseLMsubmissions, CloseLMsubmissionsEvaluation, AnchorSeed
<1>2. ASSUME NEW m \in Models, NEW k \in Seeds, LockSeed(m, k) \/ ReanchorSeed(m, k)
      PROVE  UNCHANGED members
  BY <1>2 DEF LockSeed, ReanchorSeed
<1>3. ASSUME NEW iteration \in Fundable, DepositRewards(iteration[1], iteration[2])
      PROVE  UNCHANGED members
  BY <1>3 DEF DepositRewards
<1>4. ASSUME PlatformStep PROVE UNCHANGED members
  BY <1>4 DEF PlatformStep, AddSlasherContract, RemoveSlasherContract,
     SetModelStakeBounds, SetMaxConcurrentRegistrationsPerStakeUnit
<1>5. ASSUME NextBlock PROVE UNCHANGED members
  BY <1>5 DEF NextBlock
<1>6. ASSUME UNCHANGED lifeVars PROVE UNCHANGED members
  BY <1>6 DEF lifeVars
<1> QED
  BY <1>1, <1>2, <1>3, <1>4, <1>5, <1>6 DEF LifecycleNext, ValidatorStep

\* The lists of an iteration that is over, or whose audit seed is anchored,
\* are out of reach of the registrations.
LEMMA StepKeepsMembers ==
    ASSUME LifecycleInv, [LifecycleNext]_lifeVars, NEW n \in Models, NEW g \in 1..MaxGI,
           g < GI[n] \/ (g = GI[n] /\ seeds[n]["audit"].status # "unanchored")
    PROVE  dinAggregators'[n][g] = dinAggregators[n][g] /\ dinAuditors'[n][g] = dinAuditors[n][g]
<1>1. CASE UNCHANGED <<dinAggregators, dinAuditors>>
  BY <1>1
<1>2. ASSUME NEW m \in Models, NEW lists, NEW v, NEW new, ListGains(lists, new, m, GI[m], v),
             GIstate[m] \in {"DINaggregatorsRegistrationStarted",
                             "DINauditorsRegistrationStarted"}
      PROVE  new[n][g] = lists[n][g]
  <2>1. GI[m] \in 0..MaxGI /\ GI[n] \in 0..MaxGI
    BY DEF LifecycleInv, LifecycleTypeOK
  <2>3. CASE n # m
    BY <1>2, <2>3 DEF ListGains
  <2>4. CASE n = m
    <3>1. Ordinal[GIstate[m]] \in {7, 9}
      BY <1>2, NamedOrdinals
    <3>2. seeds[m]["audit"].status = "unanchored"
      BY <3>1 DEF LifecycleInv, Consistent, ModelOK
    <3>3. g < GI[m]
      BY <2>4, <3>2
    <3>4. g # GI[m]
      BY <2>1, <3>3
    <3> QED
      BY <1>2, <2>4, <3>4 DEF ListGains
  <2> QED
    BY <2>3, <2>4
<1>3. /\ dinAggregators \in [Models -> [1..MaxGI -> SUBSET Validators]]
      /\ dinAuditors \in [Models -> [1..MaxGI -> SUBSET Validators]]
      /\ \A m \in Models : GI[m] \in 0..MaxGI
  BY DEF LifecycleInv, LifecycleTypeOK
<1>4. CASE \E m \in Models, v \in Validators, stake \in Stakes : RegisterDINaggregator(m, v, stake)
  <2>1. PICK m \in Models, v \in Validators, stake \in Stakes : RegisterDINaggregator(m, v, stake)
    BY <1>4
  <2>2. /\ dinAggregators' = [dinAggregators EXCEPT ![m][GI[m]] = @ \cup {v}]
        /\ GIstate[m] = "DINaggregatorsRegistrationStarted"
        /\ dinAuditors' = dinAuditors
    BY <2>1 DEF RegisterDINaggregator
  <2>3. GIstate[m] \in {"DINaggregatorsRegistrationStarted", "DINauditorsRegistrationStarted"}
    BY <2>2
  <2>4. ListGains(dinAggregators, dinAggregators', m, GI[m], v)
    BY <1>3, <2>2, ListUpdated, ZenonT(30)
  <2>5. dinAggregators'[n][g] = dinAggregators[n][g]
    BY <1>2, <2>3, <2>4
  <2> QED
    BY <2>2, <2>5
<1>5. CASE \E m \in Models, v \in Validators, stake \in Stakes : RegisterDINAuditor(m, v, stake)
  <2>1. PICK m \in Models, v \in Validators, stake \in Stakes : RegisterDINAuditor(m, v, stake)
    BY <1>5
  <2>2. /\ dinAuditors' = [dinAuditors EXCEPT ![m][GI[m]] = @ \cup {v}]
        /\ GIstate[m] = "DINauditorsRegistrationStarted"
        /\ dinAggregators' = dinAggregators
    BY <2>1 DEF RegisterDINAuditor, OpenToAuditor
  <2>3. GIstate[m] \in {"DINaggregatorsRegistrationStarted", "DINauditorsRegistrationStarted"}
    BY <2>2
  <2>4. ListGains(dinAuditors, dinAuditors', m, GI[m], v)
    BY <1>3, <2>2, ListUpdated, ZenonT(30)
  <2>5. dinAuditors'[n][g] = dinAuditors[n][g]
    BY <1>2, <2>3, <2>4
  <2> QED
    BY <2>2, <2>5
<1>6. CASE \E m \in Models, h \in 1..MaxGI : ReleaseGIRegistrationSlots(m, h)
  BY <1>1, <1>6 DEF ReleaseGIRegistrationSlots
<1>7. CASE UNCHANGED members
  BY <1>1, <1>7 DEF members
<1> QED
  BY <1>4, <1>5, <1>6, <1>7, MembershipSteps

\* Who takes part is settled before the block that draws the assignment is.
THEOREM MembersSettledBeforeSeed == LifecycleSpec => MembersFixedBeforeSeed
<1>1. LifecycleInv /\ [LifecycleNext]_lifeVars =>
        [\A m \in Models, g \in 1..MaxGI :
            g < GI[m] \/ (g = GI[m] /\ seeds[m]["audit"].status # "unanchored")
              => /\ dinAggregators'[m][g] = dinAggregators[m][g]
                 /\ dinAuditors'[m][g] = dinAuditors[m][g]]_lifeVars
  BY StepKeepsMembers
<1> QED
  BY <1>1, LifecycleInvariance, PTL DEF LifecycleSpec, MembersFixedBeforeSeed
-----------------------------------------------------------------------------
(* The slots, as a function of the lists and of the releases. *)

Held(aggs, auds, rel) ==
    {slot \in TaskContracts \X (1..MaxGI) \X Validators :
        /\ slot[2] \notin rel[slot[1][1]]
        /\ slot[3] \in IF slot[1][2] = "coordinator"
                       THEN aggs[slot[1][1]][slot[2]] ELSE auds[slot[1][1]][slot[2]]}

\* HeldSlots is that function of the current lists and releases.
LEMMA HeldSlotsHeld ==
    HeldSlots = Held(dinAggregators, dinAuditors, registrationSlotsReleased)
  BY DEF HeldSlots, Held

\* What is in it, register by register.
LEMMA HeldMember ==
    ASSUME NEW aggs, NEW auds, NEW rel
    PROVE  /\ \A slot \in Held(aggs, auds, rel) :
                \E m \in Models, role \in {"coordinator", "auditor"}, g \in 1..MaxGI,
                   v \in Validators : slot = <<<<m, role>>, g, v>>
           /\ \A m \in Models, g \in 1..MaxGI, v \in Validators :
                /\ <<<<m, "coordinator">>, g, v>> \in Held(aggs, auds, rel) <=>
                       g \notin rel[m] /\ v \in aggs[m][g]
                /\ <<<<m, "auditor">>, g, v>> \in Held(aggs, auds, rel) <=>
                       g \notin rel[m] /\ v \in auds[m][g]
<1>1. \A slot \in TaskContracts \X (1..MaxGI) \X Validators :
        \E m \in Models, role \in {"coordinator", "auditor"}, g \in 1..MaxGI,
           v \in Validators : slot = <<<<m, role>>, g, v>>
  BY DEF TaskContracts
<1>2. ASSUME NEW m \in Models, NEW g \in 1..MaxGI, NEW v \in Validators
      PROVE  /\ <<<<m, "coordinator">>, g, v>> \in Held(aggs, auds, rel) <=>
                    g \notin rel[m] /\ v \in aggs[m][g]
             /\ <<<<m, "auditor">>, g, v>> \in Held(aggs, auds, rel) <=>
                    g \notin rel[m] /\ v \in auds[m][g]
  BY DEF Held, TaskContracts
<1> QED
  BY <1>1, <1>2 DEF Held

\* A set of slots is what it says of each model's registers.
LEMMA SameSlots ==
    ASSUME NEW S, NEW T,
           \A slot \in S \cup T :
              \E m \in Models, role \in {"coordinator", "auditor"}, g \in 1..MaxGI,
                 v \in Validators : slot = <<<<m, role>>, g, v>>,
           \A m \in Models, g \in 1..MaxGI, v \in Validators :
              /\ <<<<m, "coordinator">>, g, v>> \in S <=> <<<<m, "coordinator">>, g, v>> \in T
              /\ <<<<m, "auditor">>, g, v>> \in S <=> <<<<m, "auditor">>, g, v>> \in T
    PROVE  S = T
<1>1. ASSUME NEW slot \in S \cup T PROVE slot \in S <=> slot \in T
  <2>1. PICK m \in Models, role \in {"coordinator", "auditor"}, g \in 1..MaxGI,
             v \in Validators : slot = <<<<m, role>>, g, v>>
    OBVIOUS
  <2>2. role = "coordinator" \/ role = "auditor"
    OBVIOUS
  <2> QED
    BY <2>1, <2>2
<1> QED
  BY <1>1

\* A registration adds one slot.
SlotAdded(old, new, slot) == new = old \cup {slot}

\* The registration of an aggregator.
LEMMA HeldAfterAggregator ==
    ASSUME NEW aggs, NEW auds, NEW rel, NEW new, NEW m \in Models, NEW g \in 1..MaxGI,
           NEW v \in Validators, ListGains(aggs, new, m, g, v), g \notin rel[m]
    PROVE  SlotAdded(Held(aggs, auds, rel), Held(new, auds, rel), <<<<m, "coordinator">>, g, v>>)
<1> DEFINE S == Held(new, auds, rel)
           T == Held(aggs, auds, rel) \cup {<<<<m, "coordinator">>, g, v>>}
<1>1. \A p \in Models, h \in 1..MaxGI :
        new[p][h] = IF p = m /\ h = g THEN aggs[p][h] \cup {v} ELSE aggs[p][h]
  BY DEF ListGains
<1>2. \A slot \in S \cup T :
        \E p \in Models, role \in {"coordinator", "auditor"}, h \in 1..MaxGI,
           w \in Validators : slot = <<<<p, role>>, h, w>>
  BY HeldMember
<1>3. ASSUME NEW p \in Models, NEW h \in 1..MaxGI, NEW w \in Validators
      PROVE  /\ <<<<p, "coordinator">>, h, w>> \in S <=> <<<<p, "coordinator">>, h, w>> \in T
             /\ <<<<p, "auditor">>, h, w>> \in S <=> <<<<p, "auditor">>, h, w>> \in T
  <2>1. w \in new[p][h] <=> w \in aggs[p][h] \/ (p = m /\ h = g /\ w = v)
    BY <1>1
  <2>2. <<<<p, "coordinator">>, h, w>> = <<<<m, "coordinator">>, g, v>> <=>
          p = m /\ h = g /\ w = v
    OBVIOUS
  <2>3. <<<<p, "auditor">>, h, w>> # <<<<m, "coordinator">>, g, v>>
    OBVIOUS
  <2> QED
    BY <2>1, <2>2, <2>3, HeldMember
<1> HIDE DEF S, T
<1>4. S = T
  BY <1>2, <1>3, SameSlots
<1> QED
  BY <1>4 DEF S, T, SlotAdded

\* The registration of an auditor.
LEMMA HeldAfterAuditor ==
    ASSUME NEW aggs, NEW auds, NEW rel, NEW new, NEW m \in Models, NEW g \in 1..MaxGI,
           NEW v \in Validators, ListGains(auds, new, m, g, v), g \notin rel[m]
    PROVE  SlotAdded(Held(aggs, auds, rel), Held(aggs, new, rel), <<<<m, "auditor">>, g, v>>)
<1> DEFINE S == Held(aggs, new, rel)
           T == Held(aggs, auds, rel) \cup {<<<<m, "auditor">>, g, v>>}
<1>1. \A p \in Models, h \in 1..MaxGI :
        new[p][h] = IF p = m /\ h = g THEN auds[p][h] \cup {v} ELSE auds[p][h]
  BY DEF ListGains
<1>2. \A slot \in S \cup T :
        \E p \in Models, role \in {"coordinator", "auditor"}, h \in 1..MaxGI,
           w \in Validators : slot = <<<<p, role>>, h, w>>
  BY HeldMember
<1>3. ASSUME NEW p \in Models, NEW h \in 1..MaxGI, NEW w \in Validators
      PROVE  /\ <<<<p, "coordinator">>, h, w>> \in S <=> <<<<p, "coordinator">>, h, w>> \in T
             /\ <<<<p, "auditor">>, h, w>> \in S <=> <<<<p, "auditor">>, h, w>> \in T
  <2>1. w \in new[p][h] <=> w \in auds[p][h] \/ (p = m /\ h = g /\ w = v)
    BY <1>1
  <2>2. <<<<p, "auditor">>, h, w>> = <<<<m, "auditor">>, g, v>> <=> p = m /\ h = g /\ w = v
    OBVIOUS
  <2>3. <<<<p, "coordinator">>, h, w>> # <<<<m, "auditor">>, g, v>>
    OBVIOUS
  <2> QED
    BY <2>1, <2>2, <2>3, HeldMember
<1> HIDE DEF S, T
<1>4. S = T
  BY <1>2, <1>3, SameSlots
<1> QED
  BY <1>4 DEF S, T, SlotAdded

\* The registers of a model, and the slots one of its iterations gives back.
RegistersOf(m) == {<<m, "coordinator">>, <<m, "auditor">>}
GivenBack(held, m, g) == {slot \in held : slot[1] \in RegistersOf(m) /\ slot[2] = g}

\* A release removes the slots of the iteration, in both lists.
SlotsRemoved(old, new, m, g) == new = old \ GivenBack(old, m, g)

\* The release of iteration g of model m.
LEMMA HeldAfterRelease ==
    ASSUME NEW aggs, NEW auds, NEW rel, NEW m \in Models, NEW g \in 1..MaxGI, NEW new,
           \A p \in Models, h \in 1..MaxGI : h \in new[p] <=> h \in rel[p] \/ (p = m /\ h = g)
    PROVE  SlotsRemoved(Held(aggs, auds, rel), Held(aggs, auds, new), m, g)
<1> DEFINE before == Held(aggs, auds, rel)
           S == Held(aggs, auds, new)
           T == before \ GivenBack(before, m, g)
<1>2. \A slot \in S \cup T :
        \E p \in Models, role \in {"coordinator", "auditor"}, h \in 1..MaxGI,
           w \in Validators : slot = <<<<p, role>>, h, w>>
  BY HeldMember
<1>3. ASSUME NEW p \in Models, NEW h \in 1..MaxGI, NEW w \in Validators
      PROVE  /\ <<<<p, "coordinator">>, h, w>> \in S <=> <<<<p, "coordinator">>, h, w>> \in T
             /\ <<<<p, "auditor">>, h, w>> \in S <=> <<<<p, "auditor">>, h, w>> \in T
  <2>1. ASSUME NEW role \in {"coordinator", "auditor"}
        PROVE  <<<<p, role>>, h, w>> \in T <=>
                 <<<<p, role>>, h, w>> \in before /\ ~ (p = m /\ h = g)
    BY DEF GivenBack, RegistersOf
  <2>2. h \in new[p] <=> h \in rel[p] \/ (p = m /\ h = g)
    OBVIOUS
  <2>3. /\ <<<<p, "coordinator">>, h, w>> \in S <=> h \notin new[p] /\ w \in aggs[p][h]
        /\ <<<<p, "auditor">>, h, w>> \in S <=> h \notin new[p] /\ w \in auds[p][h]
    BY HeldMember
  <2>4. /\ <<<<p, "coordinator">>, h, w>> \in before <=> h \notin rel[p] /\ w \in aggs[p][h]
        /\ <<<<p, "auditor">>, h, w>> \in before <=> h \notin rel[p] /\ w \in auds[p][h]
    BY HeldMember
  <2> HIDE DEF S, T, before
  <2> QED
    BY <2>1, <2>2, <2>3, <2>4, Zenon
<1> HIDE DEF S, T
<1>4. S = T
  BY <1>2, <1>3, SameSlots
<1> QED
  BY <1>4 DEF S, T, SlotsRemoved

-----------------------------------------------------------------------------
(* Counting: the slots of a validator in a finite set of slots. *)

SlotsOf(held, v) == {slot \in held : slot[3] = v}

\* One slot more counts one more for its validator and for nobody else.
LEMMA CountAdded ==
    ASSUME NEW held, IsFiniteSet(held), NEW r, NEW g, NEW v, <<r, g, v>> \notin held, NEW w
    PROVE  /\ IsFiniteSet(held \cup {<<r, g, v>>})
           /\ Cardinality(SlotsOf(held \cup {<<r, g, v>>}, w)) =
                Cardinality(SlotsOf(held, w)) + IF w = v THEN 1 ELSE 0
<1>1. IsFiniteSet(held \cup {<<r, g, v>>})
  BY FS_AddElement
<1>2. SlotsOf(held, w) \in SUBSET held
  BY DEF SlotsOf
<1>3. IsFiniteSet(SlotsOf(held, w)) /\ Cardinality(SlotsOf(held, w)) \in Nat
  BY <1>2, FS_Subset, FS_CardinalityType
<1>4. CASE w = v
  <2>1. SlotsOf(held \cup {<<r, g, v>>}, w) = SlotsOf(held, w) \cup {<<r, g, v>>}
    BY <1>4 DEF SlotsOf
  <2>2. <<r, g, v>> \notin SlotsOf(held, w)
    BY DEF SlotsOf
  <2> QED
    BY <1>1, <1>3, <1>4, <2>1, <2>2, FS_AddElement
<1>5. CASE w # v
  <2>1. SlotsOf(held \cup {<<r, g, v>>}, w) = SlotsOf(held, w)
    BY <1>5 DEF SlotsOf
  <2> QED
    BY <1>1, <1>3, <1>5, <2>1
<1> QED
  BY <1>4, <1>5

\* The slots that go are subtracted, and there are never more of them than held.
LEMMA CountRemoved ==
    ASSUME NEW held, IsFiniteSet(held), NEW gone \in SUBSET held, NEW w
    PROVE  /\ IsFiniteSet(held \ gone)
           /\ Cardinality(SlotsOf(held, w)) \in Nat
           /\ Cardinality(SlotsOf(gone, w)) \in Nat
           /\ Cardinality(SlotsOf(gone, w)) <= Cardinality(SlotsOf(held, w))
           /\ Cardinality(SlotsOf(held \ gone, w)) =
                Cardinality(SlotsOf(held, w)) - Cardinality(SlotsOf(gone, w))
<1>1. IsFiniteSet(held \ gone)
  BY FS_Difference
<1>2. SlotsOf(held, w) \in SUBSET held /\ SlotsOf(gone, w) \in SUBSET SlotsOf(held, w)
  BY DEF SlotsOf
<1>3. IsFiniteSet(SlotsOf(held, w))
  BY <1>2, FS_Subset
<1>4. /\ IsFiniteSet(SlotsOf(gone, w))
      /\ Cardinality(SlotsOf(gone, w)) <= Cardinality(SlotsOf(held, w))
  BY <1>2, <1>3, FS_Subset
<1>5. /\ SlotsOf(held \ gone, w) = SlotsOf(held, w) \ SlotsOf(gone, w)
      /\ SlotsOf(held, w) \cap SlotsOf(gone, w) = SlotsOf(gone, w)
  BY DEF SlotsOf
<1>6. Cardinality(SlotsOf(held, w) \ SlotsOf(gone, w)) =
        Cardinality(SlotsOf(held, w)) - Cardinality(SlotsOf(gone, w))
  BY <1>3, <1>5, FS_Difference
<1> QED
  BY <1>1, <1>3, <1>4, <1>5, <1>6, FS_CardinalityType

\* The loops of the release visit a validator as often as it has slots.
LEMMA UnitsCountSlots ==
    ASSUME LifecycleTypeOK, NEW m \in Models, NEW g \in 1..MaxGI, NEW v \in Validators,
           g \notin registrationSlotsReleased[m]
    PROVE  Cardinality(SlotsOf(GivenBack(HeldSlots, m, g), v)) = Units(m, g, v)
<1> DEFINE c == <<<<m, "coordinator">>, g, v>>
           a == <<<<m, "auditor">>, g, v>>
           S == SlotsOf(GivenBack(HeldSlots, m, g), v)
<1>1. c # a
  OBVIOUS
<1>2. c \in HeldSlots <=> v \in dinAggregators[m][g]
  BY HeldSlotsHeld, HeldMember
<1>3. a \in HeldSlots <=> v \in dinAuditors[m][g]
  BY HeldSlotsHeld, HeldMember
<1>4. S \subseteq {c, a}
  BY HeldSlotsHeld, HeldMember DEF SlotsOf, GivenBack, RegistersOf
<1>5. (c \in S <=> c \in HeldSlots) /\ (a \in S <=> a \in HeldSlots)
  BY DEF SlotsOf, GivenBack, RegistersOf
<1> HIDE DEF c, a, S
<1>6. /\ Cardinality({}) = 0 /\ Cardinality({c}) = 1 /\ Cardinality({a}) = 1
      /\ Cardinality({c} \cup {a}) = 2
  <2>1. IsFiniteSet({c}) /\ Cardinality({c}) = 1 /\ Cardinality({a}) = 1
    BY FS_Singleton
  <2>2. Cardinality({c} \cup {a}) = Cardinality({c}) + 1
    BY <1>1, <2>1, FS_AddElement
  <2> QED
    BY <2>1, <2>2, FS_EmptySet
<1>7. Cardinality(S) = (IF c \in S THEN 1 ELSE 0) + (IF a \in S THEN 1 ELSE 0)
  <2>1. CASE c \in S /\ a \in S
    <3>1. S = {c} \cup {a}
      BY <1>4, <2>1
    <3> QED
      BY <1>6, <2>1, <3>1
  <2>2. CASE c \in S /\ a \notin S
    <3>1. S = {c}
      BY <1>4, <2>2
    <3> QED
      BY <1>6, <2>2, <3>1
  <2>3. CASE c \notin S /\ a \in S
    <3>1. S = {a}
      BY <1>4, <2>3
    <3> QED
      BY <1>6, <2>3, <3>1
  <2>4. CASE c \notin S /\ a \notin S
    <3>1. S = {}
      BY <1>4, <2>4
    <3> QED
      BY <1>6, <2>4, <3>1
  <2> QED
    BY <2>1, <2>2, <2>3, <2>4
<1>8. Cardinality(S) = Units(m, g, v)
  BY <1>2, <1>3, <1>5, <1>7 DEF Units
<1> QED
  BY <1>8 DEF S
-----------------------------------------------------------------------------
(* The counter implements RegistrationSlots.  The two facts go together: a  *)
(* release subtracts what it should because the counter never saturates,    *)
(* and it never does because it has been exact so far.                      *)

SlotsExact == IsFiniteSet(HeldSlots) /\ CountMatchesSlots

\* The instance has a copy of Cardinality of its own.
LEMMA SameCardinality == \A S : Counter!Cardinality(S) = Cardinality(S)
  BY DEF Counter!Cardinality, Cardinality, Counter!IsFiniteSet, IsFiniteSet

\* The property in terms of the sets counted above.
LEMMA ExactDef ==
    CountMatchesSlots <=>
      \A v \in Validators : activeRegistrationCount[v] = Cardinality(SlotsOf(HeldSlots, v))
  BY SameCardinality DEF CountMatchesSlots, Counter!CountIsExact, Counter!OccupiedBy, SlotsOf

\* What a step does to the slots, the releases and the counter.
SlotsStep ==
    /\ IsFiniteSet(HeldSlots')
    /\ CountMatchesSlots'
    /\ Counter!SlotsNext \/ UNCHANGED Counter!slotVars

\* A registration of one role.
LEMMA OccupyStep ==
    ASSUME SlotsExact, NEW r \in TaskContracts, NEW g \in 1..MaxGI, NEW v \in Validators,
           <<r, g, v>> \notin HeldSlots, <<r, g>> \notin ReleasedSlots,
           HeldSlots' = HeldSlots \cup {<<r, g, v>>},
           ReleasedSlots' = ReleasedSlots,
           activeRegistrationCount \in [Validators -> Nat],
           Increment(v)
    PROVE  SlotsStep
<1>1. IsFiniteSet(HeldSlots') /\ \A w \in Validators :
        Cardinality(SlotsOf(HeldSlots', w)) =
            Cardinality(SlotsOf(HeldSlots, w)) + IF w = v THEN 1 ELSE 0
  BY CountAdded DEF SlotsExact
<1>2. \A w \in Validators : activeRegistrationCount[w] = Cardinality(SlotsOf(HeldSlots, w))
  BY ExactDef DEF SlotsExact
<1>3. \A w \in Validators :
        activeRegistrationCount'[w] = activeRegistrationCount[w] + IF w = v THEN 1 ELSE 0
  BY DEF Increment
<1>4. \A w \in Validators : activeRegistrationCount'[w] = Cardinality(SlotsOf(HeldSlots', w))
  BY <1>1, <1>2, <1>3
<1>5. CountMatchesSlots'
  BY <1>4, SameCardinality DEF CountMatchesSlots, Counter!CountIsExact, Counter!OccupiedBy, SlotsOf
<1>6. Counter!Occupy(r, g, v)
  BY DEF Counter!Occupy, Increment
<1>7. Counter!SlotsNext
  BY <1>6 DEF Counter!SlotsNext
<1> QED
  BY <1>1, <1>5, <1>7 DEF SlotsStep

\* The release of one iteration of one model.
LEMMA GiveBackStep ==
    ASSUME SlotsExact, LifecycleTypeOK, NEW m \in Models, NEW g \in 1..MaxGI,
           ReleaseGIRegistrationSlots(m, g)
    PROVE  SlotsStep
<1> DEFINE gone == GivenBack(HeldSlots, m, g)
<1>1. /\ g \notin registrationSlotsReleased[m]
      /\ registrationSlotsReleased' = [registrationSlotsReleased EXCEPT ![m] = @ \cup {g}]
      /\ activeRegistrationCount' = [v \in Validators |->
            Decremented(activeRegistrationCount[v], Units(m, g, v))]
      /\ UNCHANGED <<dinAggregators, dinAuditors>>
  BY DEF ReleaseGIRegistrationSlots
<1>2. registrationSlotsReleased \in [Models -> SUBSET (1..MaxGI)]
  BY DEF LifecycleTypeOK
<1>r. \A p \in Models, h \in 1..MaxGI :
        h \in registrationSlotsReleased'[p] <=>
           h \in registrationSlotsReleased[p] \/ (p = m /\ h = g)
  BY <1>1, <1>2
<1>3. HeldSlots' = HeldSlots \ gone
  <2>1. HeldSlots' = Held(dinAggregators, dinAuditors, registrationSlotsReleased')
    BY <1>1 DEF HeldSlots, Held
  <2>2. Held(dinAggregators, dinAuditors, registrationSlotsReleased') =
          HeldSlots \ GivenBack(HeldSlots, m, g)
    <3>1. SlotsRemoved(Held(dinAggregators, dinAuditors, registrationSlotsReleased),
                       Held(dinAggregators, dinAuditors, registrationSlotsReleased'), m, g)
      BY <1>r, HeldAfterRelease
    <3> QED
      BY <3>1, HeldSlotsHeld DEF SlotsRemoved
  <2> QED
    BY <1>1, <2>1, <2>2
<1>4. gone \in SUBSET HeldSlots
  BY DEF GivenBack
<1>5. /\ IsFiniteSet(HeldSlots \ gone)
      /\ \A w \in Validators :
           /\ Cardinality(SlotsOf(HeldSlots, w)) \in Nat
           /\ Cardinality(SlotsOf(gone, w)) \in Nat
           /\ Cardinality(SlotsOf(gone, w)) <= Cardinality(SlotsOf(HeldSlots, w))
           /\ Cardinality(SlotsOf(HeldSlots \ gone, w)) =
                Cardinality(SlotsOf(HeldSlots, w)) - Cardinality(SlotsOf(gone, w))
  BY <1>4, CountRemoved DEF SlotsExact
<1>6. \A w \in Validators : activeRegistrationCount[w] = Cardinality(SlotsOf(HeldSlots, w))
  BY ExactDef DEF SlotsExact
<1>7. \A w \in Validators : Units(m, g, w) = Cardinality(SlotsOf(gone, w))
  BY <1>1, UnitsCountSlots
<1> HIDE DEF gone
<1>8. activeRegistrationCount' = [v \in Validators |->
         activeRegistrationCount[v] - Cardinality(SlotsOf(gone, v))]
  <2>1. \A w \in Validators :
          Decremented(activeRegistrationCount[w], Units(m, g, w)) =
            activeRegistrationCount[w] - Cardinality(SlotsOf(gone, w))
    BY <1>5, <1>6, <1>7 DEF Decremented
  <2> QED
    BY <1>1, <2>1
<1>9. \A w \in Validators : activeRegistrationCount'[w] = Cardinality(SlotsOf(HeldSlots', w))
  BY <1>3, <1>5, <1>6, <1>8
<1>10. CountMatchesSlots'
  BY <1>9, SameCardinality DEF CountMatchesSlots, Counter!CountIsExact, Counter!OccupiedBy, SlotsOf
<1>11. ReleasedSlots' = ReleasedSlots \cup (RegistersOf(m) \X {g})
  <2>2. ASSUME NEW list \in TaskContracts \X (1..MaxGI)
        PROVE  list \in ReleasedSlots' <=>
                 list \in ReleasedSlots \/ list \in RegistersOf(m) \X {g}
    BY <1>r DEF ReleasedSlots, TaskContracts, RegistersOf
  <2>3. /\ ReleasedSlots' \subseteq TaskContracts \X (1..MaxGI)
        /\ ReleasedSlots \subseteq TaskContracts \X (1..MaxGI)
        /\ RegistersOf(m) \X {g} \subseteq TaskContracts \X (1..MaxGI)
    BY DEF ReleasedSlots, TaskContracts, RegistersOf
  <2> QED
    BY <2>2, <2>3
<1>12. \A r \in RegistersOf(m) : <<r, g>> \notin ReleasedSlots
  BY <1>1 DEF RegistersOf, ReleasedSlots
<1>13. Counter!GiveBack(RegistersOf(m), g)
  <2>1. HeldSlots' = {slot \in HeldSlots : ~ (slot[1] \in RegistersOf(m) /\ slot[2] = g)}
    BY <1>3 DEF gone, GivenBack
  <2>2. \A v : SlotsOf(gone, v) =
          {slot \in HeldSlots : slot[1] \in RegistersOf(m) /\ slot[2] = g /\ slot[3] = v}
    BY DEF gone, GivenBack, SlotsOf
  <2>3. activeRegistrationCount' = [v \in Validators |-> activeRegistrationCount[v] -
          Cardinality({slot \in HeldSlots :
             slot[1] \in RegistersOf(m) /\ slot[2] = g /\ slot[3] = v})]
    BY <1>8, <2>2
  <2> QED
    BY <1>11, <1>12, <2>1, <2>3, SameCardinality DEF Counter!GiveBack
<1>14. RegistersOf(m) \in SUBSET TaskContracts
  BY DEF RegistersOf, TaskContracts
<1>15. Counter!SlotsNext
  BY <1>13, <1>14 DEF Counter!SlotsNext
<1> QED
  BY <1>3, <1>5, <1>10, <1>15 DEF SlotsStep

\* Every step of the lifecycle is a step of RegistrationSlots or a stutter, and
\* keeps the counter exact.
LEMMA StepSlots ==
    ASSUME LifecycleInv, SlotsExact, [LifecycleNext]_lifeVars
    PROVE  SlotsStep
<1>t. /\ LifecycleTypeOK
      /\ activeRegistrationCount \in [Validators -> Nat]
      /\ dinAggregators \in [Models -> [1..MaxGI -> SUBSET Validators]]
      /\ dinAuditors \in [Models -> [1..MaxGI -> SUBSET Validators]]
      /\ \A m \in Models : GI[m] \in 0..MaxGI
  BY DEF LifecycleInv, LifecycleTypeOK
\* While a registration is open, its iteration is not released.
<1>1. ASSUME NEW m \in Models, GIstate[m] \in {"DINaggregatorsRegistrationStarted",
                                               "DINauditorsRegistrationStarted"}
      PROVE  GI[m] \in 1..MaxGI /\ GI[m] \notin registrationSlotsReleased[m]
  <2>1. Ordinal[GIstate[m]] \in {7, 9} /\ GIstate[m] # "GIended"
    BY <1>1, NamedOrdinals
  <2>2. GI[m] >= 1
    BY <2>1 DEF LifecycleInv, Consistent, ModelOK
  <2>3. \A h \in registrationSlotsReleased[m] : h < GI[m]
    BY <2>1 DEF LifecycleInv, Consistent, ModelOK
  <2> QED
    BY <1>t, <2>2, <2>3
<1>2. CASE \E m \in Models, v \in Validators, stake \in Stakes : RegisterDINaggregator(m, v, stake)
  <2>1. PICK m \in Models, v \in Validators, stake \in Stakes : RegisterDINaggregator(m, v, stake)
    BY <1>2
  <2>2. PICK g \in 1..MaxGI : g = GI[m] /\ g \notin registrationSlotsReleased[m]
    BY <1>1, <2>1 DEF RegisterDINaggregator
  <2>3. /\ dinAggregators' = [dinAggregators EXCEPT ![m][GI[m]] = @ \cup {v}]
        /\ v \notin dinAggregators[m][g]
        /\ UNCHANGED <<dinAuditors, registrationSlotsReleased>>
        /\ Increment(v)
    BY <2>1, <2>2 DEF RegisterDINaggregator
  <2>4. ListGains(dinAggregators, dinAggregators', m, GI[m], v)
    BY <1>t, <2>3, ListUpdated, ZenonT(30)
  <2>5. HeldSlots' = Held(dinAggregators', dinAuditors, registrationSlotsReleased)
    BY <2>3 DEF HeldSlots, Held
  <2>6. HeldSlots' = HeldSlots \cup {<<<<m, "coordinator">>, g, v>>}
    <3>1. ListGains(dinAggregators, dinAggregators', m, g, v)
      BY <2>2, <2>4
    <3>2. SlotAdded(Held(dinAggregators, dinAuditors, registrationSlotsReleased),
                    Held(dinAggregators', dinAuditors, registrationSlotsReleased),
                    <<<<m, "coordinator">>, g, v>>)
      BY <2>2, <3>1, HeldAfterAggregator
    <3> QED
      BY <2>5, <3>2, HeldSlotsHeld DEF SlotAdded
  <2>7. <<<<m, "coordinator">>, g, v>> \notin HeldSlots
    BY <2>3, HeldSlotsHeld, HeldMember
  <2>8. <<<<m, "coordinator">>, g>> \notin ReleasedSlots /\ <<m, "coordinator">> \in TaskContracts
    BY <2>2 DEF ReleasedSlots, TaskContracts
  <2>9. ReleasedSlots' = ReleasedSlots
    BY <2>3 DEF ReleasedSlots
  <2> QED
    BY <1>t, <2>3, <2>6, <2>7, <2>8, <2>9, OccupyStep
<1>3. CASE \E m \in Models, v \in Validators, stake \in Stakes : RegisterDINAuditor(m, v, stake)
  <2>1. PICK m \in Models, v \in Validators, stake \in Stakes : RegisterDINAuditor(m, v, stake)
    BY <1>3
  <2>2. PICK g \in 1..MaxGI : g = GI[m] /\ g \notin registrationSlotsReleased[m]
    BY <1>1, <2>1 DEF RegisterDINAuditor, OpenToAuditor
  <2>3. /\ dinAuditors' = [dinAuditors EXCEPT ![m][GI[m]] = @ \cup {v}]
        /\ v \notin dinAuditors[m][g]
        /\ UNCHANGED <<dinAggregators, registrationSlotsReleased>>
        /\ Increment(v)
    BY <2>1, <2>2 DEF RegisterDINAuditor, OpenToAuditor
  <2>4. ListGains(dinAuditors, dinAuditors', m, GI[m], v)
    BY <1>t, <2>3, ListUpdated, ZenonT(30)
  <2>5. HeldSlots' = Held(dinAggregators, dinAuditors', registrationSlotsReleased)
    BY <2>3 DEF HeldSlots, Held
  <2>6. HeldSlots' = HeldSlots \cup {<<<<m, "auditor">>, g, v>>}
    <3>1. ListGains(dinAuditors, dinAuditors', m, g, v)
      BY <2>2, <2>4
    <3>2. SlotAdded(Held(dinAggregators, dinAuditors, registrationSlotsReleased),
                    Held(dinAggregators, dinAuditors', registrationSlotsReleased),
                    <<<<m, "auditor">>, g, v>>)
      BY <2>2, <3>1, HeldAfterAuditor
    <3> QED
      BY <2>5, <3>2, HeldSlotsHeld DEF SlotAdded
  <2>7. <<<<m, "auditor">>, g, v>> \notin HeldSlots
    BY <2>3, HeldSlotsHeld, HeldMember
  <2>8. <<<<m, "auditor">>, g>> \notin ReleasedSlots /\ <<m, "auditor">> \in TaskContracts
    BY <2>2 DEF ReleasedSlots, TaskContracts
  <2>9. ReleasedSlots' = ReleasedSlots
    BY <2>3 DEF ReleasedSlots
  <2> QED
    BY <1>t, <2>3, <2>6, <2>7, <2>8, <2>9, OccupyStep
<1>4. CASE \E m \in Models, g \in 1..MaxGI : ReleaseGIRegistrationSlots(m, g)
  BY <1>t, <1>4, GiveBackStep
<1>5. CASE UNCHANGED members
  <2>1. UNCHANGED <<dinAggregators, dinAuditors, registrationSlotsReleased,
                    activeRegistrationCount>>
    BY <1>5 DEF members
  <2>2. HeldSlots' = HeldSlots /\ ReleasedSlots' = ReleasedSlots
    BY <2>1 DEF HeldSlots, ReleasedSlots
  <2>3. IsFiniteSet(HeldSlots')
    BY <2>2 DEF SlotsExact
  <2>4. CountMatchesSlots'
    BY <2>1, <2>2 DEF SlotsExact, CountMatchesSlots, Counter!CountIsExact, Counter!OccupiedBy
  <2>5. UNCHANGED Counter!slotVars
    BY <2>1, <2>2 DEF Counter!slotVars
  <2> QED
    BY <2>3, <2>4, <2>5 DEF SlotsStep
<1> QED
  BY <1>2, <1>3, <1>4, <1>5, MembershipSteps

\* No slot is held at first.
LEMMA InitSlots == LifecycleInit => SlotsExact /\ Counter!SlotsInit
<1> SUFFICES ASSUME LifecycleInit PROVE SlotsExact /\ Counter!SlotsInit
  OBVIOUS
<1>1. HeldSlots = {} /\ ReleasedSlots = {}
  BY DEF LifecycleInit, HeldSlots, ReleasedSlots, TaskContracts
<1>2. \A v \in Validators : SlotsOf(HeldSlots, v) = {} /\ activeRegistrationCount[v] = 0
  BY <1>1 DEF SlotsOf, LifecycleInit
<1>3. SlotsExact
  BY <1>1, <1>2, FS_EmptySet, ExactDef DEF SlotsExact
<1>4. Counter!SlotsInit
  BY <1>1 DEF Counter!SlotsInit, LifecycleInit
<1> QED
  BY <1>3, <1>4

\* At every moment finitely many slots are held, and the counter is their number.
THEOREM SlotsInvariance == LifecycleSpec => []SlotsExact
<1>1. LifecycleInit => SlotsExact
  BY InitSlots
<1>2. LifecycleInv /\ SlotsExact /\ [LifecycleNext]_lifeVars => SlotsExact'
  BY StepSlots DEF SlotsStep, SlotsExact
<1> QED
  BY <1>1, <1>2, LifecycleInvariance, PTL DEF LifecycleSpec

\* The counter is exact: no decrement of a release finds it at zero, and none
\* of its units outlives the iteration it was taken in.
THEOREM CounterExact == LifecycleSpec => []CountMatchesSlots
<1>1. SlotsExact => CountMatchesSlots
  BY DEF SlotsExact
<1> QED
  BY <1>1, SlotsInvariance, PTL

\* The lists and releases of all the models, with the counter they share,
\* implement RegistrationSlots.
THEOREM LifecycleImplementsSlots == LifecycleSpec => ImplementsRegistrationSlots
<1>1. LifecycleInit => Counter!SlotsInit
  BY InitSlots
<1>2. LifecycleInv /\ SlotsExact /\ [LifecycleNext]_lifeVars =>
        [Counter!SlotsNext]_(Counter!slotVars)
  BY StepSlots DEF SlotsStep
<1> QED
  BY <1>1, <1>2, LifecycleInvariance, SlotsInvariance, PTL
     DEF LifecycleSpec, ImplementsRegistrationSlots, Counter!SlotsSpec
=============================================================================
