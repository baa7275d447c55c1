--------------------------- MODULE OwnerSideProofs ---------------------------
(***************************************************************************)
(* Theorems of OwnerClient.tla, for any number of iterations, transactions *)
(* in the pool and failures, and of AggregationDispute.tla, for any number *)
(* of batches, challengers and bonds.                                      *)
(*                                                                         *)
(* No auditors are slashed before the model was scored or the owner was    *)
(* asked. The invariant OwnerInv follows the slash from the command that   *)
(* read the score, through the pool, where it may stay long after its      *)
(* receipt was given up, to the state it leads to.                         *)
(*                                                                         *)
(* The coordinator holds the bonds that may still be claimed or returned.  *)
(* The invariant DisputeInv says of every dispute how far it is; the books *)
(* are two sums, of which each call changes one term.                      *)
(***************************************************************************)
EXTENDS OwnerClient, AggregationDispute, SumTheorems

SlashedStates == {"AuditorsSlashed", "AggregatorsSlashed", "GIended"}

\* Only slashAuditors leads into the states after the slash from outside.
LEMMA MovesTable ==
    ASSUME NEW fn \in DOMAIN Moves
    PROVE  /\ Moves[fn][2] \in SlashedStates =>
                fn = "slashAuditors" \/ Moves[fn][1] \in SlashedStates
           /\ Moves[fn][2] # "GenesisModelCreated"
           /\ fn \notin {"startGI", "setTier2Score", "releaseGIRegistrationSlots",
                         "depositRewards", "fundGI"}
  BY DEF Moves, SlashedStates

-----------------------------------------------------------------------------
(* The invariant. *)

FnNames == DOMAIN Moves \cup {"startGI", "setTier2Score", "releaseGIRegistrationSlots",
                              "depositRewards", "fundGI"}
TxType == [fn : FnNames, gi : Int, arg : Int]
Steps == {"idle", "send", "wait", "seed", "lock"}
PlainType == [name : FnNames \cup {"none"}, step : Steps, gi : Int, arg : Int]
LockingType == [name : FnNames, step : Steps, gi : Int, arg : Int, lock : DOMAIN SeedOf]

Settled(g) == ghost[g].scored > 0 \/ ghost[g].asked

\* What is known of an iteration when its slash is about to be sent, or pending.
SlashOK(fn, g) == fn = "slashAuditors" => g \in GIs /\ Settled(g)

ChainOK ==
    /\ GI \in 0..LastGI /\ (GI > 0 => GIstate # "GenesisModelCreated")
    /\ ghost \in [GIs -> [scored : Nat, asked : BOOLEAN]]
    /\ tier2Score \in [GIs -> Int]
    /\ \A g \in GIs : tier2Score[g] # 0 => ghost[g].scored > 0
    /\ \A g \in GIs : AuditorsWereSlashed(g) => Settled(g)

PoolOK ==
    /\ pool \in Seq(TxType)
    /\ \A i \in 1..Len(pool) : SlashOK(pool[i].fn, pool[i].gi)

CommandOK ==
    /\ command \in PlainType \cup LockingType
    /\ command.step \in {"seed", "lock"} => command \in LockingType
    /\ command.step # "idle" => command.name \in FnNames
    /\ SlashOK(command.name, command.gi)

OwnerInv == ChainOK /\ PoolOK /\ CommandOK

LEMMA LastGIPositive == LastGI \in Nat /\ LastGI > 0
  BY OwnerAssumption DEF OwnerAssumption

LEMMA IdleOK == /\ Idle \in PlainType /\ Idle.step = "idle" /\ Idle.name = "none"
                /\ "slashAuditors" # "none"
  BY DEF Idle, PlainType, Steps

LEMMA InitInv == OwnerInit => OwnerInv
<1> SUFFICES ASSUME OwnerInit PROVE OwnerInv
  OBVIOUS
<1>1. ChainOK
  BY LastGIPositive DEF OwnerInit, ChainOK, GIs, AuditorsWereSlashed
<1>2. PoolOK
  BY DEF OwnerInit, PoolOK
<1>3. CommandOK
  BY IdleOK DEF OwnerInit, CommandOK, SlashOK
<1> QED
  BY <1>1, <1>2, <1>3 DEF OwnerInv

\* What was settled stays settled.
LEMMA PoolKeeps ==
    ASSUME PoolOK, pool' = pool, \A g \in GIs : Settled(g) => Settled(g)'
    PROVE  PoolOK'
  BY DEF PoolOK, SlashOK

LEMMA CommandKeeps ==
    ASSUME CommandOK, command' = command, \A g \in GIs : Settled(g) => Settled(g)'
    PROVE  CommandOK'
  BY DEF CommandOK, SlashOK

LEMMA CommandIdles ==
    ASSUME command' = Idle PROVE CommandOK'
  BY IdleOK DEF CommandOK, SlashOK

LEMMA ChainKeeps ==
    ASSUME ChainOK, UNCHANGED <<GI, GIstate, tier2Score, ghost>>
    PROVE  ChainOK' /\ \A g \in GIs : Settled(g) => Settled(g)'
  BY DEF ChainOK, Settled, AuditorsWereSlashed

-----------------------------------------------------------------------------
(* The contracts. *)

\* A slash is the only call that slashes, and what startGI leaves behind has been
\* slashed before.
LEMMA ExecuteStep ==
    ASSUME ChainOK, NEW tx \in TxType, Succeeds(tx), Execute(tx), SlashOK(tx.fn, tx.gi),
           ghost' = IF tx.fn = "setTier2Score"
                    THEN [ghost EXCEPT ![tx.gi].scored = @ + 1] ELSE ghost
    PROVE  ChainOK' /\ \A g \in GIs : Settled(g) => Settled(g)'
<1>1. tx.fn \in FnNames /\ tx.gi \in Int /\ tx.arg \in Int
  BY DEF TxType
<1>2. ghost' \in [GIs -> [scored : Nat, asked : BOOLEAN]]
  <2> DEFINE r == [ghost[tx.gi] EXCEPT !.scored = ghost[tx.gi].scored + 1]
  <2>1. CASE tx.fn = "setTier2Score" /\ tx.gi \in GIs
    <3>1. r \in [scored : Nat, asked : BOOLEAN]
      BY <2>1 DEF ChainOK
    <3>2. ghost' = [ghost EXCEPT ![tx.gi] = r]
      BY <2>1
    <3> HIDE DEF r
    <3> QED
      BY <3>1, <3>2 DEF ChainOK
  <2>2. CASE ~(tx.fn = "setTier2Score" /\ tx.gi \in GIs)
    <3>1. ghost' = ghost
      BY <2>2 DEF ChainOK
    <3> QED
      BY <3>1 DEF ChainOK
  <2> QED
    BY <2>1, <2>2
<1>3. \A g \in GIs : /\ ghost'[g].scored >= ghost[g].scored
                     /\ ghost'[g].asked = ghost[g].asked
  BY DEF ChainOK
<1>4. \A g \in GIs : Settled(g) => Settled(g)'
  BY <1>2, <1>3 DEF Settled, ChainOK
<1>5. CASE tx.fn = "startGI"
  <2>1. GI' = GI + 1 /\ GI + 1 \in GIs /\ GIstate \in {"GenesisModelCreated", "GIended"}
    BY <1>5, MovesTable DEF Succeeds, Execute
  <2>2. GIstate' = "GIstarted" /\ tier2Score' = tier2Score /\ ghost' = ghost
    BY <1>5, MovesTable DEF Execute
  <2>3. \A g \in GIs : AuditorsWereSlashed(g)' => AuditorsWereSlashed(g)
    BY <2>1, <2>2, LastGIPositive DEF AuditorsWereSlashed, ChainOK, GIs
  <2>4. GI' \in 0..LastGI /\ GIstate' # "GenesisModelCreated"
    BY <2>1, <2>2, LastGIPositive DEF ChainOK, GIs
  <2>5. \A g \in GIs : AuditorsWereSlashed(g)' => Settled(g)'
    BY <1>4, <2>3 DEF ChainOK
  <2>6. \A g \in GIs : tier2Score'[g] # 0 => ghost'[g].scored > 0
    BY <2>2 DEF ChainOK
  <2> QED
    BY <1>2, <1>4, <2>2, <2>4, <2>5, <2>6 DEF ChainOK
<1>6. CASE tx.fn = "setTier2Score"
  <2>1. GI' = GI /\ GIstate' = GIstate
    BY <1>6, MovesTable DEF Execute
  <2>2. tier2Score' = [tier2Score EXCEPT ![tx.gi] = tx.arg]
    BY <1>6 DEF Execute
  <2>3. tier2Score' \in [GIs -> Int]
    BY <1>1, <2>2 DEF ChainOK
  <2>4. ASSUME NEW g \in GIs, tier2Score'[g] # 0 PROVE ghost'[g].scored > 0
    <3>1. CASE g = tx.gi
      <4>1. ghost'[g].scored = ghost[g].scored + 1
        BY <1>6, <3>1 DEF ChainOK
      <4>2. ghost[g].scored \in Nat
        BY DEF ChainOK
      <4> QED
        BY <4>1, <4>2
    <3>2. CASE g # tx.gi
      <4>1. tier2Score[g] # 0
        BY <2>2, <2>4, <3>2 DEF ChainOK
      <4>2. ghost[g].scored > 0 /\ ghost[g].scored \in Nat /\ ghost'[g].scored \in Nat
        BY <1>2, <4>1 DEF ChainOK
      <4> QED
        BY <1>3, <4>2
    <3> QED
      BY <3>1, <3>2
  <2>5. \A g \in GIs : AuditorsWereSlashed(g)' => AuditorsWereSlashed(g)
    BY <2>1 DEF AuditorsWereSlashed
  <2> QED
    BY <1>2, <1>4, <2>1, <2>3, <2>4, <2>5 DEF ChainOK
<1>7. CASE tx.fn \in DOMAIN Moves
  <2>1. tx.gi = GI /\ GIstate = Moves[tx.fn][1]
    BY <1>7, MovesTable DEF Succeeds
  <2>2. GI' = GI /\ GIstate' = Moves[tx.fn][2]
    BY <1>7, MovesTable DEF Execute
  <2>3. tier2Score' = tier2Score /\ ghost' = ghost
    BY <1>7, MovesTable DEF Execute
  <2>4. GIstate' # "GenesisModelCreated"
    BY <1>7, <2>2, MovesTable
  <2>5. ASSUME NEW g \in GIs, AuditorsWereSlashed(g)' PROVE Settled(g)
    <3>1. CASE tx.fn = "slashAuditors" /\ g = GI
      BY <2>1, <3>1 DEF SlashOK
    <3>2. CASE g < GI
      BY <3>2 DEF AuditorsWereSlashed, ChainOK
    <3>3. CASE g = GI /\ tx.fn # "slashAuditors"
      <4>1. GIstate' \in SlashedStates
        BY <2>2, <2>5, <3>3, LastGIPositive DEF AuditorsWereSlashed, SlashedStates, ChainOK, GIs
      <4>2. GIstate \in SlashedStates
        BY <1>7, <2>1, <2>2, <3>3, <4>1, MovesTable
      <4> QED
        BY <3>3, <4>2 DEF AuditorsWereSlashed, SlashedStates, ChainOK
    <3> QED
      BY <2>2, <2>5, <3>1, <3>2, <3>3 DEF AuditorsWereSlashed
  <2> QED
    BY <1>4, <2>2, <2>3, <2>4, <2>5 DEF ChainOK
<1>8. CASE tx.fn \in {"releaseGIRegistrationSlots", "depositRewards", "fundGI"}
  <2>1. GI' = GI /\ GIstate' = GIstate
    BY <1>8, MovesTable DEF Execute
  <2>2. tier2Score' = tier2Score /\ ghost' = ghost
    BY <1>8 DEF Execute
  <2> QED
    BY <2>1, <2>2, ChainKeeps
<1> QED
  BY <1>1, <1>5, <1>6, <1>7, <1>8 DEF FnNames

-----------------------------------------------------------------------------
(* The owner's machine. *)

LEMMA MineStep ==
    ASSUME OwnerInv, MineTx PROVE OwnerInv'
<1>1. PICK tx : tx = Head(pool)
  OBVIOUS
<1>2. pool # <<>> /\ pool' = Tail(pool) /\ pool \in Seq(TxType)
  BY DEF MineTx, OwnerInv, PoolOK
<1>3. tx \in TxType /\ SlashOK(tx.fn, tx.gi)
  <2>1. tx = pool[1] /\ 1 \in 1..Len(pool)
    BY <1>1, <1>2
  <2> QED
    BY <1>2, <2>1 DEF OwnerInv, PoolOK
<1>4. ChainOK' /\ \A g \in GIs : Settled(g) => Settled(g)'
  <2>1. CASE Succeeds(tx)
    <3>1. /\ Execute(tx)
          /\ ghost' = IF tx.fn = "setTier2Score"
                      THEN [ghost EXCEPT ![tx.gi].scored = @ + 1] ELSE ghost
      BY <1>1, <2>1 DEF MineTx
    <3> QED
      BY <1>3, <2>1, <3>1, ExecuteStep DEF OwnerInv
  <2>2. CASE ~Succeeds(tx)
    <3>1. UNCHANGED chain /\ ghost' = ghost
      BY <1>1, <2>2 DEF MineTx
    <3> QED
      BY <3>1, ChainKeeps DEF OwnerInv, chain
  <2> QED
    BY <2>1, <2>2
<1>5. PoolOK'
  <2>1. pool' \in Seq(TxType)
    BY <1>2
  <2>2. ASSUME NEW i \in 1..Len(pool') PROVE SlashOK(pool[i].fn, pool[i].gi)'
    <3>1. i + 1 \in 1..Len(pool) /\ pool'[i] = pool[i + 1]
      BY <1>2, <2>2
    <3>2. SlashOK(pool[i + 1].fn, pool[i + 1].gi)
      BY <3>1 DEF OwnerInv, PoolOK
    <3> QED
      BY <1>4, <3>1, <3>2 DEF SlashOK
  <2> QED
    BY <2>1, <2>2 DEF PoolOK
<1>6. CommandOK'
  <2>1. CASE UNCHANGED command
    BY <1>4, <2>1, CommandKeeps DEF OwnerInv
  <2>2. CASE command' = Idle
    BY <2>2, CommandIdles
  <2>3. CASE command.step = "lock" /\ command' = [command EXCEPT !.step = "seed"]
    <3>1. command \in LockingType /\ SlashOK(command.name, command.gi)
      BY <2>3 DEF OwnerInv, CommandOK
    <3>2. /\ command' \in LockingType /\ command'.name = command.name
          /\ command'.gi = command.gi
      BY <2>3, <3>1 DEF LockingType, Steps
    <3> QED
      BY <1>4, <3>1, <3>2 DEF CommandOK, SlashOK, LockingType
  <2> QED
    BY <2>1, <2>2, <2>3 DEF MineTx, OnReceipt
<1> QED
  BY <1>4, <1>5, <1>6 DEF OwnerInv

\* A transaction goes into the pool with what its command knew.
LEMMA SendStep ==
    ASSUME OwnerInv, NEW tx \in TxType, SlashOK(tx.fn, tx.gi),
           NEW waiting \in {"wait", "lock"}, waiting = "lock" => command \in LockingType,
           command.step # "idle", Send(tx, waiting)
    PROVE  OwnerInv'
<1>1. ChainOK' /\ \A g \in GIs : Settled(g) => Settled(g)'
  BY ChainKeeps DEF Send, chain, OwnerInv
<1>2. PoolOK'
  <2>1. pool \in Seq(TxType) /\ pool' = Append(pool, tx)
    BY DEF Send, OwnerInv, PoolOK
  <2>2. pool' \in Seq(TxType)
    BY <2>1
  <2>3. ASSUME NEW i \in 1..Len(pool') PROVE SlashOK(pool[i].fn, pool[i].gi)'
    <3>1. \/ i \in 1..Len(pool) /\ pool'[i] = pool[i]
          \/ pool'[i] = tx
      BY <2>1, <2>3
    <3>2. SlashOK(pool'[i].fn, pool'[i].gi)
      BY <3>1 DEF OwnerInv, PoolOK
    <3> QED
      BY <1>1, <3>2 DEF SlashOK
  <2> QED
    BY <2>2, <2>3 DEF PoolOK
<1>3. CommandOK'
  <2>1. command' = [command EXCEPT !.step = waiting]
    BY DEF Send
  <2>2. /\ command \in PlainType \cup LockingType /\ SlashOK(command.name, command.gi)
        /\ command.name \in FnNames
    BY DEF OwnerInv, CommandOK
  <2>3. CASE command \in LockingType
    <3>1. /\ command' \in LockingType /\ command'.name = command.name
          /\ command'.gi = command.gi
      BY <2>1, <2>3 DEF LockingType, Steps
    <3> QED
      BY <1>1, <2>2, <3>1 DEF CommandOK, SlashOK
  <2>4. CASE command \in PlainType /\ waiting = "wait"
    <3>1. /\ command' \in PlainType /\ command'.name = command.name
          /\ command'.gi = command.gi /\ command'.step = "wait"
      BY <2>1, <2>4 DEF PlainType, Steps
    <3> QED
      BY <1>1, <2>2, <3>1 DEF CommandOK, SlashOK
  <2> QED
    BY <2>2, <2>3, <2>4
<1> QED
  BY <1>1, <1>2, <1>3 DEF OwnerInv

LEMMA SendCallStep ==
    ASSUME OwnerInv, SendCall PROVE OwnerInv'
<1>1. /\ command \in PlainType \cup LockingType /\ command.step = "send"
      /\ command.name \in FnNames /\ SlashOK(command.name, command.gi)
  BY DEF OwnerInv, CommandOK, SendCall
<1>2. /\ Tx \in TxType /\ Tx.fn = command.name /\ Tx.gi = command.gi
  BY <1>1 DEF Tx, TxType, PlainType, LockingType
<1> QED
  BY <1>1, <1>2, SendStep DEF SendCall

LEMMA SeedsAreNoSlash ==
    ASSUME NEW fn \in DOMAIN SeedOf
    PROVE  fn # "slashAuditors" /\ fn # "setTier2Score" /\ fn \in FnNames
  BY DEF SeedOf, FnNames, Moves

LEMMA SeedStep ==
    ASSUME OwnerInv, EnsureBatchSeedLocked PROVE OwnerInv'
<1>1. command \in LockingType /\ command.step = "seed" /\ SlashOK(command.name, command.gi)
  BY DEF OwnerInv, CommandOK, EnsureBatchSeedLocked
<1>2. CASE /\ command' = [command EXCEPT !.step = "send"]
           /\ UNCHANGED <<chain, pool, failures, ghost>>
  <2>1. /\ command' \in LockingType /\ command'.name = command.name
        /\ command'.gi = command.gi
    BY <1>1, <1>2 DEF LockingType, Steps
  <2>2. ChainOK' /\ \A g \in GIs : Settled(g) => Settled(g)'
    BY <1>2, ChainKeeps DEF chain, OwnerInv
  <2>3. PoolOK'
    BY <1>2, <2>2, PoolKeeps DEF OwnerInv
  <2>4. CommandOK'
    BY <1>1, <2>1, <2>2 DEF CommandOK, SlashOK, LockingType
  <2> QED
    BY <2>2, <2>3, <2>4 DEF OwnerInv
<1>3. CASE Send(SeedTx, "lock")
  <2>1. SeedTx \in TxType /\ SlashOK(SeedTx.fn, SeedTx.gi)
    BY <1>1, SeedsAreNoSlash DEF SeedTx, TxType, LockingType, SlashOK
  <2> QED
    BY <1>1, <1>3, <2>1, SendStep
<1> QED
  BY <1>2, <1>3 DEF EnsureBatchSeedLocked

LEMMA IdleStep ==
    ASSUME OwnerInv, EstimateFails \/ CommandFails PROVE OwnerInv'
<1>1. UNCHANGED <<chain, pool, ghost>> /\ command' = Idle
  BY DEF EstimateFails, CommandFails
<1>2. ChainOK' /\ \A g \in GIs : Settled(g) => Settled(g)'
  BY <1>1, ChainKeeps DEF chain, OwnerInv
<1>3. PoolOK'
  BY <1>1, <1>2, PoolKeeps DEF OwnerInv
<1>4. CommandOK'
  BY <1>1, CommandIdles
<1> QED
  BY <1>2, <1>3, <1>4 DEF OwnerInv

-----------------------------------------------------------------------------
(* The commands. *)

\* A command that begins with anything but a slash has nothing to know.
LEMMA BeginsStep ==
    ASSUME OwnerInv, NEW fn \in FnNames, fn # "slashAuditors", NEW g \in Int,
           NEW arg \in Int, Begins(fn, g, arg)
    PROVE  OwnerInv'
<1>1. UNCHANGED <<chain, pool, ghost>>
  BY DEF Begins
<1>2. ChainOK' /\ \A h \in GIs : Settled(h) => Settled(h)'
  BY <1>1, ChainKeeps DEF chain, OwnerInv
<1>3. PoolOK'
  BY <1>1, <1>2, PoolKeeps DEF OwnerInv
<1>4. /\ command' \in PlainType /\ command'.name = fn /\ command'.step = "send"
  BY DEF Begins, PlainType, Steps
<1>5. CommandOK'
  BY <1>4 DEF CommandOK, SlashOK
<1> QED
  BY <1>2, <1>3, <1>5 DEF OwnerInv

LEMMA NamesOfMoves == DOMAIN Moves \subseteq FnNames /\ 0 \in Int
  BY DEF FnNames

LEMMA GIIsInt == OwnerInv => GI \in Int /\ GI + 1 \in Int /\ GIs \subseteq Int
  BY LastGIPositive DEF OwnerInv, ChainOK, GIs

LEMMA CallsStep ==
    ASSUME OwnerInv, NEW fn \in DOMAIN Moves, fn # "slashAuditors",
           Calls(fn) \/ \E state : CallsIn(state, fn)
    PROVE  OwnerInv'
<1>1. Begins(fn, GI, 0)
  BY DEF Calls, CallsIn, CurrentGI
<1> QED
  BY <1>1, BeginsStep, NamesOfMoves, GIIsInt

LEMMA CreatesStep ==
    ASSUME OwnerInv, NEW fn \in {"createAuditorsBatches", "autoCreateTier1AndTier2"},
           NEW lock \in DOMAIN SeedOf, NEW anchored, NEW locked,
           CreatesAfterSeed(anchored, locked, lock, fn)
    PROVE  OwnerInv'
<1>1. UNCHANGED <<chain, pool, ghost>>
  BY DEF CreatesAfterSeed
<1>2. ChainOK' /\ \A h \in GIs : Settled(h) => Settled(h)'
  BY <1>1, ChainKeeps DEF chain, OwnerInv
<1>3. PoolOK'
  BY <1>1, <1>2, PoolKeeps DEF OwnerInv
<1>4. fn \in FnNames /\ FirstStep(anchored, locked) \in {"send", "seed"}
  BY DEF FnNames, Moves, CreatesAfterSeed, FirstStep
<1>5. /\ command' \in LockingType /\ command'.name = fn
  BY <1>4, GIIsInt DEF CreatesAfterSeed, LockingType, Steps, CurrentGI
<1>6. CommandOK'
  BY <1>5 DEF CommandOK, SlashOK, LockingType
<1> QED
  BY <1>2, <1>3, <1>6 DEF OwnerInv

LEMMA ScoresAreInts ==
    ASSUME NEW accuracy \in Scores
    PROVE  accuracy \in Int /\ PassScore(accuracy, 5) \in Int
  BY OwnerAssumption DEF PassScore, Clamped

\* The slash begins by reading the score: one that is not 0 was set, and for one
\* that is 0 the owner is asked.
LEMMA SlashStep ==
    ASSUME OwnerInv, SlashAuditors PROVE OwnerInv'
<1>1. GI \in GIs /\ UNCHANGED <<chain, pool>>
  BY DEF SlashAuditors
<1>2. /\ command' = [name |-> "slashAuditors", step |-> "send", gi |-> GI, arg |-> 0]
      /\ ghost' = IF tier2Score[GI] = 0 THEN [ghost EXCEPT ![GI].asked = TRUE] ELSE ghost
  BY DEF SlashAuditors, SlashScored, CurrentGI
<1> DEFINE r == [ghost[GI] EXCEPT !.asked = TRUE]
<1>3. /\ r \in [scored : Nat, asked : BOOLEAN]
      /\ r.scored = ghost[GI].scored /\ r.asked
  BY <1>1 DEF OwnerInv, ChainOK
<1>4. ghost' = IF tier2Score[GI] = 0 THEN [ghost EXCEPT ![GI] = r] ELSE ghost
  BY <1>2
<1> HIDE DEF r
<1>5. ghost' \in [GIs -> [scored : Nat, asked : BOOLEAN]]
  BY <1>3, <1>4 DEF OwnerInv, ChainOK
<1>6. \A g \in GIs : /\ ghost'[g].scored = ghost[g].scored
                     /\ ghost[g].asked => ghost'[g].asked
  BY <1>1, <1>3, <1>4 DEF OwnerInv, ChainOK
<1>7. \A g \in GIs : Settled(g) => Settled(g)'
  BY <1>6 DEF Settled
<1>8. ChainOK'
  BY <1>1, <1>5, <1>6, <1>7 DEF chain, OwnerInv, ChainOK, AuditorsWereSlashed
<1>9. PoolOK'
  BY <1>1, <1>7, PoolKeeps DEF OwnerInv
<1>10. Settled(GI)'
  <2>1. CASE tier2Score[GI] = 0
    BY <1>1, <1>3, <1>4, <2>1 DEF Settled, OwnerInv, ChainOK, chain
  <2>2. CASE tier2Score[GI] # 0
    <3>1. ghost[GI].scored > 0
      BY <1>1, <2>2 DEF OwnerInv, ChainOK
    <3> QED
      BY <1>1, <1>6, <3>1 DEF Settled, chain
  <2> QED
    BY <2>1, <2>2
<1>11. CommandOK'
  <2>1. /\ command' \in PlainType /\ command'.name = "slashAuditors"
        /\ command'.gi = GI /\ command'.step = "send" /\ "slashAuditors" \in FnNames
    BY <1>2, GIIsInt DEF PlainType, FnNames, Moves, Steps
  <2>2. PICK c : c = command'
    OBVIOUS
  <2>3. c \in PlainType /\ c.name = "slashAuditors" /\ c.gi = GI /\ c.step = "send"
        /\ c.gi = GI'
    BY <1>1, <2>1, <2>2 DEF chain
  <2>4. SlashOK(c.name, c.gi)'
    <3>1. ghost'[c.gi].scored > 0 \/ ghost'[c.gi].asked
      BY <1>10, <2>3 DEF Settled
    <3> QED
      BY <1>1, <2>3, <3>1 DEF SlashOK, Settled
  <2> QED
    BY <2>1, <2>2, <2>3, <2>4 DEF CommandOK, SlashOK
<1> QED
  BY <1>8, <1>9, <1>11 DEF OwnerInv

\* The other actors.  A validator may lock a seed, but slashes nobody.
LEMMA OthersStep ==
    ASSUME OwnerInv,
           \/ \E fn \in DOMAIN SeedOf : ValidatorLocksSeed(fn)
           \/ \E k \in DOMAIN seed : SeedBlockMined(k)
           \/ UNCHANGED vars
    PROVE  OwnerInv'
<1>1. UNCHANGED <<pool, command>>
  BY DEF ValidatorLocksSeed, SeedBlockMined, vars
<1>2. ChainOK' /\ \A g \in GIs : Settled(g) => Settled(g)'
  <2>1. ASSUME NEW fn \in DOMAIN SeedOf, ValidatorLocksSeed(fn)
        PROVE  ChainOK' /\ \A g \in GIs : Settled(g) => Settled(g)'
    <3>1. PICK tx : tx = [fn |-> fn, gi |-> GI, arg |-> 0]
      OBVIOUS
    <3>2. Succeeds(tx) /\ Execute(tx) /\ ghost' = ghost
      BY <2>1, <3>1 DEF ValidatorLocksSeed
    <3>3. tx \in TxType /\ tx.fn # "setTier2Score" /\ SlashOK(tx.fn, tx.gi)
      BY <3>1, SeedsAreNoSlash, GIIsInt DEF TxType, SlashOK
    <3> QED
      BY <3>2, <3>3, ExecuteStep DEF OwnerInv
  <2>2. CASE \E k \in DOMAIN seed : SeedBlockMined(k)
    BY <2>2, ChainKeeps DEF SeedBlockMined, OwnerInv
  <2>3. CASE UNCHANGED vars
    BY <2>3, ChainKeeps DEF vars, chain, OwnerInv
  <2> QED
    BY <2>1, <2>2, <2>3
<1> QED
  BY <1>1, <1>2, PoolKeeps, CommandKeeps DEF OwnerInv

\* The commands that make one call of the table.
PhaseCommand ==
    \/ AggregatorsOpen \/ AggregatorsClose \/ AuditorsOpen \/ AuditorsClose
    \/ LmsOpen \/ LmsClose \/ CreateTestDataset
    \/ StartEvaluation \/ StartEvaluationReveal \/ CloseEvaluation
    \/ StartT1 \/ StartT1Reveal \/ CloseT1 \/ StartT2 \/ StartT2Reveal \/ CloseT2
    \/ SlashAggregators \/ End

LEMMA PhaseCommandCalls ==
    PhaseCommand => \E fn \in DOMAIN Moves :
                        /\ fn # "slashAuditors"
                        /\ Calls(fn) \/ \E state : CallsIn(state, fn)
<1> DEFINE Call(fn) == Calls(fn) \/ \E state : CallsIn(state, fn)
<1> DEFINE G == \E fn \in DOMAIN Moves : fn # "slashAuditors" /\ Call(fn)
<1>1. \A fn \in {"startDINaggregatorsRegistration", "closeDINaggregatorsRegistration",
                 "startDINauditorsRegistration", "closeDINauditorsRegistration",
                 "startLMsubmissions", "closeLMsubmissions", "setTestDataAssignedFlag",
                 "startLMsubmissionsEvaluation", "startLMsubmissionsEvaluationReveal",
                 "closeLMsubmissionsEvaluation", "startT1Aggregation",
                 "startT1AggregationReveal", "finalizeT1Aggregation", "startT2Aggregation",
                 "startT2AggregationReveal", "finalizeT2Aggregation", "slashAggregators",
                 "endGI"} : fn \in DOMAIN Moves /\ fn # "slashAuditors"
  BY DEF Moves
<1> HIDE DEF Call
<1>2. ASSUME AggregatorsOpen \/ AggregatorsClose \/ AuditorsOpen \/ AuditorsClose \/ LmsOpen
      PROVE  G
  <2>1. \/ Call("startDINaggregatorsRegistration") \/ Call("closeDINaggregatorsRegistration")
        \/ Call("startDINauditorsRegistration") \/ Call("closeDINauditorsRegistration")
        \/ Call("startLMsubmissions")
    BY <1>2 DEF AggregatorsOpen, AggregatorsClose, AuditorsOpen, AuditorsClose, LmsOpen, Call
  <2> QED
    BY <1>1, <2>1
<1>3. ASSUME LmsClose \/ CreateTestDataset \/ StartEvaluation \/ StartEvaluationReveal
             \/ CloseEvaluation \/ SlashAggregators \/ End
      PROVE  G
  <2>1. \/ Call("closeLMsubmissions") \/ Call("setTestDataAssignedFlag")
        \/ Call("startLMsubmissionsEvaluation") \/ Call("startLMsubmissionsEvaluationReveal")
        \/ Call("closeLMsubmissionsEvaluation") \/ Call("slashAggregators") \/ Call("endGI")
    BY <1>3 DEF LmsClose, CreateTestDataset, StartEvaluation, StartEvaluationReveal,
                CloseEvaluation, SlashAggregators, End, Call
  <2> QED
    BY <1>1, <2>1
<1>4. ASSUME StartT1 \/ StartT1Reveal \/ CloseT1 \/ StartT2 \/ StartT2Reveal \/ CloseT2
      PROVE  G
  <2>1. \/ Call("startT1Aggregation") \/ Call("startT1AggregationReveal")
        \/ Call("finalizeT1Aggregation") \/ Call("startT2Aggregation")
        \/ Call("startT2AggregationReveal") \/ Call("finalizeT2Aggregation")
    BY <1>4 DEF StartT1, StartT1Reveal, CloseT1, StartT2, StartT2Reveal, CloseT2, Call
  <2> QED
    BY <1>1, <2>1
<1>5. PhaseCommand => G
  BY <1>2, <1>3, <1>4 DEF PhaseCommand
<1> QED
  BY <1>5 DEF Call

LEMMA OtherNamesExist ==
    /\ {"startGI", "setTier2Score", "depositRewards", "fundGI",
        "releaseGIRegistrationSlots"} \subseteq FnNames \ {"slashAuditors"}
    /\ {"lockAuditSeed", "lockAggSeed"} \subseteq DOMAIN SeedOf
  BY DEF FnNames, SeedOf

LEMMA OwnerCommandStep ==
    ASSUME OwnerInv, OwnerCommand PROVE OwnerInv'
<1>1. CASE PhaseCommand
  BY <1>1, PhaseCommandCalls, CallsStep
<1>2. CASE Start
  <2>1. PICK accuracy \in Scores : Begins("startGI", GI + 1, PassScore(accuracy, 5))
    BY <1>2 DEF Start
  <2> QED
    BY <2>1, BeginsStep, ScoresAreInts, GIIsInt, OtherNamesExist
<1>3. CASE SetT2Score
  <2>1. PICK accuracy \in Scores : Begins("setTier2Score", GI, accuracy)
    BY <1>3 DEF SetT2Score, CurrentGI
  <2> QED
    BY <2>1, BeginsStep, ScoresAreInts, GIIsInt, OtherNamesExist
<1>4. ASSUME NEW g \in GIs, Deposit(g) \/ FundEmission(g) \/ ReleaseSlots(g)
      PROVE  OwnerInv'
  <2>1. \/ Begins("depositRewards", g, 0) \/ Begins("fundGI", g, 0)
        \/ Begins("releaseGIRegistrationSlots", g, 0)
    BY <1>4 DEF Deposit, FundEmission, ReleaseSlots
  <2>2. g \in Int /\ 0 \in Int
    BY GIIsInt
  <2> QED
    BY <2>1, <2>2, BeginsStep, OtherNamesExist
<1>5. CASE CreateAuditorsBatches \/ CreateTier1Tier2Batches
  BY <1>5, CreatesStep, OtherNamesExist DEF CreateAuditorsBatches, CreateTier1Tier2Batches
<1>6. CASE SlashAuditors
  BY <1>6, SlashStep
<1> QED
  BY <1>1, <1>2, <1>3, <1>4, <1>5, <1>6 DEF OwnerCommand, PhaseCommand

LEMMA NextInv == ASSUME OwnerInv, [OwnerNext]_vars PROVE OwnerInv'
<1>1. CASE OwnerCommand
  BY <1>1, OwnerCommandStep
<1>2. CASE EnsureBatchSeedLocked \/ SendCall
  BY <1>2, SeedStep, SendCallStep
<1>3. CASE EstimateFails \/ CommandFails
  BY <1>3, IdleStep
<1>4. CASE MineTx
  BY <1>4, MineStep
<1> QED
  BY <1>1, <1>2, <1>3, <1>4, OthersStep DEF OwnerNext

-----------------------------------------------------------------------------

\* Whatever is lost and run again, a slash of the auditors that is about to be
\* sent or waits in the pool is of an iteration that was scored, or about which
\* the owner was asked (slash_auditors and build_and_send_tx of dincli).
THEOREM OwnerConsistent == OwnerSpec => []OwnerInv
<1>1. OwnerInit => OwnerInv
  BY InitInv
<1>2. OwnerInv /\ [OwnerNext]_vars => OwnerInv'
  BY NextInv
<1> QED
  BY <1>1, <1>2, PTL DEF OwnerSpec

\* The auditors of an iteration are only slashed once its model was scored or the
\* owner was asked, for any number of missed receipts and repeated commands
\* (slash_auditors reads the score because the state does not tell).
THEOREM NobodySlashedUnscored == OwnerSpec => []NoSlashUnscored
<1>1. OwnerInv => NoSlashUnscored
  BY DEF OwnerInv, ChainOK, Settled, NoSlashUnscored
<1> QED
  BY <1>1, OwnerConsistent, PTL

-----------------------------------------------------------------------------
(***************************************************************************)
(* AggregationDispute.tla: the bonds, for any finite sets of batches and   *)
(* challengers.                                                            *)
(*                                                                         *)
(* What the contract holds changes in step with two sums: the bonds of the *)
(* disputes that are not over, and the bonds that may be claimed.  The     *)
(* invariant says of a dispute what the commands that race for it can rely *)
(* on: one that is over was resolved, and one that was resolved has its    *)
(* challenger, to whom the bond can go back.                               *)
(***************************************************************************)
DisputeType ==
    [challenger : Challengers \cup {Nobody}, bond : Nat,
     seed : {"none", "ahead", "ready", "locked", "old"}, anchors : Int,
     resolved : BOOLEAN, upheld : BOOLEAN, finalized : BOOLEAN, late : BOOLEAN]
AboutABatch == Verdicts \cup Recomputed \cup {"dispute", "expire"}
DisputeCommandType ==
    [name : AboutABatch \cup {"none", "claim"},
     step : {"idle", "approve", "open", "lock", "send"},
     of : Batches \cup {Nobody}, amount : Nat]

OneDisputeOK(d) ==
    /\ d.finalized => d.resolved
    /\ d.resolved => d.challenger # Nobody
    /\ d.challenger = Nobody => d.bond = 0

DisputesOK ==
    /\ dispute \in [Batches -> DisputeType]
    /\ \A b \in Batches : OneDisputeOK(dispute[b])

ClaimsOK == bondClaimable \in [Challengers -> Nat]

DisputeCommandsOK ==
    /\ disputeCommand \in [Users -> DisputeCommandType]
    /\ \A u \in Users : disputeCommand[u].name \in AboutABatch => disputeCommand[u].of \in Batches

DisputeInv ==
    /\ DisputesOK
    /\ ClaimsOK
    /\ DisputeCommandsOK
    /\ disputeBond \in Nat
    /\ bank \in Int

BondsHeld == [b \in Batches |-> StillHeld(dispute[b])]

LEMMA BondsParts ==
    BondsCovered <=> bank = SumFunctionOnSet(BondsHeld, Batches)
                            + SumFunctionOnSet(bondClaimable, Challengers)
  BY DEF BondsCovered, BondsHeld

LEMMA BondsParts2 ==
    BondsCovered' <=> bank' = SumFunctionOnSet(BondsHeld', Batches)
                              + SumFunctionOnSet(bondClaimable', Challengers)
  BY DEF BondsCovered, BondsHeld

LEMMA HeldTyped ==
    ASSUME NEW d \in DisputeType PROVE StillHeld(d) \in Int
  BY DEF DisputeType, StillHeld

LEMMA BondSums ==
    ASSUME DisputesOK, ClaimsOK
    PROVE  /\ IsFiniteSet(Batches) /\ IsFiniteSet(Challengers)
           /\ \A b \in Batches : BondsHeld[b] \in Int /\ BondsHeld[b] = StillHeld(dispute[b])
           /\ \A c \in Challengers : bondClaimable[c] \in Int
           /\ SumFunctionOnSet(BondsHeld, Batches) \in Int
           /\ SumFunctionOnSet(bondClaimable, Challengers) \in Int
<1>1. IsFiniteSet(Batches) /\ IsFiniteSet(Challengers)
  BY DisputeAssumption
<1>2. \A b \in Batches : BondsHeld[b] \in Int /\ BondsHeld[b] = StillHeld(dispute[b])
  BY HeldTyped DEF DisputesOK, BondsHeld
<1>3. \A c \in Challengers : bondClaimable[c] \in Int
  BY DEF ClaimsOK
<1> QED
  BY <1>1, <1>2, <1>3, SumInt

\* The sum of the bonds held when one dispute is written.
LEMMA HeldMoves ==
    ASSUME DisputesOK, ClaimsOK, NEW b \in Batches, NEW d \in DisputeType,
           dispute' = [dispute EXCEPT ![b] = d]
    PROVE  SumFunctionOnSet(BondsHeld', Batches)
             = SumFunctionOnSet(BondsHeld, Batches) - StillHeld(dispute[b]) + StillHeld(d)
<1>1. PICK f : f = BondsHeld
  OBVIOUS
<1>2. PICK e : e = BondsHeld'
  OBVIOUS
<1>3. /\ IsFiniteSet(Batches)
      /\ \A x \in Batches : f[x] \in Int
      /\ f[b] = StillHeld(dispute[b])
  BY <1>1, BondSums
<1>4. e[b] = StillHeld(d) /\ e[b] \in Int
  BY <1>2, HeldTyped DEF BondsHeld, DisputesOK
<1>5. \A x \in Batches \ {b} : e[x] = f[x]
  BY <1>1, <1>2 DEF BondsHeld, DisputesOK
<1>6. \A x \in Batches : f[x] \in Int /\ e[x] \in Int
  BY <1>3, <1>4, <1>5
<1>7. SumFunctionOnSet(e, Batches) = SumFunctionOnSet(f, Batches) - f[b] + e[b]
  BY <1>3, <1>5, <1>6, SumUpdate
<1> QED
  BY <1>1, <1>2, <1>3, <1>4, <1>7

\* The sum of the claims when one is written.
LEMMA ClaimsMove ==
    ASSUME DisputesOK, ClaimsOK, NEW c \in Challengers, NEW n \in Nat,
           bondClaimable' = [bondClaimable EXCEPT ![c] = n]
    PROVE  SumFunctionOnSet(bondClaimable', Challengers)
             = SumFunctionOnSet(bondClaimable, Challengers) - bondClaimable[c] + n
<1>1. PICK f : f = bondClaimable
  OBVIOUS
<1>2. PICK e : e = bondClaimable'
  OBVIOUS
<1>3. f \in [Challengers -> Nat] /\ e = [f EXCEPT ![c] = n]
  BY <1>1, <1>2 DEF ClaimsOK
<1>4. e[c] = n /\ \A x \in Challengers \ {c} : e[x] = f[x]
  BY <1>3
<1>5. IsFiniteSet(Challengers) /\ \A x \in Challengers : f[x] \in Int /\ e[x] \in Int
  BY <1>3, <1>4, BondSums
<1>6. SumFunctionOnSet(e, Challengers) = SumFunctionOnSet(f, Challengers) - f[c] + e[c]
  BY <1>4, <1>5, SumUpdate
<1> QED
  BY <1>1, <1>2, <1>4, <1>6

\* One dispute is written, and no claim.
LEMMA DisputeWritten ==
    ASSUME DisputeInv, BondsCovered, NEW b \in Batches, NEW d \in DisputeType, OneDisputeOK(d),
           dispute' = [dispute EXCEPT ![b] = d],
           bondClaimable' = bondClaimable,
           bank' = bank - StillHeld(dispute[b]) + StillHeld(d)
    PROVE  DisputesOK' /\ ClaimsOK' /\ bank' \in Int /\ BondsCovered'
<1>1. DisputesOK /\ ClaimsOK /\ bank \in Int
  BY DEF DisputeInv
<1>2. DisputesOK'
  BY <1>1 DEF DisputesOK
<1>3. ClaimsOK'
  BY <1>1 DEF ClaimsOK
<1>4. PICK p \in Int, q \in Int : /\ p = SumFunctionOnSet(BondsHeld, Batches)
                                  /\ q = SumFunctionOnSet(bondClaimable, Challengers)
  BY <1>1, BondSums
<1>5. PICK k \in Int, n \in Int : k = StillHeld(dispute[b]) /\ n = StillHeld(d)
  BY <1>1, HeldTyped DEF DisputesOK
<1>6. SumFunctionOnSet(BondsHeld', Batches) = p - k + n
  BY <1>1, <1>4, <1>5, HeldMoves
<1>7. bank = p + q
  BY <1>4, BondsParts
<1>8. bank' = (p - k + n) + q /\ bank' \in Int
  BY <1>5, <1>7
<1>9. SumFunctionOnSet(bondClaimable', Challengers) = q
  BY <1>4
<1> QED
  BY <1>2, <1>3, <1>6, <1>8, <1>9, BondsParts2

\* A dispute is over, and its bond may be claimed by its challenger.
LEMMA BondReturned ==
    ASSUME DisputeInv, BondsCovered, NEW b \in Batches, NEW d \in DisputeType, OneDisputeOK(d),
           dispute' = [dispute EXCEPT ![b] = d],
           ~dispute[b].finalized, dispute[b].resolved, d.finalized,
           ReturnsBond(b)
    PROVE  DisputesOK' /\ ClaimsOK' /\ bank' \in Int /\ BondsCovered'
<1>1. DisputesOK /\ ClaimsOK /\ bank \in Int
  BY DEF DisputeInv
<1>2. PICK c, k : c = dispute[b].challenger /\ k = dispute[b].bond
  OBVIOUS
<1>3. c \in Challengers /\ k \in Nat
  BY <1>1, <1>2 DEF DisputesOK, OneDisputeOK, DisputeType
<1>4. PICK n : n = bondClaimable[c] + k
  OBVIOUS
<1>5. n \in Nat /\ bondClaimable[c] \in Nat
  BY <1>1, <1>3, <1>4 DEF ClaimsOK
<1>6. bondClaimable' = [bondClaimable EXCEPT ![c] = n] /\ bank' = bank
  BY <1>2, <1>4 DEF ReturnsBond
<1>7. StillHeld(dispute[b]) = k /\ StillHeld(d) = 0
  BY <1>2 DEF StillHeld
<1>8. DisputesOK'
  BY <1>1 DEF DisputesOK
<1>9. ClaimsOK'
  BY <1>1, <1>3, <1>5, <1>6 DEF ClaimsOK
<1>10. PICK p \in Int, q \in Int : /\ p = SumFunctionOnSet(BondsHeld, Batches)
                                   /\ q = SumFunctionOnSet(bondClaimable, Challengers)
  BY <1>1, BondSums
<1>11. SumFunctionOnSet(BondsHeld', Batches) = p - k
  <2>1. SumFunctionOnSet(BondsHeld', Batches) = p - StillHeld(dispute[b]) + StillHeld(d)
    BY <1>1, <1>10, HeldMoves
  <2>2. p - k + 0 = p - k
    BY <1>3
  <2> QED
    BY <1>7, <2>1, <2>2
<1>12. SumFunctionOnSet(bondClaimable', Challengers) = q + k
  <2>1. SumFunctionOnSet(bondClaimable', Challengers) = q - bondClaimable[c] + n
    BY <1>1, <1>3, <1>5, <1>6, <1>10, ClaimsMove
  <2>2. q - bondClaimable[c] + n = q + k
    BY <1>3, <1>4, <1>5
  <2> QED
    BY <2>1, <2>2
<1>13. bank = p + q
  BY <1>10, BondsParts
<1>14. bank' = (p - k) + (q + k) /\ bank' \in Int
  BY <1>3, <1>6, <1>13
<1> QED
  BY <1>8, <1>9, <1>11, <1>12, <1>14, BondsParts2

\* One claim is paid.
LEMMA ClaimPaid ==
    ASSUME DisputeInv, BondsCovered, NEW c \in Challengers,
           dispute' = dispute,
           bondClaimable' = [bondClaimable EXCEPT ![c] = 0],
           bank' = bank - bondClaimable[c]
    PROVE  DisputesOK' /\ ClaimsOK' /\ bank' \in Int /\ BondsCovered'
<1> PICK zero \in Nat : zero = 0
  OBVIOUS
<1>1. DisputesOK /\ ClaimsOK /\ bank \in Int
  BY DEF DisputeInv
<1>2. bondClaimable[c] \in Int /\ bondClaimable' = [bondClaimable EXCEPT ![c] = zero]
  BY <1>1, BondSums
<1>3. DisputesOK' /\ ClaimsOK'
  BY <1>1, <1>2 DEF DisputesOK, ClaimsOK
<1>4. PICK p \in Int, q \in Int : /\ p = SumFunctionOnSet(BondsHeld, Batches)
                                  /\ q = SumFunctionOnSet(bondClaimable, Challengers)
  BY <1>1, BondSums
<1>5. BondsHeld' = BondsHeld
  BY DEF BondsHeld
<1>6. SumFunctionOnSet(bondClaimable', Challengers) = q - bondClaimable[c] + zero
  BY <1>1, <1>2, <1>4, ClaimsMove
<1>7. bank = p + q
  BY <1>4, BondsParts
<1>8. bank' = p + (q - bondClaimable[c] + zero) /\ bank' \in Int
  BY <1>2, <1>7
<1> QED
  BY <1>3, <1>4, <1>5, <1>6, <1>8, BondsParts2

LEMMA ChainKept ==
    ASSUME DisputeInv, BondsCovered, UNCHANGED <<dispute, bondClaimable, bank>>
    PROVE  DisputesOK' /\ ClaimsOK' /\ bank' \in Int /\ BondsCovered'
  BY DEF DisputeInv, BondsCovered, DisputesOK, ClaimsOK

-----------------------------------------------------------------------------
(* The commands. *)

LEMMA RestingOK == Resting \in DisputeCommandType /\ Resting.name \notin AboutABatch
  BY DEF Resting, DisputeCommandType, AboutABatch, Verdicts, Recomputed

LEMMA CommandWritten ==
    ASSUME DisputeCommandsOK, NEW u \in Users, NEW c \in DisputeCommandType,
           c.name \in AboutABatch => c.of \in Batches,
           disputeCommand' = [disputeCommand EXCEPT ![u] = c]
    PROVE  DisputeCommandsOK'
  BY DEF DisputeCommandsOK

LEMMA FinishedOK ==
    ASSUME DisputeCommandsOK, NEW u \in Users, Finished(u) PROVE DisputeCommandsOK'
  BY RestingOK, CommandWritten DEF Finished

LEMMA StepWritten ==
    ASSUME DisputeCommandsOK, NEW u \in Users, NEW s \in {"open", "send"},
           disputeCommand' = [disputeCommand EXCEPT ![u].step = s]
    PROVE  DisputeCommandsOK'
<1>1. PICK c : c = [disputeCommand[u] EXCEPT !.step = s]
  OBVIOUS
<1>2. disputeCommand[u] \in DisputeCommandType
  BY DEF DisputeCommandsOK
<1>3. c \in DisputeCommandType /\ c.name = disputeCommand[u].name /\ c.of = disputeCommand[u].of
  BY <1>1, <1>2 DEF DisputeCommandType
<1>4. disputeCommand' = [disputeCommand EXCEPT ![u] = c]
  BY <1>1 DEF DisputeCommandsOK
<1> QED
  BY <1>3, <1>4, CommandWritten DEF DisputeCommandsOK

LEMMA CommandKept ==
    ASSUME DisputeCommandsOK, disputeCommand' = disputeCommand PROVE DisputeCommandsOK'
  BY DEF DisputeCommandsOK

LEMMA RunsCommandStep ==
    ASSUME DisputeInv, BondsCovered, NEW u \in Users,
           NEW name \in AboutABatch \cup {"claim"}, NEW step \in {"approve", "lock", "send"},
           NEW of \in Batches \cup {Nobody}, NEW amount \in Nat,
           name \in AboutABatch => of \in Batches,
           RunsCommand(u, name, step, of, amount)
    PROVE  DisputeInv' /\ BondsCovered'
<1>1. PICK c : c = [name |-> name, step |-> step, of |-> of, amount |-> amount]
  OBVIOUS
<1>2. c \in DisputeCommandType /\ c.name = name /\ c.of = of
  BY <1>1 DEF DisputeCommandType
<1>3. disputeCommand' = [disputeCommand EXCEPT ![u] = c]
  BY <1>1 DEF RunsCommand
<1>4. DisputeCommandsOK'
  BY <1>2, <1>3, CommandWritten DEF DisputeInv
<1>5. UNCHANGED <<dispute, bondClaimable, bank, disputeBond>>
  BY DEF RunsCommand, disputeChain
<1> QED
  BY <1>4, <1>5, ChainKept DEF DisputeInv

LEMMA UserKinds ==
    /\ Owner \in Users
    /\ \A c \in Challengers : c \in Users
  BY DEF Users

\* The commands that only check what they need.
LEMMA ChecksStep ==
    ASSUME DisputeInv, BondsCovered, NEW b \in Batches,
           \/ \E v \in Verdicts : ResolveAggregation(b, v)
           \/ \E o \in Recomputed : SettleRecomputation(b, o)
           \/ \E c \in Challengers : Dispute(c, b) \/ Expire(c, b)
    PROVE  DisputeInv' /\ BondsCovered'
<1> PICK zero \in Nat : zero = 0
  OBVIOUS
<1>1. ASSUME NEW v \in Verdicts, ResolveAggregation(b, v)
      PROVE  DisputeInv' /\ BondsCovered'
  <2>1. PICK step \in {"approve", "lock", "send"} :
            step = IF v = "upheld" THEN "lock" ELSE "send"
    OBVIOUS
  <2>2. RunsCommand(Owner, v, step, b, zero)
    BY <1>1, <2>1 DEF ResolveAggregation
  <2>3. v \in AboutABatch
    BY DEF AboutABatch
  <2> QED
    BY <2>2, <2>3, UserKinds, RunsCommandStep
<1>2. ASSUME NEW o \in Recomputed, SettleRecomputation(b, o)
      PROVE  DisputeInv' /\ BondsCovered'
  <2>1. RunsCommand(Owner, o, "send", b, zero)
    BY <1>2 DEF SettleRecomputation
  <2>2. o \in AboutABatch
    BY DEF AboutABatch
  <2> QED
    BY <2>1, <2>2, UserKinds, RunsCommandStep
<1>3. ASSUME NEW c \in Challengers, Dispute(c, b)
      PROVE  DisputeInv' /\ BondsCovered'
  <2>1. RunsCommand(c, "dispute", "approve", b, disputeBond)
    BY <1>3 DEF Dispute
  <2>2. "dispute" \in AboutABatch /\ disputeBond \in Nat
    BY DEF AboutABatch, DisputeInv
  <2> QED
    BY <2>1, <2>2, UserKinds, RunsCommandStep
<1>4. ASSUME NEW c \in Challengers, Expire(c, b)
      PROVE  DisputeInv' /\ BondsCovered'
  <2>1. RunsCommand(c, "expire", "send", b, zero)
    BY <1>4 DEF Expire
  <2>2. "expire" \in AboutABatch
    BY DEF AboutABatch
  <2> QED
    BY <2>1, <2>2, UserKinds, RunsCommandStep
<1> QED
  BY <1>1, <1>2, <1>3, <1>4

LEMMA ClaimsStep ==
    ASSUME DisputeInv, BondsCovered, NEW c \in Challengers, ClaimDisputeBond(c)
    PROVE  DisputeInv' /\ BondsCovered'
<1>1. RunsCommand(c, "claim", "send", Nobody, bondClaimable[c])
  BY DEF ClaimDisputeBond
<1>2. bondClaimable[c] \in Nat /\ "claim" \notin AboutABatch
  BY DEF DisputeInv, ClaimsOK, AboutABatch, Verdicts, Recomputed
<1> QED
  BY <1>1, <1>2, UserKinds, RunsCommandStep

LEMMA ApproveStep ==
    ASSUME DisputeInv, BondsCovered, NEW c \in Challengers, ApproveDin(c)
    PROVE  DisputeInv' /\ BondsCovered'
<1>1. UNCHANGED <<dispute, bondClaimable, bank, disputeBond>>
  BY DEF ApproveDin
<1>2. DisputeCommandsOK'
  BY UserKinds, StepWritten DEF ApproveDin, DisputeInv
<1> QED
  BY <1>1, <1>2, ChainKept DEF DisputeInv

LEMMA StopsStep ==
    ASSUME DisputeInv, BondsCovered, NEW u \in Users, CommandStops(u)
    PROVE  DisputeInv' /\ BondsCovered'
<1>1. UNCHANGED <<dispute, bondClaimable, bank, disputeBond>>
  BY DEF CommandStops, disputeChain
<1>2. DisputeCommandsOK'
  BY FinishedOK DEF CommandStops, DisputeInv
<1> QED
  BY <1>1, <1>2, ChainKept DEF DisputeInv

\* The batch that the command of a user is about.
LEMMA AboutItsBatch ==
    ASSUME DisputeInv, NEW u \in Users, NEW name \in AboutABatch, NEW step, AtStep(u, name, step)
    PROVE  disputeCommand[u].of \in Batches
  BY DEF DisputeInv, DisputeCommandsOK, AtStep

LEMMA CurrentDispute ==
    ASSUME DisputeInv, NEW b \in Batches
    PROVE  dispute[b] \in DisputeType /\ OneDisputeOK(dispute[b])
  BY DEF DisputeInv, DisputesOK

LEMMA OpenStep ==
    ASSUME DisputeInv, BondsCovered, NEW c \in Challengers, OpenDispute(c)
    PROVE  DisputeInv' /\ BondsCovered'
<1>1. PICK b : b = disputeCommand[c].of
  OBVIOUS
<1>2. b \in Batches
  BY <1>1, UserKinds, AboutItsBatch DEF OpenDispute, AboutABatch
<1>3. PICK d : d = [NoDispute EXCEPT !.challenger = c, !.bond = disputeBond, !.seed = "ahead"]
  OBVIOUS
<1>4. disputeBond \in Nat /\ bank \in Int
  BY DEF DisputeInv
<1>5. d \in DisputeType /\ d.challenger = c /\ d.bond = disputeBond /\ ~d.finalized /\ ~d.resolved
  <2>1. PICK bond \in Nat : bond = disputeBond
    BY <1>4
  <2>2. d = [challenger |-> c, bond |-> bond, seed |-> "ahead", anchors |-> 0,
             resolved |-> FALSE, upheld |-> FALSE, finalized |-> FALSE, late |-> FALSE]
    BY <1>3, <2>1 DEF NoDispute
  <2> QED
    BY <2>1, <2>2 DEF DisputeType
<1>6. c # Nobody
  BY DisputeAssumption DEF DisputeAssumption, Users
<1>7. OneDisputeOK(d) /\ StillHeld(d) = disputeBond
  BY <1>5, <1>6 DEF OneDisputeOK, StillHeld
<1>8. StillHeld(dispute[b]) = 0
  BY <1>1, <1>2, CurrentDispute DEF OpenDispute, OneDisputeOK, StillHeld
<1>9. /\ dispute' = [dispute EXCEPT ![b] = d]
      /\ bank' = bank + disputeBond
      /\ disputeBond' = disputeBond /\ bondClaimable' = bondClaimable
  BY <1>1, <1>3 DEF OpenDispute
<1>10. bank' = bank - StillHeld(dispute[b]) + StillHeld(d)
  BY <1>4, <1>7, <1>8, <1>9
<1>11. DisputesOK' /\ ClaimsOK' /\ bank' \in Int /\ BondsCovered'
  BY <1>2, <1>5, <1>7, <1>9, <1>10, DisputeWritten
<1>12. DisputeCommandsOK'
  BY UserKinds, FinishedOK DEF OpenDispute, DisputeInv
<1> QED
  BY <1>4, <1>9, <1>11, <1>12 DEF DisputeInv

\* The seed, the anchors and the deadline of a dispute are none of the money's
\* business.
LEMMA SeedOrDeadlineWritten ==
    ASSUME DisputeInv, BondsCovered, NEW b \in Batches, NEW d \in DisputeType,
           dispute' = [dispute EXCEPT ![b] = d],
           d.challenger = dispute[b].challenger, d.bond = dispute[b].bond,
           d.resolved = dispute[b].resolved, d.finalized = dispute[b].finalized,
           UNCHANGED <<bondClaimable, bank>>
    PROVE  DisputesOK' /\ ClaimsOK' /\ bank' \in Int /\ BondsCovered'
<1>1. OneDisputeOK(d) /\ StillHeld(d) = StillHeld(dispute[b])
  BY CurrentDispute DEF OneDisputeOK, StillHeld
<1>2. StillHeld(d) \in Int /\ bank \in Int
  BY HeldTyped DEF DisputeInv
<1>3. bank' = bank - StillHeld(dispute[b]) + StillHeld(d)
  BY <1>1, <1>2
<1> QED
  BY <1>1, <1>3, DisputeWritten

LEMMA SeedWritten ==
    ASSUME DisputeInv, BondsCovered, NEW b \in Batches,
           NEW s \in {"ahead", "ready", "locked", "old"}, NEW n \in Int,
           dispute' = [dispute EXCEPT ![b].seed = s, ![b].anchors = n],
           UNCHANGED <<bondClaimable, bank>>
    PROVE  DisputesOK' /\ ClaimsOK' /\ bank' \in Int /\ BondsCovered'
<1>1. PICK d : d = [dispute[b] EXCEPT !.seed = s, !.anchors = n]
  OBVIOUS
<1>2. dispute[b] \in DisputeType /\ dispute \in [Batches -> DisputeType]
  BY CurrentDispute DEF DisputeInv, DisputesOK
<1>3. /\ d \in DisputeType
      /\ d.challenger = dispute[b].challenger /\ d.bond = dispute[b].bond
      /\ d.resolved = dispute[b].resolved /\ d.finalized = dispute[b].finalized
  BY <1>1, <1>2 DEF DisputeType
<1>4. dispute' = [dispute EXCEPT ![b] = d]
  BY <1>1, <1>2
<1> QED
  BY <1>3, <1>4, SeedOrDeadlineWritten

LEMMA OnlySeedWritten ==
    ASSUME DisputeInv, BondsCovered, NEW b \in Batches,
           NEW s \in {"ahead", "ready", "locked", "old"},
           dispute' = [dispute EXCEPT ![b].seed = s],
           UNCHANGED <<bondClaimable, bank>>
    PROVE  DisputesOK' /\ ClaimsOK' /\ bank' \in Int /\ BondsCovered'
<1>1. PICK d : d = [dispute[b] EXCEPT !.seed = s]
  OBVIOUS
<1>2. dispute[b] \in DisputeType /\ dispute \in [Batches -> DisputeType]
  BY CurrentDispute DEF DisputeInv, DisputesOK
<1>3. /\ d \in DisputeType
      /\ d.challenger = dispute[b].challenger /\ d.bond = dispute[b].bond
      /\ d.resolved = dispute[b].resolved /\ d.finalized = dispute[b].finalized
  BY <1>1, <1>2 DEF DisputeType
<1>4. dispute' = [dispute EXCEPT ![b] = d]
  BY <1>1, <1>2
<1> QED
  BY <1>3, <1>4, SeedOrDeadlineWritten

LEMMA LockStep ==
    ASSUME DisputeInv, BondsCovered, LockDisputeSeed
    PROVE  DisputeInv' /\ BondsCovered'
<1>1. PICK b : b = disputeCommand[Owner].of
  OBVIOUS
<1>2. b \in Batches
  BY <1>1, UserKinds, AboutItsBatch DEF LockDisputeSeed, AboutABatch, Verdicts
<1>3. UNCHANGED <<disputeBond, bondClaimable, bank>>
  BY DEF LockDisputeSeed
<1>4. LockTurn(b)
  BY <1>1 DEF LockDisputeSeed
<1>5. CASE /\ dispute[b].seed = "locked"
           /\ disputeCommand' = [disputeCommand EXCEPT ![Owner].step = "send"]
           /\ UNCHANGED dispute
  <2>1. DisputeCommandsOK'
    BY <1>5, UserKinds, StepWritten DEF DisputeInv
  <2> QED
    BY <1>3, <1>5, <2>1, ChainKept DEF DisputeInv
<1>6. CASE /\ dispute[b].seed = "ready"
           /\ dispute' = [dispute EXCEPT ![b].seed = "locked"]
           /\ UNCHANGED disputeCommand
  <2>1. DisputesOK' /\ ClaimsOK' /\ bank' \in Int /\ BondsCovered'
    BY <1>2, <1>3, <1>6, OnlySeedWritten
  <2> QED
    BY <1>3, <1>6, <2>1, CommandKept DEF DisputeInv
<1>7. CASE /\ dispute[b].seed = "old"
           /\ dispute' = [dispute EXCEPT ![b].seed = "ahead", ![b].anchors = @ + 1]
           /\ UNCHANGED disputeCommand
  <2>1. PICK n : n = dispute[b].anchors + 1
    OBVIOUS
  <2>2. n \in Int
    BY <1>2, <2>1, CurrentDispute DEF DisputeType
  <2>3. dispute' = [dispute EXCEPT ![b].seed = "ahead", ![b].anchors = n]
    BY <1>2, <1>7, <2>1 DEF DisputeInv, DisputesOK, DisputeType
  <2>4. DisputesOK' /\ ClaimsOK' /\ bank' \in Int /\ BondsCovered'
    BY <1>2, <1>3, <2>2, <2>3, SeedWritten
  <2> QED
    BY <1>3, <1>7, <2>4, CommandKept DEF DisputeInv
<1> QED
  BY <1>4, <1>5, <1>6, <1>7 DEF LockTurn

LEMMA AnyoneLocksStep ==
    ASSUME DisputeInv, BondsCovered, NEW b \in Batches, AnyoneLocksSeed(b)
    PROVE  DisputeInv' /\ BondsCovered'
<1>1. DisputesOK' /\ ClaimsOK' /\ bank' \in Int /\ BondsCovered'
  BY OnlySeedWritten DEF AnyoneLocksSeed
<1> QED
  BY <1>1, CommandKept DEF AnyoneLocksSeed, DisputeInv

LEMMA TimeStep ==
    ASSUME DisputeInv, BondsCovered, NEW b \in Batches, TimePasses(b)
    PROVE  DisputeInv' /\ BondsCovered'
<1>1. UNCHANGED <<disputeBond, bondClaimable, bank, disputeCommand>>
  BY DEF TimePasses
<1>2. CASE dispute' = [dispute EXCEPT ![b].seed = "ready"]
  BY <1>1, <1>2, OnlySeedWritten, CommandKept DEF DisputeInv
<1>3. CASE dispute' = [dispute EXCEPT ![b].seed = "old"]
  BY <1>1, <1>3, OnlySeedWritten, CommandKept DEF DisputeInv
<1>4. CASE dispute' = [dispute EXCEPT ![b].late = TRUE]
  <2>1. PICK d : d = [dispute[b] EXCEPT !.late = TRUE]
    OBVIOUS
  <2>2. dispute[b] \in DisputeType /\ dispute \in [Batches -> DisputeType]
    BY CurrentDispute DEF DisputeInv, DisputesOK
  <2>3. /\ d \in DisputeType
        /\ d.challenger = dispute[b].challenger /\ d.bond = dispute[b].bond
        /\ d.resolved = dispute[b].resolved /\ d.finalized = dispute[b].finalized
    BY <2>1, <2>2 DEF DisputeType
  <2>4. dispute' = [dispute EXCEPT ![b] = d]
    BY <1>4, <2>1, <2>2
  <2>5. DisputesOK' /\ ClaimsOK' /\ bank' \in Int /\ BondsCovered'
    BY <1>1, <2>3, <2>4, SeedOrDeadlineWritten
  <2> QED
    BY <1>1, <2>5, CommandKept DEF DisputeInv
<1> QED
  BY <1>2, <1>3, <1>4 DEF TimePasses

-----------------------------------------------------------------------------
(* The steps that decide where a bond goes. *)

LEMMA ResolveStep ==
    ASSUME DisputeInv, BondsCovered, ResolveDispute
    PROVE  DisputeInv' /\ BondsCovered'
<1>1. PICK verdict \in Verdicts :
        /\ AtStep(Owner, verdict, "send")
        /\ LET b == disputeCommand[Owner].of
           IN  /\ Awaiting(dispute[b])
               /\ verdict = "upheld" => dispute[b].seed = "locked"
               /\ dispute' = [dispute EXCEPT
                    ![b].resolved = TRUE, ![b].upheld = verdict = "upheld",
                    ![b].finalized = verdict = "rejected"]
               /\ bank' = IF verdict = "rejected" THEN bank - dispute[b].bond ELSE bank
        /\ Finished(Owner)
        /\ UNCHANGED <<window, disputeBond, allowance, bondClaimable>>
  BY DEF ResolveDispute
<1>2. PICK b : b = disputeCommand[Owner].of
  OBVIOUS
<1>3. b \in Batches
  BY <1>1, <1>2, UserKinds, AboutItsBatch DEF AboutABatch
<1>4. PICK upheld \in BOOLEAN, over \in BOOLEAN :
        upheld = (verdict = "upheld") /\ over = (verdict = "rejected")
  OBVIOUS
<1>5. PICK d : d = [dispute[b] EXCEPT !.resolved = TRUE, !.upheld = upheld, !.finalized = over]
  OBVIOUS
<1>6. dispute[b] \in DisputeType /\ OneDisputeOK(dispute[b])
  BY <1>3, CurrentDispute
<1>7. /\ d \in DisputeType
      /\ d.challenger = dispute[b].challenger /\ d.bond = dispute[b].bond
      /\ d.resolved /\ d.finalized = over
  BY <1>5, <1>6 DEF DisputeType
<1>8. dispute[b].challenger # Nobody /\ ~dispute[b].resolved
  BY <1>1, <1>2 DEF Awaiting
<1>9. OneDisputeOK(d)
  BY <1>7, <1>8 DEF OneDisputeOK
<1>10. PICK k \in Nat : k = dispute[b].bond
  BY <1>6 DEF DisputeType
<1>11. StillHeld(dispute[b]) = k /\ StillHeld(d) = IF over THEN 0 ELSE k
  BY <1>6, <1>7, <1>8, <1>10 DEF OneDisputeOK, StillHeld
<1>12. bank' = IF over THEN bank - k ELSE bank
  BY <1>1, <1>2, <1>4, <1>10
<1>13. bank \in Int
  BY DEF DisputeInv
<1>14. bank' = bank - StillHeld(dispute[b]) + StillHeld(d)
  <2>1. CASE over
    BY <1>11, <1>12, <1>13, <2>1
  <2>2. CASE ~over
    BY <1>11, <1>12, <1>13, <2>2
  <2> QED
    BY <2>1, <2>2
<1>15. dispute' = [dispute EXCEPT ![b] = d]
  <2>1. dispute' = [dispute EXCEPT ![b].resolved = TRUE, ![b].upheld = upheld,
                                   ![b].finalized = over]
    BY <1>1, <1>2, <1>4
  <2>2. dispute \in [Batches -> DisputeType]
    BY DEF DisputeInv, DisputesOK
  <2> QED
    BY <1>3, <1>5, <1>6, <2>1, <2>2
<1>16. DisputesOK' /\ ClaimsOK' /\ bank' \in Int /\ BondsCovered'
  BY <1>1, <1>3, <1>7, <1>9, <1>14, <1>15, DisputeWritten
<1>17. DisputeCommandsOK'
  BY <1>1, UserKinds, FinishedOK DEF DisputeInv
<1> QED
  BY <1>1, <1>16, <1>17 DEF DisputeInv

\* The record of a dispute that is over from now on.
LEMMA FinalizedDispute ==
    ASSUME DisputeInv, NEW b \in Batches, MayFinalize(dispute[b]),
           dispute' = [dispute EXCEPT ![b].finalized = TRUE]
    PROVE  \E d \in DisputeType :
              /\ OneDisputeOK(d) /\ d.finalized
              /\ dispute' = [dispute EXCEPT ![b] = d]
              /\ ~dispute[b].finalized /\ dispute[b].resolved
<1>1. PICK d : d = [dispute[b] EXCEPT !.finalized = TRUE]
  OBVIOUS
<1>2. dispute[b] \in DisputeType /\ OneDisputeOK(dispute[b])
  BY CurrentDispute
<1>3. ~dispute[b].finalized /\ dispute[b].resolved
  BY DEF MayFinalize, AwaitingRecomputation
<1>4. /\ d \in DisputeType /\ d.finalized /\ d.resolved = dispute[b].resolved
      /\ d.challenger = dispute[b].challenger /\ d.bond = dispute[b].bond
  BY <1>1, <1>2 DEF DisputeType
<1>5. OneDisputeOK(d)
  BY <1>2, <1>3, <1>4 DEF OneDisputeOK
<1>6. dispute' = [dispute EXCEPT ![b] = d]
  BY <1>1 DEF DisputeInv, DisputesOK
<1> QED
  BY <1>3, <1>4, <1>5, <1>6

LEMMA SettleStep ==
    ASSUME DisputeInv, BondsCovered, SettleDispute
    PROVE  DisputeInv' /\ BondsCovered'
<1>1. PICK outcome \in Recomputed :
        /\ AtStep(Owner, outcome, "send")
        /\ LET b == disputeCommand[Owner].of
           IN  /\ MayFinalize(dispute[b])
               /\ dispute' = [dispute EXCEPT ![b].finalized = TRUE]
               /\ IF outcome = "confirmed" THEN ReturnsBond(b)
                  ELSE bank' = bank - dispute[b].bond /\ UNCHANGED bondClaimable
        /\ Finished(Owner)
        /\ UNCHANGED <<window, disputeBond, allowance>>
  BY DEF SettleDispute
<1>2. PICK b : b = disputeCommand[Owner].of
  OBVIOUS
<1>3. b \in Batches
  BY <1>1, <1>2, UserKinds, AboutItsBatch DEF AboutABatch
<1>4. PICK d \in DisputeType : /\ OneDisputeOK(d) /\ d.finalized
                               /\ dispute' = [dispute EXCEPT ![b] = d]
                               /\ ~dispute[b].finalized /\ dispute[b].resolved
  BY <1>1, <1>2, <1>3, FinalizedDispute
<1>5. DisputesOK' /\ ClaimsOK' /\ bank' \in Int /\ BondsCovered'
  <2>1. CASE outcome = "confirmed"
    BY <1>1, <1>2, <1>3, <1>4, <2>1, BondReturned
  <2>2. CASE outcome # "confirmed"
    <3>1. bank' = bank - dispute[b].bond /\ bondClaimable' = bondClaimable
      BY <1>1, <1>2, <2>2
    <3>2. PICK k \in Nat : k = dispute[b].bond
      BY <1>3, CurrentDispute DEF DisputeType
    <3>3. StillHeld(dispute[b]) = k /\ StillHeld(d) = 0
      BY <1>4, <3>2 DEF StillHeld
    <3>4. bank' = bank - StillHeld(dispute[b]) + StillHeld(d)
      BY <3>1, <3>2, <3>3 DEF DisputeInv
    <3> QED
      BY <1>3, <1>4, <3>1, <3>4, DisputeWritten
  <2> QED
    BY <2>1, <2>2
<1>6. DisputeCommandsOK'
  BY <1>1, UserKinds, FinishedOK DEF DisputeInv
<1> QED
  BY <1>1, <1>5, <1>6 DEF DisputeInv

LEMMA ExpireStep ==
    ASSUME DisputeInv, BondsCovered, NEW c \in Challengers, ExpireDispute(c)
    PROVE  DisputeInv' /\ BondsCovered'
<1>1. PICK b : b = disputeCommand[c].of
  OBVIOUS
<1>2. b \in Batches
  BY <1>1, UserKinds, AboutItsBatch DEF ExpireDispute, AboutABatch
<1>3. /\ MayFinalize(dispute[b])
      /\ dispute' = [dispute EXCEPT ![b].finalized = TRUE]
      /\ ReturnsBond(b) /\ Finished(c) /\ disputeBond' = disputeBond
  BY <1>1 DEF ExpireDispute
<1>4. PICK d \in DisputeType : /\ OneDisputeOK(d) /\ d.finalized
                               /\ dispute' = [dispute EXCEPT ![b] = d]
                               /\ ~dispute[b].finalized /\ dispute[b].resolved
  BY <1>2, <1>3, FinalizedDispute
<1>5. DisputesOK' /\ ClaimsOK' /\ bank' \in Int /\ BondsCovered'
  BY <1>2, <1>3, <1>4, BondReturned
<1>6. DisputeCommandsOK'
  BY <1>3, UserKinds, FinishedOK DEF DisputeInv
<1> QED
  BY <1>3, <1>5, <1>6 DEF DisputeInv

LEMMA PayStep ==
    ASSUME DisputeInv, BondsCovered, NEW c \in Challengers, PayBond(c)
    PROVE  DisputeInv' /\ BondsCovered'
<1>1. DisputesOK' /\ ClaimsOK' /\ bank' \in Int /\ BondsCovered'
  BY ClaimPaid DEF PayBond
<1>2. DisputeCommandsOK'
  BY UserKinds, FinishedOK DEF PayBond, DisputeInv
<1> QED
  BY <1>1, <1>2 DEF PayBond, DisputeInv

\* The window and the owner's parameters.
LEMMA ParameterStep ==
    ASSUME DisputeInv, BondsCovered,
           \/ \E bond \in Bonds : SetDisputeParams(bond)
           \/ \E b \in Batches : WindowCloses(b)
           \/ UNCHANGED disputeVars
    PROVE  DisputeInv' /\ BondsCovered'
<1>1. UNCHANGED <<dispute, bondClaimable, bank, disputeCommand>>
  BY DEF SetDisputeParams, WindowCloses, disputeVars, disputeChain
<1>2. disputeBond' \in Nat
  BY DisputeAssumption DEF DisputeAssumption, DisputeInv, SetDisputeParams, WindowCloses,
                           disputeVars, disputeChain
<1> QED
  BY <1>1, <1>2, ChainKept, CommandKept DEF DisputeInv

LEMMA DisputeStep ==
    ASSUME DisputeInv, BondsCovered, [DisputeNext]_disputeVars
    PROVE  DisputeInv' /\ BondsCovered'
<1>1. CASE LockDisputeSeed \/ ResolveDispute \/ SettleDispute
  BY <1>1, LockStep, ResolveStep, SettleStep
<1>2. CASE \E u \in Users : CommandStops(u)
  BY <1>2, StopsStep
<1>3. ASSUME NEW b \in Batches,
             \/ AnyoneLocksSeed(b) \/ WindowCloses(b) \/ TimePasses(b)
             \/ \E v \in Verdicts : ResolveAggregation(b, v)
             \/ \E o \in Recomputed : SettleRecomputation(b, o)
             \/ \E c \in Challengers : Dispute(c, b) \/ Expire(c, b)
      PROVE  DisputeInv' /\ BondsCovered'
  <2>1. CASE AnyoneLocksSeed(b) \/ WindowCloses(b) \/ TimePasses(b)
    BY <2>1, AnyoneLocksStep, ParameterStep, TimeStep
  <2> QED
    BY <1>3, <2>1, ChecksStep
<1>4. ASSUME NEW c \in Challengers,
             \/ ApproveDin(c) \/ OpenDispute(c) \/ ExpireDispute(c)
             \/ ClaimDisputeBond(c) \/ PayBond(c)
      PROVE  DisputeInv' /\ BondsCovered'
  BY <1>4, ApproveStep, OpenStep, ExpireStep, ClaimsStep, PayStep
<1>5. CASE (\E bond \in Bonds : SetDisputeParams(bond)) \/ UNCHANGED disputeVars
  BY <1>5, ParameterStep
<1> QED
  BY <1>1, <1>2, <1>3, <1>4, <1>5 DEF DisputeNext

LEMMA DisputeInitOK == ASSUME DisputeInit PROVE DisputeInv /\ BondsCovered
<1> PICK zero \in Nat : zero = 0
  OBVIOUS
<1>1. NoDispute \in DisputeType /\ OneDisputeOK(NoDispute) /\ StillHeld(NoDispute) = zero
  BY DEF NoDispute, DisputeType, OneDisputeOK, StillHeld
<1>2. DisputesOK
  BY <1>1 DEF DisputeInit, DisputesOK
<1>3. ClaimsOK
  BY DEF DisputeInit, ClaimsOK
<1>4. DisputeCommandsOK
  BY RestingOK DEF DisputeInit, DisputeCommandsOK
<1>5. disputeBond \in Nat /\ bank = zero
  BY DisputeAssumption DEF DisputeAssumption, DisputeInit
<1>6. PICK f, e : f = BondsHeld /\ e = bondClaimable
  OBVIOUS
<1>7. \A b \in Batches : f[b] = zero
  BY <1>1, <1>6 DEF BondsHeld, DisputeInit
<1>8. \A c \in Challengers : e[c] = zero
  BY <1>6 DEF DisputeInit
<1>9. PICK n \in Nat, m \in Nat : n = Cardinality(Batches) /\ m = Cardinality(Challengers)
  BY DisputeAssumption, FS_CardinalityType
<1>10. SumFunctionOnSet(f, Batches) = zero * n /\ SumFunctionOnSet(e, Challengers) = zero * m
  BY <1>7, <1>8, <1>9, DisputeAssumption, SumConstant
<1>11. zero * n = 0 /\ zero * m = 0
  BY <1>9
<1>12. BondsCovered
  BY <1>5, <1>6, <1>10, <1>11, BondsParts
<1> QED
  BY <1>2, <1>3, <1>4, <1>5, <1>12 DEF DisputeInv

\* The contract always holds the bonds it owes, no more and no less, whoever of
\* the owner and the public ends a dispute first, however often commands are
\* killed and run again, and whatever the owner does to disputeBond between an
\* approval and the opening (openDispute, resolveDispute, settleRecomputation,
\* expireDispute and claimDisputeBond of DINTaskCoordinator).
THEOREM BondsAreCovered == DisputeSpec => []BondsCovered
<1>1. DisputeInit => DisputeInv /\ BondsCovered
  BY DisputeInitOK
<1>2. DisputeInv /\ BondsCovered /\ [DisputeNext]_disputeVars => DisputeInv' /\ BondsCovered'
  BY DisputeStep
<1> QED
  BY <1>1, <1>2, PTL DEF DisputeSpec

\* What the commands rely on when they race for a dispute: one that is over was
\* resolved, one that was resolved has its challenger, and a command that is
\* about to send is about a batch.
THEOREM DisputesConsistent == DisputeSpec => []DisputeInv
<1>1. DisputeInit => DisputeInv /\ BondsCovered
  BY DisputeInitOK
<1>2. DisputeInv /\ BondsCovered /\ [DisputeNext]_disputeVars => DisputeInv' /\ BondsCovered'
  BY DisputeStep
<1> QED
  BY <1>1, <1>2, PTL DEF DisputeSpec
=============================================================================
