------------------------- MODULE ValidatorSideProofs -------------------------
(***************************************************************************)
(* Theorems of ValidatorClient.tla, for every set of accounts, machines    *)
(* and slots, and any number of commands, retries and kills, and of        *)
(* Payments.tla, for any number of terminals, runs and transactions.       *)
(*                                                                         *)
(* The invariant ClientInv has two parts. The first follows a commitment:  *)
(* what is about to be sent, is in the pool or is on the chain has been    *)
(* cached, and a command that works on a slot began before the slot was    *)
(* committed. The second follows a command that locks a seed: whenever the *)
(* lock would fail, the seed is locked or its block has moved since the    *)
(* command read it.                                                        *)
(*                                                                         *)
(* The invariant PayInv looks at the deposits that are alive: there is one *)
(* at most, and who still waits for it or was told of it.                  *)
(***************************************************************************)
EXTENDS ValidatorClient, Payments, FiniteSetTheorems, SequenceTheorems, TLAPS

Roles == {"aggregator", "auditor"}
Pairs == {"agg", "audit"}
Things == Slots \cup Roles \cup Pairs

Names == Committing \cup Revealing \cup {"none", "register", "lock-seed"}
Steps == {"idle", "check", "work", "send", "wait", "poll", "receipt", "gave up"}
CommandType ==
    [name : Names, step : Steps, todo : Seq(Things), entry : Int, anchors : Int,
     outcome : {"none", "ok", "reverted", "refused", "unsent", "late"}, since : SUBSET Slots]
TxType == [fn : {"register", "lock", "commit", "reveal"}, of : Things, entry : Int]
SeedType == [locked : BOOLEAN, block : {"ahead", "mined", "expired"}, anchors : Int]
HashType == {NoHash} \cup (Int \X Accounts \X Slots)

ClientTypeOK ==
    /\ seed \in [Pairs -> SeedType]
    /\ DOMAIN submission = Accounts
    /\ \A a \in Accounts :
          submission[a] \in [Assigned[a] -> [commitHash : HashType, revealed : BOOLEAN]]
    /\ submission = [a \in Accounts |-> submission[a]]
    /\ mempool \in [Accounts -> Seq(TxType)]
    /\ commits \in [Machines -> [Slots -> Int]]
    /\ command \in [Accounts -> CommandType]

Cached(a, s) == s \in Slots /\ commits[MachineOf[a]][s] # NoEntry

\* What a command has to do.
TodoOK(c) ==
    /\ c.name = "none" => c.step = "idle"
    /\ c.name # "none" => c.todo # <<>>
    /\ c.name \in Committing \cup Revealing => c.todo \in Seq(Slots)
    /\ c.name = "lock-seed" => c.todo \in Seq(Pairs) /\ Len(c.todo) = 1
    /\ c.name = "register" => Len(c.todo) = 1

\* A committing command: what was committed when it began still is and is not
\* worked on, and it caches a commitment before it sends it.
CommittingOK(a, c) ==
    c.name \in Committing =>
        /\ \A s \in c.since : s \in Assigned[a] /\ Committed(a, s)
        /\ c.step \in {"work", "send"} => Head(c.todo) \notin c.since
        /\ c.step = "send" => Cached(a, Head(c.todo))

\* Why the lock of a seed that command c read would fail.
Overtaken(c, k) == seed[k].locked \/ seed[k].anchors # c.anchors

\* A command that locks the seed k.
LockingOK(c, k) ==
    /\ GIstate = BATCH_SEED_PAIRS[k] \/ seed[k].locked
    /\ c.step # "check" => c.anchors <= seed[k].anchors
    /\ c.step \in {"send", "wait"} => Overtaken(c, k) \/ seed[k].block # "ahead"
    /\ c.step = "receipt" => c.outcome \in {"unsent", "late"} \/ Overtaken(c, k)
    /\ c.step = "gave up" => c.outcome \in {"unsent", "late"}

CommandOK(a, c) ==
    /\ c \in CommandType
    /\ TodoOK(c)
    /\ CommittingOK(a, c)
    /\ c.name = "lock-seed" => LockingOK(c, Head(c.todo))
    /\ c.step \in {"receipt", "gave up"} => c.name = "lock-seed"

\* The last transaction of the pool is the lock that its command waits for.
WaitOK(a, c) ==
    c.name = "lock-seed" /\ c.step = "wait" =>
        LET n == Len(mempool[a])
        IN  n > 0 /\ mempool[a][n].fn = "lock" /\ mempool[a][n].of = Head(c.todo)

TxOK(a, tx) ==
    /\ tx \in TxType
    /\ tx.fn = "commit" => Cached(a, tx.of)
    /\ tx.fn = "lock" => tx.of \in Pairs

PoolOK(a) == \A i \in DOMAIN mempool[a] : TxOK(a, mempool[a][i])

ClientInv ==
    /\ ClientTypeOK
    /\ \A a \in Accounts : CommandOK(a, command[a]) /\ WaitOK(a, command[a]) /\ PoolOK(a)
    /\ CommitNeverStranded

-----------------------------------------------------------------------------
(* The initial state. *)

LEMMA IdleOK ==
    /\ Idle \in CommandType /\ Idle.name = "none" /\ Idle.step = "idle"
    /\ \A a : CommandOK(a, Idle) /\ WaitOK(a, Idle)
<1>1. Idle \in CommandType /\ Idle.name = "none" /\ Idle.step = "idle"
  BY DEF Idle, CommandType, Names, Steps, NoEntry
<1> QED
  BY <1>1 DEF CommandOK, TodoOK, CommittingOK, WaitOK, Committing, Revealing

LEMMA InitInv == ClientInit => ClientInv
<1> SUFFICES ASSUME ClientInit PROVE ClientInv
  OBVIOUS
<1>1. ClientTypeOK
  <2>1. submission = [a \in Accounts |-> submission[a]] /\ DOMAIN submission = Accounts
        /\ \A a \in Accounts :
              submission[a] \in [Assigned[a] -> [commitHash : HashType, revealed : BOOLEAN]]
    BY DEF ClientInit, HashType
  <2>2. seed \in [Pairs -> SeedType]
    BY DEF ClientInit, Pairs, SeedType
  <2>3. command \in [Accounts -> CommandType]
    BY IdleOK DEF ClientInit
  <2> QED
    BY <2>1, <2>2, <2>3 DEF ClientInit, ClientTypeOK, NoEntry
<1>2. \A a \in Accounts : CommandOK(a, command[a]) /\ WaitOK(a, command[a]) /\ PoolOK(a)
  BY IdleOK DEF ClientInit, PoolOK
<1>3. CommitNeverStranded
  BY DEF ClientInit, CommitNeverStranded, Committed
<1> QED
  BY <1>1, <1>2, <1>3 DEF ClientInv

-----------------------------------------------------------------------------
(* The steps, by what they touch. *)

\* What no step takes back.
ChainMoves ==
    /\ \A a \in Accounts : \A s \in Assigned[a] : Committed(a, s) => Committed(a, s)'
    /\ \A a \in Accounts : \A s \in Slots : Cached(a, s) => Cached(a, s)'
    /\ \A k \in Pairs :
          /\ GIstate = BATCH_SEED_PAIRS[k] => GIstate' = BATCH_SEED_PAIRS[k] \/ seed'[k].locked
          /\ seed[k].locked => seed'[k].locked
          /\ seed'[k].anchors >= seed[k].anchors
          /\ seed[k].block # "ahead" =>
                seed'[k].block # "ahead" \/ seed'[k].anchors > seed[k].anchors

LEMMA NothingMoves ==
    ASSUME ClientTypeOK, UNCHANGED <<chain, commits>>
    PROVE  ChainMoves
  BY DEF ClientTypeOK, SeedType, chain, ChainMoves, Committed, Cached

\* A command finds what it relies on after the chain has moved.
LEMMA CommandStays ==
    ASSUME ClientTypeOK, ClientTypeOK', ChainMoves, NEW a \in Accounts, NEW c, CommandOK(a, c)
    PROVE  CommandOK(a, c)'
<1>1. c \in CommandType /\ TodoOK(c)
  BY DEF CommandOK
<1>2. TodoOK(c)'
  BY <1>1 DEF TodoOK
<1>3. CommittingOK(a, c)'
  BY DEF CommandOK, CommittingOK, ChainMoves, Cached
<1>4. ASSUME c.name = "lock-seed" PROVE LockingOK(c, Head(c.todo))'
  <2>1. PICK k \in Pairs : k = Head(c.todo)
    BY <1>1, <1>4 DEF TodoOK
  <2>2. LockingOK(c, k)
    BY <1>4, <2>1 DEF CommandOK
  <2>3. /\ seed[k].anchors \in Int /\ seed'[k].anchors \in Int /\ c.anchors \in Int
        /\ seed'[k].anchors >= seed[k].anchors
    BY <1>1 DEF ClientTypeOK, SeedType, CommandType, ChainMoves
  <2>4. Overtaken(c, k) /\ c.anchors <= seed[k].anchors => Overtaken(c, k)'
    BY <2>3 DEF Overtaken, ChainMoves
  <2>5. LockingOK(c, k)'
    <3>1. GIstate' = BATCH_SEED_PAIRS[k] \/ seed'[k].locked
      BY <2>2 DEF LockingOK, ChainMoves
    <3>2. c.step # "check" => c.anchors <= seed'[k].anchors
      <4>1. c.step # "check" => c.anchors <= seed[k].anchors
        BY <2>2 DEF LockingOK
      <4> QED
        BY <2>3, <4>1
    <3>3. seed[k].block # "ahead" /\ c.anchors <= seed[k].anchors =>
             Overtaken(c, k)' \/ seed'[k].block # "ahead"
      BY <2>3 DEF Overtaken, ChainMoves
    <3>4. /\ c.step \in {"send", "wait"} => Overtaken(c, k)' \/ seed'[k].block # "ahead"
          /\ c.step = "receipt" => c.outcome \in {"unsent", "late"} \/ Overtaken(c, k)'
          /\ c.step = "gave up" => c.outcome \in {"unsent", "late"}
      BY <2>2, <2>4, <3>3 DEF LockingOK
    <3> QED
      BY <3>1, <3>2, <3>4 DEF LockingOK
  <2> QED
    BY <2>1, <2>5
<1> QED
  BY <1>1, <1>2, <1>3, <1>4 DEF CommandOK

LEMMA PoolStays ==
    ASSUME ClientTypeOK, ChainMoves, NEW a \in Accounts, PoolOK(a), mempool'[a] = mempool[a]
    PROVE  PoolOK(a)'
  BY DEF PoolOK, TxOK, ChainMoves, Cached

LEMMA StrandedStays ==
    ASSUME ClientInv, UNCHANGED submission, ChainMoves
    PROVE  CommitNeverStranded'
  BY ClientAssumption DEF ClientInv, CommitNeverStranded, ChainMoves, Cached, Committed

\* The command of one account takes a step; another's pool stays as it is.
LEMMA CommandStep ==
    ASSUME ClientInv, ClientTypeOK', ChainMoves, CommitNeverStranded',
           NEW a \in Accounts, NEW d, command' = [command EXCEPT ![a] = d],
           CommandOK(a, d)', WaitOK(a, d)', PoolOK(a)',
           \A b \in Accounts \ {a} : mempool'[b] = mempool[b]
    PROVE  ClientInv'
<1>1. command'[a] = d /\ \A b \in Accounts \ {a} : command'[b] = command[b]
  BY DEF ClientInv, ClientTypeOK
<1>2. ASSUME NEW b \in Accounts PROVE (CommandOK(b, command[b]) /\ WaitOK(b, command[b])
                                         /\ PoolOK(b))'
  <2>1. CASE b = a
    BY <1>1, <2>1
  <2>2. CASE b # a
    <3>1. PICK c : c = command[b]
      OBVIOUS
    <3>2. CommandOK(b, c) /\ WaitOK(b, c) /\ PoolOK(b) /\ ClientTypeOK
      BY <3>1 DEF ClientInv
    <3>3. CommandOK(b, c)'
      BY <3>2, CommandStays
    <3>4. WaitOK(b, c)'
      BY <3>2, <2>2 DEF WaitOK
    <3>5. PoolOK(b)'
      BY <3>2, <2>2, PoolStays
    <3> QED
      BY <1>1, <2>2, <3>1, <3>3, <3>4, <3>5
  <2> QED
    BY <2>1, <2>2
<1> QED
  BY <1>2 DEF ClientInv

-----------------------------------------------------------------------------
(* The commands' own steps. *)

\* Only the command changes.
LEMMA QuietStep ==
    ASSUME ClientInv, NEW a \in Accounts, NEW d, CommandOK(a, d), d.step # "wait",
           command' = [command EXCEPT ![a] = d], UNCHANGED <<chain, mempool, commits>>
    PROVE  ClientInv'
<1>1. ClientTypeOK /\ ClientTypeOK'
  BY DEF ClientInv, ClientTypeOK, CommandOK, chain
<1>2. ChainMoves /\ CommitNeverStranded'
  BY <1>1, NothingMoves, StrandedStays DEF chain
<1>3. CommandOK(a, d)' /\ WaitOK(a, d)'
  BY <1>1, <1>2, CommandStays DEF WaitOK
<1>4. PoolOK(a)'
  BY <1>1, <1>2, PoolStays DEF ClientInv
<1> QED
  BY <1>1, <1>2, <1>3, <1>4, CommandStep

LEMMA TailFacts ==
    ASSUME NEW S, NEW q \in Seq(S), q # <<>>
    PROVE  /\ Head(q) \in S /\ Tail(q) \in Seq(S)
           /\ Len(q) \in Nat \ {0} /\ Len(Tail(q)) = Len(q) - 1
           /\ Len(q) # 1 => Tail(q) # <<>>
<1>1. /\ Head(q) \in S /\ Tail(q) \in Seq(S)
      /\ Len(q) \in Nat \ {0} /\ Len(Tail(q)) = Len(q) - 1
  BY HeadTailProperties
<1>2. ASSUME Len(q) # 1 PROVE Tail(q) # <<>>
  <2>1. Len(Tail(q)) # 0
    BY <1>1, <1>2
  <2>2. Len(<<>>) = 0
    OBVIOUS
  <2> QED
    BY <2>1, <2>2, Zenon
<1> QED
  BY <1>1, <1>2

LEMMA CurrentCommand ==
    ASSUME ClientInv, NEW a \in Accounts
    PROVE  CommandOK(a, command[a]) /\ WaitOK(a, command[a]) /\ command[a] \in CommandType
  BY DEF ClientInv, CommandOK

\* A command over slots goes on to its next one, or is done.
LEMMA NextSlotOK ==
    ASSUME NEW a \in Accounts, NEW c, CommandOK(a, c),
           c.name \in Committing \cup Revealing \cup {"register"}
    PROVE  CommandOK(a, OnNextSlot(c)) /\ OnNextSlot(c).step # "wait"
<1>1. CASE Len(c.todo) = 1
  BY <1>1, IdleOK DEF OnNextSlot
<1>2. CASE Len(c.todo) # 1
  <2> DEFINE d == [c EXCEPT !.step = "check", !.todo = Tail(@), !.entry = NoEntry]
  <2>1. c \in CommandType /\ TodoOK(c) /\ c.todo \in Seq(Things) /\ c.todo # <<>>
        /\ c.name \in Committing \cup Revealing
    BY <1>2 DEF CommandOK, TodoOK, CommandType, Committing, Revealing
  <2>2. Tail(c.todo) \in Seq(Things) /\ Tail(c.todo) \in Seq(Slots) /\ Tail(c.todo) # <<>>
    BY <1>2, <2>1, TailFacts DEF TodoOK
  <2>3. /\ d \in CommandType /\ d.name = c.name /\ d.step = "check" /\ d.since = c.since
        /\ d.todo = Tail(c.todo)
    <3>1. NoEntry \in Int
      BY DEF NoEntry
    <3> QED
      BY <2>1, <2>2, <3>1 DEF CommandType, Steps
  <2> HIDE DEF d
  <2>4. TodoOK(d) /\ d.name # "lock-seed"
    BY <2>1, <2>2, <2>3 DEF TodoOK, Committing, Revealing
  <2>5. CommittingOK(a, d)
    BY <2>3 DEF CommandOK, CommittingOK
  <2>6. CommandOK(a, d) /\ d.step # "wait"
    BY <2>3, <2>4, <2>5 DEF CommandOK
  <2> QED
    BY <1>2, <2>6 DEF OnNextSlot, d
<1> QED
  BY <1>1, <1>2

\* A command takes up work, sending, polling or giving up, which it records in step.
LEMMA StepOK ==
    ASSUME NEW a \in Accounts, NEW c, CommandOK(a, c), NEW s \in Steps,
           NEW e \in Int, NEW n \in Int, NEW o \in {"none", "ok", "reverted", "refused",
                                                    "unsent", "late"},
           c.name # "none",
           c.name \in Committing =>
              /\ s \in {"work", "send"} => Head(c.todo) \notin c.since
              /\ s = "send" => Cached(a, Head(c.todo)),
           c.name = "lock-seed" =>
              LockingOK([c EXCEPT !.step = s, !.entry = e, !.anchors = n, !.outcome = o],
                        Head(c.todo)),
           s \in {"receipt", "gave up"} => c.name = "lock-seed"
    PROVE  CommandOK(a, [c EXCEPT !.step = s, !.entry = e, !.anchors = n, !.outcome = o])
<1> DEFINE d == [c EXCEPT !.step = s, !.entry = e, !.anchors = n, !.outcome = o]
<1>1. c \in CommandType /\ TodoOK(c) /\ CommittingOK(a, c)
  BY DEF CommandOK
<1>2. /\ d \in CommandType /\ d.name = c.name /\ d.step = s /\ d.todo = c.todo
      /\ d.since = c.since
  BY <1>1 DEF CommandType
<1>3. c.name = "lock-seed" => LockingOK(d, Head(c.todo))
  OBVIOUS
<1> HIDE DEF d
<1>4. TodoOK(d)
  BY <1>1, <1>2 DEF TodoOK
<1>5. CommittingOK(a, d)
  BY <1>1, <1>2 DEF CommittingOK
<1>6. CommandOK(a, d)
  BY <1>2, <1>3, <1>4, <1>5 DEF CommandOK
<1> QED
  BY <1>6 DEF d

LEMMA CheckCommittedStep ==
    ASSUME ClientInv, NEW a \in Accounts, CheckCommitted(a) PROVE ClientInv'
<1>1. PICK c : c = command[a]
  OBVIOUS
<1>2. CommandOK(a, c) /\ c \in CommandType /\ c.name \in Committing /\ c.step = "check"
  BY <1>1, CurrentCommand DEF CheckCommitted, Running
<1>3. CASE Committed(a, SlotOf(a))
  <2>1. command' = [command EXCEPT ![a] = OnNextSlot(c)]
    BY <1>1, <1>3 DEF CheckCommitted, NextSlot
  <2> QED
    BY <1>2, <2>1, NextSlotOK, QuietStep DEF CheckCommitted
<1>4. CASE ~Committed(a, SlotOf(a))
  <2> DEFINE d == [c EXCEPT !.step = "work", !.entry = c.entry, !.anchors = c.anchors,
                            !.outcome = c.outcome]
  <2>1. Head(c.todo) \notin c.since
    BY <1>1, <1>2, <1>4 DEF CommandOK, CommittingOK, SlotOf
  <2>2. CommandOK(a, d)
    <3>1. /\ c.entry \in Int /\ c.anchors \in Int /\ "work" \in Steps
          /\ c.outcome \in {"none", "ok", "reverted", "refused", "unsent", "late"}
      BY <1>2 DEF CommandType, Steps
    <3>2. c.name \notin {"none", "lock-seed"}
      BY <1>2 DEF Committing
    <3> QED
      BY <1>2, <2>1, <3>1, <3>2, StepOK
  <2>3. d = [c EXCEPT !.step = "work"] /\ d.step = "work"
    BY <1>2 DEF CommandType
  <2>4. command' = [command EXCEPT ![a] = d]
    BY <1>1, <1>4, <2>3 DEF CheckCommitted, ClientInv, ClientTypeOK
  <2> HIDE DEF d
  <2> QED
    BY <2>2, <2>3, <2>4, QuietStep DEF CheckCommitted
<1> QED
  BY <1>3, <1>4

\* A command goes on to the next slot, or ends; nothing else happens.
LEMMA LeavesSlotStep ==
    ASSUME ClientInv, NEW a \in Accounts, UNCHANGED <<chain, mempool, commits>>,
           \/ Abort(a)
           \/ NextSlot(a) /\ command[a].name \in Committing \cup Revealing \cup {"register"}
    PROVE  ClientInv'
<1>1. PICK c : c = command[a]
  OBVIOUS
<1>2. CASE Abort(a)
  BY <1>2, IdleOK, QuietStep DEF Abort
<1>3. CASE NextSlot(a) /\ c.name \in Committing \cup Revealing \cup {"register"}
  <2>1. command' = [command EXCEPT ![a] = OnNextSlot(c)]
    BY <1>1, <1>3 DEF NextSlot
  <2>2. CommandOK(a, c)
    BY <1>1, CurrentCommand
  <2> QED
    BY <1>3, <2>1, <2>2, NextSlotOK, QuietStep
<1> QED
  BY <1>1, <1>2, <1>3

\* The cache of a command's slot is written with something.
LEMMA CacheMoves ==
    ASSUME ClientInv, NEW a \in Accounts, NEW s \in Slots, s = SlotOf(a),
           NEW e \in Int, e # NoEntry, Cache(a, e), UNCHANGED chain
    PROVE  /\ ChainMoves
           /\ commits' \in [Machines -> [Slots -> Int]]
           /\ Cached(a, s)'
<1>1. MachineOf[a] \in Machines /\ commits \in [Machines -> [Slots -> Int]]
  BY DEF Machines, ClientInv, ClientTypeOK
<1>2. commits' = [commits EXCEPT ![MachineOf[a]][s] = e]
  BY DEF Cache
<1>3. commits' \in [Machines -> [Slots -> Int]] /\ Cached(a, s)'
  BY <1>1, <1>2 DEF Cached
<1>4. \A b \in Accounts : \A r \in Slots : Cached(b, r) => Cached(b, r)'
  <2> SUFFICES ASSUME NEW b \in Accounts, NEW r \in Slots, Cached(b, r) PROVE Cached(b, r)'
    OBVIOUS
  <2>1. MachineOf[b] \in Machines
    BY DEF Machines
  <2> QED
    BY <1>1, <1>2, <2>1 DEF Cached
<1>5. ChainMoves
  BY <1>4 DEF ClientInv, ClientTypeOK, SeedType, chain, ChainMoves, Committed
<1> QED
  BY <1>3, <1>5

LEMMA CachingStep ==
    ASSUME ClientInv, NEW a \in Accounts, NEW s \in Slots, s = SlotOf(a),
           NEW e \in Int, e # NoEntry, Cache(a, e), UNCHANGED <<chain, mempool>>,
           NEW d, command' = [command EXCEPT ![a] = d], d.step # "wait",
           CommandOK(a, d) \/ CommandOK(a, d)'
    PROVE  ClientInv'
<1>1. ChainMoves /\ commits' \in [Machines -> [Slots -> Int]]
  BY CacheMoves
<1>2. ClientTypeOK /\ ClientTypeOK'
  BY <1>1 DEF ClientInv, ClientTypeOK, CommandOK, chain
<1>3. CommandOK(a, d)' /\ WaitOK(a, d)'
  BY <1>1, <1>2, CommandStays DEF WaitOK
<1>4. PoolOK(a)' /\ CommitNeverStranded'
  BY <1>1, <1>2, PoolStays, StrandedStays DEF ClientInv, chain
<1> QED
  BY <1>1, <1>2, <1>3, <1>4, CommandStep

LEMMA CommittingSlot ==
    ASSUME ClientInv, NEW a \in Accounts, command[a].name \in Committing \cup Revealing
    PROVE  SlotOf(a) \in Slots /\ command[a].todo # <<>>
<1>1. TodoOK(command[a])
  BY CurrentCommand DEF CommandOK
<1>2. command[a].todo \in Seq(Slots) /\ command[a].todo # <<>>
  BY <1>1 DEF TodoOK, Committing, Revealing
<1> QED
  BY <1>2, TailFacts DEF SlotOf

LEMMA WorkStep ==
    ASSUME ClientInv, NEW a \in Accounts, WorkT1(a) \/ WorkT2(a) \/ WorkAudit(a)
    PROVE  ClientInv'
<1>1. /\ command[a].name \in Committing /\ command[a].step = "work"
      /\ UNCHANGED <<chain, mempool>>
      /\ \/ SaveCommit(a)
         \/ (NextSlot(a) \/ Abort(a)) /\ UNCHANGED commits
  BY DEF WorkT1, WorkT2, WorkAudit, WorkOn, Running, Committing
<1>2. CASE SaveCommit(a)
  <2>1. PICK c : c = command[a]
    OBVIOUS
  <2>2. PICK s \in Slots : s = SlotOf(a)
    BY <1>1, CommittingSlot
  <2>3. PICK e \in Salts : /\ Cache(a, e)
                           /\ command' = [command EXCEPT ![a].step = "send", ![a].entry = e]
    BY <1>2 DEF SaveCommit
  <2>4. e \in Int /\ e # NoEntry
    BY <2>3, ClientAssumption DEF NoEntry
  <2>5. CommandOK(a, c) /\ c \in CommandType /\ s = Head(c.todo)
    BY <2>1, <2>2, CurrentCommand DEF SlotOf
  <2> DEFINE d == [c EXCEPT !.step = "send", !.entry = e, !.anchors = c.anchors,
                            !.outcome = c.outcome]
  <2>6. ChainMoves /\ Cached(a, s)' /\ commits' \in [Machines -> [Slots -> Int]]
    BY <1>1, <2>2, <2>3, <2>4, CacheMoves
  <2>7. /\ d \in CommandType /\ d.name = c.name /\ d.todo = c.todo /\ d.since = c.since
        /\ d.step = "send" /\ d = [c EXCEPT !.step = "send", !.entry = e]
    BY <2>4, <2>5 DEF CommandType, Steps
  <2>8. command' = [command EXCEPT ![a] = d]
    BY <2>1, <2>3, <2>7 DEF ClientInv, ClientTypeOK
  <2> HIDE DEF d
  <2>9. TodoOK(d) /\ d.name # "lock-seed"
    BY <1>1, <2>1, <2>5, <2>7 DEF CommandOK, TodoOK, Committing
  <2>10. CommittingOK(a, d)'
    BY <1>1, <2>1, <2>5, <2>6, <2>7 DEF CommandOK, CommittingOK, ChainMoves
  <2>11. CommandOK(a, d)'
    BY <2>7, <2>9, <2>10 DEF CommandOK, TodoOK
  <2>12. d.step # "wait"
    BY <2>7
  <2> QED
    BY <1>1, <2>2, <2>3, <2>4, <2>8, <2>11, <2>12, CachingStep
<1>3. CASE (NextSlot(a) \/ Abort(a)) /\ UNCHANGED commits
  BY <1>1, <1>3, LeavesSlotStep
<1> QED
  BY <1>1, <1>2, <1>3

LEMMA KilledStep ==
    ASSUME ClientInv, NEW a \in Accounts, Killed(a) PROVE ClientInv'
<1>1. CASE UNCHANGED commits
  BY <1>1, LeavesSlotStep DEF Killed
<1>2. CASE Running(a, Committing, "work") /\ Cache(a, Torn)
  <2>1. PICK s \in Slots : s = SlotOf(a)
    BY <1>2, CommittingSlot DEF Running
  <2>2. Torn \in Int /\ Torn # NoEntry
    BY DEF Torn, NoEntry
  <2>3. command' = [command EXCEPT ![a] = Idle] /\ UNCHANGED <<chain, mempool>>
    BY DEF Killed, Abort
  <2>4. CommandOK(a, Idle) /\ Idle.step # "wait"
    BY IdleOK
  <2> QED
    BY <1>2, <2>1, <2>2, <2>3, <2>4, CachingStep
<1> QED
  BY <1>1, <1>2 DEF Killed

LEMMA LoadCommitStep ==
    ASSUME ClientInv, NEW a \in Accounts, LoadCommit(a) PROVE ClientInv'
<1>1. PICK c : c = command[a]
  OBVIOUS
<1>2. /\ CommandOK(a, c) /\ c \in CommandType /\ c.name \in Revealing
      /\ UNCHANGED <<chain, mempool, commits>>
  BY <1>1, CurrentCommand DEF LoadCommit, Running
<1>3. CASE NextSlot(a) \/ Abort(a)
  BY <1>1, <1>2, <1>3, LeavesSlotStep
<1>4. CASE ~(NextSlot(a) \/ Abort(a))
  <2>1. PICK e : /\ e = commits[MachineOf[a]][SlotOf(a)]
                 /\ command' = [command EXCEPT ![a].step = "send", ![a].entry = e]
    BY <1>4 DEF LoadCommit
  <2>2. e \in Int
    <3>1. SlotOf(a) \in Slots /\ MachineOf[a] \in Machines
      BY <1>1, <1>2, CommittingSlot DEF Machines
    <3> QED
      BY <2>1, <3>1 DEF ClientInv, ClientTypeOK
  <2> DEFINE d == [c EXCEPT !.step = "send", !.entry = e, !.anchors = c.anchors,
                            !.outcome = c.outcome]
  <2>3. /\ c.anchors \in Int /\ "send" \in Steps
        /\ c.outcome \in {"none", "ok", "reverted", "refused", "unsent", "late"}
    BY <1>2 DEF CommandType, Steps
  <2>4. c.name \notin Committing \cup {"none", "lock-seed"}
    BY <1>2 DEF Committing, Revealing
  <2>5. CommandOK(a, d)
    BY <1>2, <2>2, <2>3, <2>4, StepOK
  <2>6. d = [c EXCEPT !.step = "send", !.entry = e] /\ d.step = "send"
    BY <1>2 DEF CommandType
  <2>7. command' = [command EXCEPT ![a] = d]
    BY <1>1, <2>1, <2>6 DEF ClientInv, ClientTypeOK
  <2> HIDE DEF d
  <2> QED
    BY <1>2, <2>5, <2>6, <2>7, QuietStep
<1> QED
  BY <1>3, <1>4

-----------------------------------------------------------------------------
(* A command begins. *)

\* A command that was idle begins with a name, things to do and what is committed.
LEMMA BeginsStep ==
    ASSUME ClientInv, NEW a \in Accounts, command[a] = Idle,
           UNCHANGED <<chain, mempool, commits>>, NEW name \in Names \ {"none"},
           NEW s \in {"check", "send"}, NEW v \in Seq(Things), NEW since \in SUBSET Slots,
           command' = [command EXCEPT ![a].name = name, ![a].step = s, ![a].todo = v,
                                      ![a].since = since],
           v # <<>>,
           name \in Committing \cup Revealing => v \in Seq(Slots) /\ s = "check",
           name \in Committing => \A r \in since : r \in Assigned[a] /\ Committed(a, r),
           name = "register" => Len(v) = 1,
           name = "lock-seed" => /\ v \in Seq(Pairs) /\ Len(v) = 1 /\ s = "check"
                                 /\ GIstate = BATCH_SEED_PAIRS[Head(v)]
    PROVE  ClientInv'
<1> DEFINE d == [Idle EXCEPT !.name = name, !.step = s, !.todo = v, !.since = since]
<1>1. /\ d \in CommandType /\ d.name = name /\ d.step = s /\ d.todo = v /\ d.since = since
  BY IdleOK DEF CommandType, Steps
<1>2. command' = [command EXCEPT ![a] = d]
  BY DEF ClientInv, ClientTypeOK
<1> HIDE DEF d
<1>3. TodoOK(d)
  BY <1>1 DEF TodoOK
<1>4. CommittingOK(a, d)
  BY <1>1 DEF CommittingOK
<1>5. d.name = "lock-seed" => LockingOK(d, Head(d.todo))
  BY <1>1 DEF LockingOK
<1>6. CommandOK(a, d) /\ d.step # "wait"
  BY <1>1, <1>3, <1>4, <1>5 DEF CommandOK
<1> QED
  BY <1>2, <1>6, QuietStep

LEMMA VisitsTyped ==
    ASSUME NEW S \in SUBSET Slots, NEW v \in Visits(S)
    PROVE  v \in Seq(Slots)
<1>1. Cardinality(S) \in Nat
  BY ClientAssumption, FS_Subset, FS_CardinalityType
<1>2. CASE v \in [1..Cardinality(S) -> S]
  BY <1>1, <1>2
<1>3. CASE v \in {<<s>> : s \in S}
  <2>1. PICK s \in S : v = <<s>>
    BY <1>3
  <2>2. s \in Slots
    OBVIOUS
  <2>3. <<s>> \in Seq(Slots)
    BY <2>2
  <2> QED
    BY <2>1, <2>3
<1> QED
  BY <1>2, <1>3 DEF Visits

LEMMA BeginStep ==
    ASSUME ClientInv, NEW a \in Accounts, NEW name \in Committing \cup Revealing, NEW state,
           NEW S \in SUBSET Slots, Begin(a, name, state, S)
    PROVE  ClientInv'
<1>1. PICK v \in Visits(S) \ {<<>>} :
         command' = [command EXCEPT ![a].name = name, ![a].step = "check", ![a].todo = v,
                       ![a].since = {s \in ToSet(v) \cap Assigned[a] : Committed(a, s)}]
  BY DEF Begin
<1>2. PICK since : since = {s \in ToSet(v) \cap Assigned[a] : Committed(a, s)}
  OBVIOUS
<1>3. v \in Seq(Slots) /\ v \in Seq(Things) /\ v # <<>>
  BY VisitsTyped DEF Things
<1>4. since \in SUBSET Slots /\ \A r \in since : r \in Assigned[a] /\ Committed(a, r)
  BY <1>2, ClientAssumption
<1>5. name \in Names \ {"none"} /\ name \notin {"register", "lock-seed"}
  BY DEF Names, Committing, Revealing
<1>6. command[a] = Idle /\ UNCHANGED <<chain, mempool, commits>>
  BY DEF Begin
<1>7. command' = [command EXCEPT ![a].name = name, ![a].step = "check", ![a].todo = v,
                                 ![a].since = since]
  BY <1>1, <1>2
<1> QED
  BY <1>3, <1>4, <1>5, <1>6, <1>7, BeginsStep

LEMMA StartsStep ==
    ASSUME ClientInv, NEW a \in Accounts, Starts(a) PROVE ClientInv'
<1>1. /\ InTier(Assigned[a], "t1") \in SUBSET Slots /\ InTier(Assigned[a], "t2") \in SUBSET Slots
      /\ InTier(Assigned[a], "audit") \in SUBSET Slots
      /\ InTier(Slots, "t1") \in SUBSET Slots /\ InTier(Slots, "t2") \in SUBSET Slots
  BY ClientAssumption DEF InTier
<1>2. CASE AggregateT1(a) \/ AggregateT2(a) \/ EvaluateLMS(a)
  <2>1. {"aggregate-t1", "aggregate-t2", "evaluate"} \subseteq Committing \cup Revealing
    BY DEF Committing
  <2> QED
    BY <1>1, <1>2, <2>1, BeginStep DEF AggregateT1, AggregateT2, EvaluateLMS
<1>3. CASE RevealT1(a) \/ RevealT2(a) \/ RevealLMS(a)
  <2>1. {"reveal-t1", "reveal-t2", "reveal"} \subseteq Committing \cup Revealing
    BY DEF Revealing
  <2> QED
    BY <1>1, <1>3, <2>1, BeginStep DEF RevealT1, RevealT2, RevealLMS
<1>4. PICK none \in SUBSET Slots : none = {}
  OBVIOUS
<1>5. Idle.since = none /\ command \in [Accounts -> CommandType]
  BY <1>4 DEF Idle, ClientInv, ClientTypeOK
<1>6. CASE RegisterAggregator(a) \/ RegisterAuditor(a)
  <2>1. PICK role \in Roles : RegisterAs(a, role)
    BY <1>6 DEF RegisterAggregator, RegisterAuditor, Roles
  <2>2. /\ command[a] = Idle /\ UNCHANGED <<chain, mempool, commits>>
        /\ command' = [command EXCEPT ![a].name = "register", ![a].step = "send",
                                      ![a].todo = <<role>>]
    BY <2>1 DEF RegisterAs
  <2>3. command' = [command EXCEPT ![a].name = "register", ![a].step = "send",
                                   ![a].todo = <<role>>, ![a].since = none]
    BY <1>5, <2>2 DEF CommandType
  <2>4. <<role>> \in Seq(Things) /\ <<role>> # <<>> /\ Len(<<role>>) = 1
    BY DEF Things
  <2>5. "register" \in Names \ {"none"} /\ "register" \notin Committing \cup Revealing
    BY DEF Names, Committing, Revealing
  <2> QED
    BY <2>2, <2>3, <2>4, <2>5, BeginsStep
<1>7. CASE LockAggSeed(a) \/ LockAuditSeed(a)
  <2>1. PICK k \in Pairs : LockBatchSeedIfPending(a, k)
    BY <1>7 DEF LockAggSeed, LockAuditSeed, Pairs
  <2>2. /\ command[a] = Idle /\ UNCHANGED <<chain, mempool, commits>>
        /\ GIstate = BATCH_SEED_PAIRS[k]
        /\ command' = [command EXCEPT ![a].name = "lock-seed", ![a].step = "check",
                                      ![a].todo = <<k>>]
    BY <2>1 DEF LockBatchSeedIfPending
  <2>3. command' = [command EXCEPT ![a].name = "lock-seed", ![a].step = "check",
                                   ![a].todo = <<k>>, ![a].since = none]
    BY <1>5, <2>2 DEF CommandType
  <2>4. /\ <<k>> \in Seq(Things) /\ <<k>> \in Seq(Pairs) /\ <<k>> # <<>> /\ Len(<<k>>) = 1
        /\ Head(<<k>>) = k
    BY DEF Things
  <2>5. "lock-seed" \in Names \ {"none"} /\ "lock-seed" \notin Committing \cup Revealing
    BY DEF Names, Committing, Revealing
  <2> QED
    BY <2>2, <2>3, <2>4, <2>5, BeginsStep
<1> QED
  BY <1>2, <1>3, <1>6, <1>7 DEF Starts

-----------------------------------------------------------------------------
(* A command that locks a seed. *)

LEMMA LockingCommand ==
    ASSUME ClientInv, NEW a \in Accounts, NEW c, c = command[a], c.name = "lock-seed"
    PROVE  \E k \in Pairs :
              /\ k = Head(c.todo) /\ k = SlotOf(a)
              /\ CommandOK(a, c) /\ c \in CommandType /\ LockingOK(c, k)
              /\ c.anchors \in Int /\ seed[k].anchors \in Int /\ c.entry \in Int
              /\ c.outcome \in {"none", "ok", "reverted", "refused", "unsent", "late"}
<1>1. CommandOK(a, c) /\ c \in CommandType
  BY CurrentCommand
<1>2. c.todo \in Seq(Pairs) /\ c.todo # <<>>
  BY <1>1 DEF CommandOK, TodoOK
<1>3. Head(c.todo) \in Pairs /\ Head(c.todo) = SlotOf(a)
  BY <1>2, TailFacts DEF SlotOf
<1> QED
  BY <1>1, <1>3 DEF CommandOK, CommandType, ClientInv, ClientTypeOK, SeedType

\* It takes its next step, and nothing else happens.
LEMMA LockingStep ==
    ASSUME ClientInv, NEW a \in Accounts, NEW c, c = command[a], c.name = "lock-seed",
           UNCHANGED <<chain, mempool, commits>>,
           NEW d \in CommandType, d.name = c.name, d.todo = c.todo, d.step # "wait",
           LockingOK(d, Head(c.todo)), command' = [command EXCEPT ![a] = d]
    PROVE  ClientInv'
<1>1. TodoOK(c) /\ d.name \notin Committing
  BY CurrentCommand DEF CommandOK, Committing
<1>2. TodoOK(d)
  BY <1>1 DEF TodoOK
<1>3. CommandOK(a, d)
  BY <1>1, <1>2 DEF CommandOK, CommittingOK
<1> QED
  BY <1>3, QuietStep

LEMMA ReadSeedStep ==
    ASSUME ClientInv, NEW a \in Accounts, ReadSeed(a) \/ SeedBlockMined(a) PROVE ClientInv'
<1>1. PICK c : c = command[a]
  OBVIOUS
<1>2. c.name = "lock-seed" /\ UNCHANGED <<chain, mempool, commits>>
  BY <1>1 DEF ReadSeed, SeedBlockMined, Running
<1>3. PICK k \in Pairs :
              /\ k = Head(c.todo) /\ k = SlotOf(a)
              /\ CommandOK(a, c) /\ c \in CommandType /\ LockingOK(c, k)
              /\ c.anchors \in Int /\ seed[k].anchors \in Int /\ c.entry \in Int
              /\ c.outcome \in {"none", "ok", "reverted", "refused", "unsent", "late"}
  BY <1>1, <1>2, LockingCommand
<1>4. command \in [Accounts -> CommandType]
  BY DEF ClientInv, ClientTypeOK
<1>5. CASE Locked(a)
  BY <1>2, <1>5, LeavesSlotStep DEF ReadSeed, SeedBlockMined
<1>6. CASE ReadSeed(a) /\ ~Locked(a)
  <2>0. PICK n \in Int : n = seed[k].anchors
    BY <1>3
  <2>d. PICK d : d = [c EXCEPT !.step = "poll", !.entry = c.entry, !.anchors = n,
                                 !.outcome = c.outcome]
    OBVIOUS
  <2>1. command' = [command EXCEPT ![a] = d]
    BY <2>0, <2>d, <1>1, <1>3, <1>4, <1>6 DEF ReadSeed, CommandType
  <2>2. /\ d \in CommandType /\ d.name = c.name /\ d.todo = c.todo
        /\ d.step = "poll" /\ d.anchors = n
    BY <1>3, <2>d DEF CommandType, Steps
  <2>3. LockingOK(d, k)
    <3>1. d.anchors <= seed[k].anchors
      BY <2>0, <2>2
    <3> QED
      BY <1>3, <2>2, <3>1 DEF LockingOK
  <2> QED
    BY <1>1, <1>2, <1>3, <2>1, <2>2, <2>3, LockingStep
<1>7. CASE SeedBlockMined(a) /\ ~Locked(a)
  <2>d. PICK d : d = [c EXCEPT !.step = "send", !.entry = c.entry, !.anchors = c.anchors,
                                 !.outcome = c.outcome]
    OBVIOUS
  <2>1. command' = [command EXCEPT ![a] = d]
    BY <2>d, <1>1, <1>3, <1>4, <1>7 DEF SeedBlockMined, CommandType
  <2>2. /\ d \in CommandType /\ d.name = c.name /\ d.todo = c.todo
        /\ d.step = "send" /\ d.anchors = c.anchors
    BY <1>3, <2>d DEF CommandType, Steps
  <2>3. LockingOK(d, k)
    BY <1>1, <1>3, <1>7, <2>2 DEF LockingOK, Overtaken, SeedBlockMined, Running
  <2> QED
    BY <1>1, <1>2, <1>3, <2>1, <2>2, <2>3, LockingStep
<1> QED
  BY <1>5, <1>6, <1>7

LEMMA RecheckStep ==
    ASSUME ClientInv, NEW a \in Accounts, RecheckSeed(a) \/ GiveUp(a) PROVE ClientInv'
<1>1. PICK c : c = command[a]
  OBVIOUS
<1>2. c.name = "lock-seed" /\ UNCHANGED <<chain, mempool, commits>>
  BY <1>1 DEF RecheckSeed, GiveUp, Running
<1>3. PICK k \in Pairs :
              /\ k = Head(c.todo) /\ k = SlotOf(a)
              /\ CommandOK(a, c) /\ c \in CommandType /\ LockingOK(c, k)
              /\ c.anchors \in Int /\ seed[k].anchors \in Int /\ c.entry \in Int
              /\ c.outcome \in {"none", "ok", "reverted", "refused", "unsent", "late"}
  BY <1>1, <1>2, LockingCommand
<1>4. command \in [Accounts -> CommandType]
  BY DEF ClientInv, ClientTypeOK
<1>5. CASE GiveUp(a) \/ Locked(a)
  <2>1. Abort(a)
    BY <1>5 DEF GiveUp, RecheckSeed, Abort
  <2> QED
    BY <1>2, <2>1, LeavesSlotStep
<1>6. CASE RecheckSeed(a) /\ ~Locked(a) /\ Reanchored(a)
  <2>1. PICK n \in Int : n = 0
    OBVIOUS
  <2>d. PICK d : d = [c EXCEPT !.step = "check", !.entry = c.entry, !.anchors = n,
                                 !.outcome = "none"]
    OBVIOUS
  <2>2. command' = [command EXCEPT ![a] = d]
    BY <2>d, <1>1, <1>3, <1>4, <1>6, <2>1 DEF RecheckSeed, CommandType
  <2>3. /\ d \in CommandType /\ d.name = c.name /\ d.todo = c.todo
        /\ d.step = "check"
    BY <1>3, <2>d DEF CommandType, Steps
  <2>4. LockingOK(d, k)
    BY <1>3, <2>3 DEF LockingOK
  <2> QED
    BY <1>1, <1>2, <1>3, <2>2, <2>3, <2>4, LockingStep
<1>7. CASE RecheckSeed(a) /\ ~Locked(a) /\ ~Reanchored(a)
  <2>d. PICK d : d = [c EXCEPT !.step = "gave up", !.entry = c.entry, !.anchors = c.anchors,
                                 !.outcome = c.outcome]
    OBVIOUS
  <2>1. command' = [command EXCEPT ![a] = d]
    BY <2>d, <1>1, <1>3, <1>4, <1>7 DEF RecheckSeed, CommandType
  <2>2. /\ d \in CommandType /\ d.name = c.name /\ d.todo = c.todo
        /\ d.step = "gave up" /\ d.anchors = c.anchors /\ d.outcome = c.outcome
    BY <1>3, <2>d DEF CommandType, Steps
  <2>3. c.step = "receipt" /\ ~Overtaken(c, k)
    BY <1>1, <1>3, <1>7 DEF RecheckSeed, Running, Overtaken, Locked, Reanchored
  <2>4. LockingOK(d, k)
    BY <1>3, <2>2, <2>3 DEF LockingOK
  <2> QED
    BY <1>1, <1>2, <1>3, <2>1, <2>2, <2>4, LockingStep
<1> QED
  BY <1>5, <1>6, <1>7

-----------------------------------------------------------------------------
(* Sending, and what becomes of it. *)

Outcomes == {"ok", "reverted", "refused", "unsent", "late"}

LEMMA OnReceiptOK ==
    ASSUME NEW a \in Accounts, NEW c, CommandOK(a, c), c.name # "none", NEW o \in Outcomes,
           c.step \in {"send", "wait"},
           c.name = "lock-seed" => o \in {"unsent", "late"} \/ Overtaken(c, Head(c.todo))
    PROVE  CommandOK(a, OnReceipt(c, o)) /\ OnReceipt(c, o).step # "wait"
<1>1. c \in CommandType /\ TodoOK(c)
  BY DEF CommandOK
<1>2. CASE c.name # "lock-seed"
  <2>1. c.name \in Committing \cup Revealing \cup {"register"}
    BY <1>1, <1>2 DEF CommandType, Names
  <2> QED
    BY <1>2, <2>1, NextSlotOK DEF OnReceipt
<1>3. CASE c.name = "lock-seed"
  <2>1. PICK d : d = [c EXCEPT !.step = "receipt", !.outcome = o]
    OBVIOUS
  <2>2. /\ d \in CommandType /\ d.name = c.name /\ d.todo = c.todo /\ d.step = "receipt"
        /\ d.outcome = o /\ d.anchors = c.anchors
    BY <1>1, <2>1 DEF CommandType, Steps, Outcomes
  <2>3. LockingOK(d, Head(d.todo))
    BY <1>3, <2>2 DEF CommandOK, LockingOK, Overtaken
  <2>4. TodoOK(d) /\ CommittingOK(a, d)
    BY <1>1, <1>3, <2>2 DEF TodoOK, CommittingOK, Committing
  <2>5. CommandOK(a, d) /\ d.step # "wait"
    BY <1>3, <2>2, <2>3, <2>4 DEF CommandOK
  <2> QED
    BY <1>3, <2>1, <2>5 DEF OnReceipt
<1> QED
  BY <1>2, <1>3

LEMMA AppendFacts ==
    ASSUME NEW S, NEW q \in Seq(S), NEW x \in S, NEW r, r = Append(q, x)
    PROVE  /\ Len(r) = Len(q) + 1 /\ Len(q) \in Nat /\ r[Len(r)] = x
           /\ \A i \in DOMAIN r : r[i] = x \/ (i \in DOMAIN q /\ r[i] = q[i])
<1>1. /\ Len(r) = Len(q) + 1 /\ Len(q) \in Nat /\ r \in Seq(S)
      /\ \A i \in 1..Len(q) : r[i] = q[i]
      /\ r[Len(q) + 1] = x
  BY AppendProperties
<1>2. DOMAIN r = 1..Len(r) /\ DOMAIN q = 1..Len(q)
  BY <1>1, LenProperties
<1>3. \A i \in DOMAIN r : i \in 1..Len(q) \/ i = Len(q) + 1
  BY <1>1, <1>2
<1>4. \A i \in DOMAIN r : r[i] = x \/ (i \in DOMAIN q /\ r[i] = q[i])
  <2> SUFFICES ASSUME NEW i \in DOMAIN r PROVE r[i] = x \/ (i \in DOMAIN q /\ r[i] = q[i])
    OBVIOUS
  <2>1. CASE i \in 1..Len(q)
    BY <1>1, <1>2, <2>1, Zenon
  <2>2. CASE i = Len(q) + 1
    BY <1>1, <2>2, Zenon
  <2> QED
    BY <1>3, <2>1, <2>2
<1>5. r[Len(r)] = x
  BY <1>1, Zenon
<1> QED
  BY <1>1, <1>4, <1>5, Zenon

\* build_and_send_tx with a transaction that the command may send.
LEMMA SendStep ==
    ASSUME ClientInv, NEW a \in Accounts, command[a].name # "none", command[a].step = "send",
           NEW tx, TxOK(a, tx), BuildAndSendTx(a, tx),
           command[a].name = "lock-seed" => tx.fn = "lock" /\ tx.of = SlotOf(a)
    PROVE  ClientInv'
<1>1. PICK c : c = command[a]
  OBVIOUS
<1>2. CommandOK(a, c) /\ c \in CommandType /\ UNCHANGED <<chain, commits>>
  BY <1>1, CurrentCommand DEF BuildAndSendTx
<1>3. CASE /\ Succeeds(a, tx)
           /\ mempool' = [mempool EXCEPT ![a] = Append(@, tx)]
           /\ command' = [command EXCEPT ![a].step = "wait"]
  <2>1. PICK d : d = [c EXCEPT !.step = "wait"]
    OBVIOUS
  <2>2. /\ d \in CommandType /\ d.name = c.name /\ d.todo = c.todo /\ d.step = "wait"
        /\ d.since = c.since /\ d.anchors = c.anchors
    BY <1>2, <2>1 DEF CommandType, Steps
  <2>3. command' = [command EXCEPT ![a] = d]
    BY <1>1, <1>3, <2>1 DEF ClientInv, ClientTypeOK
  <2>4. /\ mempool[a] \in Seq(TxType) /\ tx \in TxType
        /\ mempool'[a] = Append(mempool[a], tx) /\ mempool' \in [Accounts -> Seq(TxType)]
        /\ \A b \in Accounts \ {a} : mempool'[b] = mempool[b]
    BY <1>3 DEF ClientInv, ClientTypeOK, TxOK
  <2>5. ClientTypeOK /\ ClientTypeOK'
    BY <1>2, <2>2, <2>3, <2>4 DEF ClientInv, ClientTypeOK, chain
  <2>6. ChainMoves /\ CommitNeverStranded'
    BY <1>2, <2>5, NothingMoves, StrandedStays DEF chain
  <2>7. CommandOK(a, d)
    <3>1. TodoOK(d) /\ CommittingOK(a, d)
      BY <1>1, <1>2, <2>2 DEF CommandOK, TodoOK, CommittingOK
    <3>2. c.name = "lock-seed" => LockingOK(d, Head(d.todo))
      BY <1>1, <1>2, <2>2 DEF CommandOK, LockingOK, Overtaken
    <3> QED
      BY <2>2, <3>1, <3>2 DEF CommandOK
  <2>8. CommandOK(a, d)'
    BY <2>5, <2>6, <2>7, CommandStays
  <2>9. /\ Len(mempool'[a]) = Len(mempool[a]) + 1 /\ Len(mempool[a]) \in Nat
        /\ mempool'[a][Len(mempool'[a])] = tx
        /\ \A i \in DOMAIN mempool'[a] : \/ mempool'[a][i] = tx
                                        \/ /\ i \in DOMAIN mempool[a]
                                           /\ mempool'[a][i] = mempool[a][i]
    <3>1. PICK q \in Seq(TxType) : q = mempool[a]
      BY <2>4
    <3>2. PICK r : r = mempool'[a]
      OBVIOUS
    <3>3. r = Append(q, tx)
      BY <2>4, <3>1, <3>2
    <3>4. /\ Len(r) = Len(q) + 1 /\ Len(q) \in Nat /\ r[Len(r)] = tx
          /\ \A i \in DOMAIN r : r[i] = tx \/ (i \in DOMAIN q /\ r[i] = q[i])
      BY <2>4, <3>3, AppendFacts
    <3> QED
      BY <3>1, <3>2, <3>4, Zenon
  <2>10. WaitOK(a, d)'
    BY <1>1, <2>2, <2>9 DEF WaitOK, SlotOf
  <2>11. PoolOK(a)'
    BY <1>2, <2>9 DEF ClientInv, PoolOK, TxOK, Cached
  <2> QED
    BY <2>3, <2>4, <2>5, <2>6, <2>8, <2>10, <2>11, CommandStep
<1>4. ASSUME NEW o \in {"refused", "unsent"}, o = "refused" => ~Succeeds(a, tx),
             command' = [command EXCEPT ![a] = OnReceipt(@, o)], UNCHANGED mempool
      PROVE  ClientInv'
  <2>1. c.name = "lock-seed" => o \in {"unsent", "late"} \/ Overtaken(c, Head(c.todo))
    <3> SUFFICES ASSUME c.name = "lock-seed", o = "refused"
                 PROVE  Overtaken(c, Head(c.todo))
      BY <1>4
    <3>1. PICK k \in Pairs : k = Head(c.todo) /\ k = SlotOf(a) /\ LockingOK(c, k)
      BY <1>1, LockingCommand
    <3>2. ~Succeeds(a, tx) /\ tx.fn = "lock" /\ tx.of = k
      BY <1>1, <1>4, <3>1
    <3>3. GIstate # BATCH_SEED_PAIRS[k] \/ seed[k].locked \/ seed[k].block = "ahead"
      BY <3>2 DEF Succeeds
    <3> QED
      BY <1>1, <3>1, <3>3 DEF LockingOK, Overtaken
  <2>2. command' = [command EXCEPT ![a] = OnReceipt(c, o)]
    BY <1>1, <1>4
  <2>3. CommandOK(a, OnReceipt(c, o)) /\ OnReceipt(c, o).step # "wait"
    BY <1>1, <1>2, <2>1, OnReceiptOK DEF Outcomes
  <2> QED
    BY <1>2, <1>4, <2>2, <2>3, QuietStep
<1> QED
  BY <1>3, <1>4 DEF BuildAndSendTx, Sent

LEMMA SendsStep ==
    ASSUME ClientInv, NEW a \in Accounts,
           SendCommit(a) \/ SendReveal(a) \/ SendRegistration(a) \/ SendLock(a)
    PROVE  ClientInv'
<1>1. PICK c : c = command[a]
  OBVIOUS
<1>2. /\ CommandOK(a, c) /\ c \in CommandType /\ c.step = "send" /\ c.entry \in Int
      /\ c.name \in Committing \cup Revealing \cup {"register", "lock-seed"}
      /\ NoEntry \in Int
  BY <1>1, CurrentCommand
     DEF SendCommit, SendReveal, SendRegistration, SendLock, Running, CommandType, NoEntry
<1>3. c.name # "none" /\ c.todo \in Seq(Things) /\ c.todo # <<>> /\ SlotOf(a) = Head(c.todo)
  BY <1>1, <1>2 DEF CommandOK, TodoOK, CommandType, Committing, Revealing, SlotOf
<1>4. SlotOf(a) \in Things
  BY <1>3, TailFacts
<1>5. CASE SendCommit(a)
  <2>1. PICK tx : tx = [fn |-> "commit", of |-> SlotOf(a), entry |-> c.entry]
    OBVIOUS
  <2>2. tx \in TxType /\ tx.fn = "commit" /\ tx.of = SlotOf(a)
    BY <1>2, <1>4, <2>1 DEF TxType
  <2>3. c.name \in Committing /\ BuildAndSendTx(a, tx)
    BY <1>1, <1>5, <2>1 DEF SendCommit, Running
  <2>4. Cached(a, SlotOf(a)) /\ c.name # "lock-seed"
    BY <1>2, <1>3, <2>3 DEF CommandOK, CommittingOK, Committing
  <2> QED
    BY <1>1, <1>2, <1>3, <2>2, <2>3, <2>4, SendStep DEF TxOK
<1>6. CASE SendReveal(a)
  <2>1. PICK tx : tx = [fn |-> "reveal", of |-> SlotOf(a), entry |-> c.entry]
    OBVIOUS
  <2>2. tx \in TxType /\ tx.fn = "reveal"
    BY <1>2, <1>4, <2>1 DEF TxType
  <2>3. c.name # "lock-seed" /\ BuildAndSendTx(a, tx)
    BY <1>1, <1>6, <2>1 DEF SendReveal, Running, Revealing
  <2> QED
    BY <1>1, <1>2, <1>3, <2>2, <2>3, SendStep DEF TxOK
<1>7. CASE SendRegistration(a)
  <2>1. PICK tx : tx = [fn |-> "register", of |-> SlotOf(a), entry |-> NoEntry]
    OBVIOUS
  <2>2. tx \in TxType /\ tx.fn = "register"
    BY <1>2, <1>4, <2>1 DEF TxType
  <2>3. c.name # "lock-seed" /\ BuildAndSendTx(a, tx)
    BY <1>1, <1>7, <2>1 DEF SendRegistration, Running
  <2> QED
    BY <1>1, <1>2, <1>3, <2>2, <2>3, SendStep DEF TxOK
<1>8. CASE SendLock(a)
  <2>1. PICK tx : tx = [fn |-> "lock", of |-> SlotOf(a), entry |-> NoEntry]
    OBVIOUS
  <2>2. tx \in TxType /\ tx.fn = "lock" /\ tx.of = SlotOf(a)
    BY <1>2, <1>4, <2>1 DEF TxType
  <2>3. c.name = "lock-seed" /\ BuildAndSendTx(a, tx)
    BY <1>1, <1>8, <2>1 DEF SendLock, Running
  <2>4. SlotOf(a) \in Pairs
    BY <1>1, <2>3, LockingCommand
  <2> QED
    BY <1>1, <1>2, <1>3, <2>2, <2>3, <2>4, SendStep DEF TxOK
<1> QED
  BY <1>5, <1>6, <1>7, <1>8

LEMMA TimeoutStep ==
    ASSUME ClientInv, NEW a \in Accounts, ReceiptTimesOut(a) PROVE ClientInv'
<1>1. PICK c : c = command[a]
  OBVIOUS
<1>2. CommandOK(a, c) /\ c.step = "wait" /\ UNCHANGED <<chain, mempool, commits>>
  BY <1>1, CurrentCommand DEF ReceiptTimesOut
<1>3. c.name # "none"
  BY <1>2 DEF CommandOK, TodoOK
<1>4. command' = [command EXCEPT ![a] = OnReceipt(c, "late")]
  BY <1>1 DEF ReceiptTimesOut
<1>5. CommandOK(a, OnReceipt(c, "late")) /\ OnReceipt(c, "late").step # "wait"
  BY <1>2, <1>3, OnReceiptOK DEF Outcomes
<1> QED
  BY <1>2, <1>4, <1>5, QuietStep

-----------------------------------------------------------------------------
(* A transaction is mined. *)

\* The transaction at the head of the pool, and what is left of the pool.
LEMMA MinedTx ==
    ASSUME ClientInv, NEW a \in Accounts, MineTx(a)
    PROVE  \E tx : /\ tx = Head(mempool[a]) /\ tx \in TxType /\ TxOK(a, tx)
                   /\ mempool[a] \in Seq(TxType) /\ mempool[a] # <<>>
                   /\ mempool' \in [Accounts -> Seq(TxType)]
                   /\ mempool'[a] = Tail(mempool[a])
                   /\ \A b \in Accounts \ {a} : mempool'[b] = mempool[b]
<1>1. mempool \in [Accounts -> Seq(TxType)] /\ PoolOK(a)
  BY DEF ClientInv, ClientTypeOK
<1>2. mempool[a] # <<>> /\ mempool' = [mempool EXCEPT ![a] = Tail(@)]
  BY DEF MineTx
<1>3. PICK q \in Seq(TxType) : q = mempool[a]
  BY <1>1
<1>4. Head(q) \in TxType /\ Tail(q) \in Seq(TxType) /\ 1 \in DOMAIN q /\ Head(q) = q[1]
  <2>1. q # <<>>
    BY <1>2, <1>3
  <2> QED
    BY <2>1, HeadTailProperties, LenProperties
<1>5. TxOK(a, Head(q))
  BY <1>1, <1>3, <1>4 DEF PoolOK
<1> QED
  BY <1>1, <1>2, <1>3, <1>4, <1>5

\* What is left of the pool are transactions that were in it.
LEMMA TailElements ==
    ASSUME NEW S, NEW q \in Seq(S), q # <<>>, NEW i \in DOMAIN Tail(q)
    PROVE  i + 1 \in DOMAIN q /\ Tail(q)[i] = q[i + 1]
<1>1. /\ Tail(q) \in Seq(S) /\ Len(Tail(q)) = Len(q) - 1
      /\ \A j \in 1..Len(Tail(q)) : Tail(q)[j] = q[j + 1]
  BY HeadTailProperties
<1>2. DOMAIN Tail(q) = 1..Len(Tail(q)) /\ DOMAIN q = 1..Len(q) /\ Len(q) \in Nat
  BY <1>1, LenProperties
<1> QED
  BY <1>1, <1>2

\* The submissions keep their type; a commitment is never changed, and a new
\* one has been cached.
LEMMA SubmissionMoves ==
    ASSUME ClientInv, NEW a \in Accounts, MineTx(a)
    PROVE  /\ DOMAIN submission' = Accounts
           /\ \A b \in Accounts :
                 submission'[b] \in [Assigned[b] -> [commitHash : HashType, revealed : BOOLEAN]]
           /\ submission' = [b \in Accounts |-> submission'[b]]
           /\ \A b \in Accounts : \A s \in Assigned[b] :
                 \/ submission'[b][s].commitHash = submission[b][s].commitHash
                 \/ ~Committed(b, s) /\ Cached(b, s)
<1>1. PICK tx : tx = Head(mempool[a]) /\ tx \in TxType /\ TxOK(a, tx)
  BY MinedTx
<1>2. /\ DOMAIN submission = Accounts
      /\ \A b \in Accounts :
            submission[b] \in [Assigned[b] -> [commitHash : HashType, revealed : BOOLEAN]]
      /\ submission = [b \in Accounts |-> submission[b]]
  BY DEF ClientInv, ClientTypeOK
<1>3. CASE Succeeds(a, tx) /\ tx.fn = "commit"
  <2>1. PICK t \in Assigned[a] : /\ t = tx.of /\ submission[a][t].commitHash = NoHash
                                 /\ Cached(a, t) /\ t \in Slots
    BY <1>1, <1>3, ClientAssumption DEF Succeeds, TxOK
  <2>2. PICK h : h = CommitHash(tx.entry, a, t)
    OBVIOUS
  <2>3. h \in HashType
    BY <1>1, <2>1, <2>2 DEF CommitHash, AuditCommitHash, AggCommitHash, HashType, TxType
  <2>4. submission' = [submission EXCEPT ![a][t].commitHash = h]
    BY <1>1, <1>3, <2>1, <2>2 DEF MineTx
  <2>5. \A b \in Accounts \ {a} : submission'[b] = submission[b]
    BY <1>2, <2>4
  <2>6. /\ submission'[a] = [submission[a] EXCEPT ![t].commitHash = h]
        /\ DOMAIN submission' = Accounts
        /\ submission' = [b \in Accounts |-> submission'[b]]
    BY <1>2, <2>4
  <2>7. /\ submission'[a] \in [Assigned[a] -> [commitHash : HashType, revealed : BOOLEAN]]
        /\ \A s \in Assigned[a] \ {t} : submission'[a][s] = submission[a][s]
    BY <1>2, <2>1, <2>3, <2>6
  <2>8. ~Committed(a, t)
    BY <2>1 DEF Committed
  <2> QED
    BY <1>2, <2>1, <2>5, <2>6, <2>7, <2>8
<1>4. CASE Succeeds(a, tx) /\ tx.fn = "reveal"
  <2>1. PICK t \in Assigned[a] : t = tx.of
    BY <1>4 DEF Succeeds
  <2>2. submission' = [submission EXCEPT ![a][t].revealed = TRUE]
    BY <1>1, <1>4, <2>1 DEF MineTx
  <2>3. \A b \in Accounts \ {a} : submission'[b] = submission[b]
    BY <1>2, <2>2
  <2>4. /\ submission'[a] = [submission[a] EXCEPT ![t].revealed = TRUE]
        /\ DOMAIN submission' = Accounts
        /\ submission' = [b \in Accounts |-> submission'[b]]
    BY <1>2, <2>2
  <2>5. /\ submission'[a] \in [Assigned[a] -> [commitHash : HashType, revealed : BOOLEAN]]
        /\ \A s \in Assigned[a] : submission'[a][s].commitHash = submission[a][s].commitHash
    <3>1. PICK f \in [Assigned[a] -> [commitHash : HashType, revealed : BOOLEAN]] :
               f = submission[a]
      BY <1>2
    <3>2. PICK r : r = [f[t] EXCEPT !.revealed = TRUE]
      OBVIOUS
    <3>3. /\ r \in [commitHash : HashType, revealed : BOOLEAN]
          /\ r.commitHash = f[t].commitHash
      <4>1. PICK g \in [commitHash : HashType, revealed : BOOLEAN] : g = f[t]
        BY <2>1
      <4>2. r = [g EXCEPT !.revealed = TRUE]
        BY <3>2, <4>1
      <4> QED
        BY <4>1, <4>2
    <3>4. submission'[a] = [f EXCEPT ![t] = r]
      BY <2>4, <3>1, <3>2
    <3> QED
      BY <1>2, <2>1, <3>1, <3>3, <3>4
  <2> QED
    BY <1>2, <2>3, <2>4, <2>5
<1>5. CASE ~(Succeeds(a, tx) /\ tx.fn \in {"commit", "reveal"})
  <2>1. submission' = submission
    BY <1>1, <1>5 DEF MineTx
  <2> QED
    BY <1>2, <2>1
<1> QED
  BY <1>3, <1>4, <1>5

\* The seeds only move on: locked for good, or to another seed block.
LEMMA SeedMoves ==
    ASSUME ClientInv, NEW a \in Accounts, MineTx(a)
    PROVE  /\ seed' \in [Pairs -> SeedType]
           /\ \A k \in Pairs :
                 /\ GIstate = BATCH_SEED_PAIRS[k] =>
                       GIstate' = BATCH_SEED_PAIRS[k] \/ seed'[k].locked
                 /\ seed[k].locked => seed'[k].locked
                 /\ seed'[k].anchors >= seed[k].anchors
                 /\ seed[k].block # "ahead" =>
                       seed'[k].block # "ahead" \/ seed'[k].anchors > seed[k].anchors
<1>1. PICK tx : tx = Head(mempool[a]) /\ tx \in TxType /\ TxOK(a, tx)
  BY MinedTx
<1>2. seed \in [Pairs -> SeedType]
  BY DEF ClientInv, ClientTypeOK
<1>3. CASE Succeeds(a, tx) /\ tx.fn = "lock"
  <2>1. PICK k \in Pairs : k = tx.of
    BY <1>1, <1>3 DEF TxOK
  <2>2. GIstate = BATCH_SEED_PAIRS[k] /\ ~seed[k].locked /\ seed[k].block # "ahead"
    BY <1>3, <2>1 DEF Succeeds
  <2>3. CASE seed' = [seed EXCEPT ![k].locked = TRUE]
    <3>1. \A j \in Pairs \ {k} : GIstate # BATCH_SEED_PAIRS[j]
      BY <2>2 DEF Pairs, BATCH_SEED_PAIRS
    <3>2. PICK r : r = [seed[k] EXCEPT !.locked = TRUE]
      OBVIOUS
    <3>3. r \in SeedType /\ r.locked /\ r.anchors = seed[k].anchors /\ r.block = seed[k].block
      BY <1>2, <3>2 DEF SeedType
    <3>4. seed' = [seed EXCEPT ![k] = r]
      BY <2>3, <3>2
    <3>5. seed'[k] = r /\ (\A j \in Pairs \ {k} : seed'[j] = seed[j])
          /\ seed' \in [Pairs -> SeedType]
      BY <1>2, <3>3, <3>4
    <3>6. \A j \in Pairs : seed[j].anchors \in Int
      BY <1>2 DEF SeedType
    <3> QED
      BY <3>1, <3>3, <3>5, <3>6
  <2>4. CASE /\ seed' = [seed EXCEPT ![k].block = "ahead", ![k].anchors = @ + 1]
             /\ UNCHANGED GIstate
    <3>1. PICK n \in Int : n = seed[k].anchors + 1
      BY <1>2 DEF SeedType
    <3>2. PICK r : r = [seed[k] EXCEPT !.block = "ahead", !.anchors = n]
      OBVIOUS
    <3>3. r \in SeedType /\ r.locked = seed[k].locked /\ r.anchors = n
      BY <1>2, <3>2 DEF SeedType
    <3>4. seed' = [seed EXCEPT ![k] = r]
      <4>1. seed' = [seed EXCEPT ![k].block = "ahead", ![k].anchors = n]
        BY <1>2, <2>4, <3>1
      <4> QED
        BY <1>2, <3>2, <4>1
    <3>5. seed'[k] = r /\ (\A j \in Pairs \ {k} : seed'[j] = seed[j])
          /\ seed' \in [Pairs -> SeedType]
      BY <1>2, <3>3, <3>4
    <3>6. \A j \in Pairs : seed[j].anchors \in Int
      BY <1>2 DEF SeedType
    <3> QED
      BY <2>4, <3>1, <3>3, <3>5, <3>6
  <2>5. \/ seed' = [seed EXCEPT ![k].locked = TRUE]
        \/ /\ seed' = [seed EXCEPT ![k].block = "ahead", ![k].anchors = @ + 1]
           /\ UNCHANGED GIstate
    BY <1>1, <1>3, <2>1 DEF MineTx
  <2> QED
    BY <2>3, <2>4, <2>5
<1>4. CASE ~(Succeeds(a, tx) /\ tx.fn = "lock")
  <2>1. UNCHANGED <<seed, GIstate>>
    BY <1>1, <1>4 DEF MineTx
  <2> QED
    BY <1>2, <2>1 DEF SeedType
<1> QED
  BY <1>3, <1>4

LEMMA MineMoves ==
    ASSUME ClientInv, NEW a \in Accounts, MineTx(a)
    PROVE  ChainMoves /\ CommitNeverStranded'
<1>1. commits' = commits
  BY DEF MineTx
<1>2. ChainMoves
  <2>1. \A b \in Accounts : \A s \in Assigned[b] : Committed(b, s) => Committed(b, s)'
    BY SubmissionMoves DEF Committed
  <2>2. \A b \in Accounts : \A s \in Slots : Cached(b, s) => Cached(b, s)'
    BY <1>1 DEF Cached
  <2> QED
    BY <2>1, <2>2, SeedMoves DEF ChainMoves
<1>3. CommitNeverStranded'
  BY <1>1, SubmissionMoves DEF ClientInv, CommitNeverStranded, Committed, Cached
<1> QED
  BY <1>2, <1>3

\* What is left of the pool is as good as it was.
LEMMA MinedPool ==
    ASSUME ClientInv, NEW a \in Accounts, MineTx(a)
    PROVE  PoolOK(a)'
<1>1. PICK q \in Seq(TxType) : q = mempool[a] /\ q # <<>> /\ mempool'[a] = Tail(q)
  BY MinedTx
<1>2. ChainMoves /\ PoolOK(a)
  BY MineMoves DEF ClientInv
<1>3. \A tx : TxOK(a, tx) => TxOK(a, tx)'
  BY <1>2 DEF TxOK, Cached, ChainMoves
<1>4. \A i \in DOMAIN q : TxOK(a, q[i])
  BY <1>1, <1>2 DEF PoolOK
<1>5. \A i \in DOMAIN Tail(q) : TxOK(a, Tail(q)[i])'
  <2> SUFFICES ASSUME NEW i \in DOMAIN Tail(q) PROVE TxOK(a, Tail(q)[i])'
    OBVIOUS
  <2>1. PICK tx : tx = Tail(q)[i]
    OBVIOUS
  <2>2. TxOK(a, tx)
    BY <1>1, <1>4, <2>1, TailElements
  <2> QED
    BY <1>3, <2>1, <2>2
<1> QED
  BY <1>1, <1>5 DEF PoolOK

\* The receipt of a lock: whether it succeeded or reverted, the seed is locked
\* or its block has moved.
LEMMA LockMined ==
    ASSUME ClientInv, NEW a \in Accounts, MineTx(a), NEW c, c = command[a],
           c.name = "lock-seed", c.step = "wait", Len(mempool[a]) = 1
    PROVE  \E k \in Pairs : /\ k = Head(c.todo) /\ Overtaken(c, k)'
                            /\ GIstate' = BATCH_SEED_PAIRS[k] \/ seed'[k].locked
                            /\ c.anchors <= seed'[k].anchors
<1>1. PICK k \in Pairs : /\ k = Head(c.todo) /\ LockingOK(c, k)
                         /\ c.anchors \in Int /\ seed[k].anchors \in Int
  BY LockingCommand
<1>2. PICK tx : /\ tx = Head(mempool[a]) /\ mempool[a] \in Seq(TxType) /\ mempool[a] # <<>>
  BY MinedTx
<1>3. tx.fn = "lock" /\ tx.of = k
  <2>1. WaitOK(a, c)
    BY CurrentCommand
  <2>2. Head(mempool[a]) = mempool[a][1]
    BY <1>2, HeadTailProperties
  <2> QED
    BY <1>1, <1>2, <2>1, <2>2 DEF WaitOK
<1>4. seed'[k].anchors \in Int /\ seed'[k].anchors >= seed[k].anchors
      /\ (seed[k].locked => seed'[k].locked)
  BY SeedMoves DEF SeedType
<1>5. c.anchors <= seed[k].anchors
  BY <1>1 DEF LockingOK
<1>6. CASE Succeeds(a, tx)
  <2>1. \/ seed' = [seed EXCEPT ![k].locked = TRUE]
        \/ seed' = [seed EXCEPT ![k].block = "ahead", ![k].anchors = @ + 1]
    BY <1>2, <1>3, <1>6 DEF MineTx
  <2>2. seed'[k].locked \/ seed'[k].anchors = seed[k].anchors + 1
    BY <1>1, <2>1 DEF ClientInv, ClientTypeOK, SeedType
  <2>3. Overtaken(c, k)'
    BY <1>1, <1>5, <2>2 DEF Overtaken
  <2> QED
    BY <1>1, <1>4, <1>5, <2>3, SeedMoves DEF LockingOK
<1>7. CASE ~Succeeds(a, tx)
  <2>1. GIstate # BATCH_SEED_PAIRS[k] \/ seed[k].locked \/ seed[k].block = "ahead"
    BY <1>3, <1>7 DEF Succeeds
  <2>2. seed[k].locked \/ seed[k].anchors # c.anchors
    BY <1>1, <2>1 DEF LockingOK, Overtaken
  <2>3. Overtaken(c, k)'
    BY <1>1, <1>4, <1>5, <2>2 DEF Overtaken
  <2> QED
    BY <1>1, <1>4, <1>5, <2>3, SeedMoves DEF LockingOK
<1> QED
  BY <1>6, <1>7

LEMMA MineStep ==
    ASSUME ClientInv, NEW a \in Accounts, MineTx(a) PROVE ClientInv'
<1>1. PICK c : c = command[a]
  OBVIOUS
<1>2. CommandOK(a, c) /\ c \in CommandType /\ WaitOK(a, c) /\ ClientTypeOK
  BY <1>1, CurrentCommand DEF ClientInv
<1>3. PICK tx : /\ tx = Head(mempool[a]) /\ mempool[a] \in Seq(TxType) /\ mempool[a] # <<>>
                /\ mempool' \in [Accounts -> Seq(TxType)]
                /\ mempool'[a] = Tail(mempool[a])
                /\ \A b \in Accounts \ {a} : mempool'[b] = mempool[b]
  BY MinedTx
<1>4. ChainMoves /\ CommitNeverStranded' /\ PoolOK(a)'
  BY MineMoves, MinedPool
<1>5. ASSUME NEW d \in CommandType, command' = [command EXCEPT ![a] = d] PROVE ClientTypeOK'
  <2>1. command' \in [Accounts -> CommandType] /\ commits' = commits
    BY <1>2, <1>5, SMTT(30) DEF ClientTypeOK, MineTx
  <2> QED
    BY <1>2, <1>3, <2>1, SubmissionMoves, SeedMoves DEF ClientTypeOK
<1>6. ASSUME NEW d \in CommandType, command' = [command EXCEPT ![a] = d],
             CommandOK(a, d)', WaitOK(a, d)'
      PROVE  ClientInv'
  BY <1>3, <1>4, <1>5, <1>6, CommandStep
<1>7. CASE c.step = "wait" /\ Len(mempool[a]) = 1
  <2>1. PICK o \in {"ok", "reverted"} : command' = [command EXCEPT ![a] = OnReceipt(c, o)]
    BY <1>1, <1>3, <1>7 DEF MineTx
  <2>2. c.name # "none"
    BY <1>2, <1>7 DEF CommandOK, TodoOK
  <2>3. CASE c.name # "lock-seed"
    <3>1. PICK d : d = OnReceipt(c, o)
      OBVIOUS
    <3>2. CommandOK(a, d) /\ d.step # "wait" /\ d \in CommandType
      BY <1>2, <1>7, <2>2, <2>3, <3>1, OnReceiptOK DEF Outcomes, CommandOK
    <3>3. ClientTypeOK' /\ command' = [command EXCEPT ![a] = d]
      BY <1>5, <2>1, <3>1, <3>2
    <3>4. CommandOK(a, d)' /\ WaitOK(a, d)'
      BY <1>2, <1>4, <3>2, <3>3, CommandStays DEF WaitOK
    <3> QED
      BY <1>6, <3>2, <3>3, <3>4
  <2>4. CASE c.name = "lock-seed"
    <3>1. PICK d : d = [c EXCEPT !.step = "receipt", !.outcome = o]
      OBVIOUS
    <3>2. /\ d \in CommandType /\ d.name = c.name /\ d.todo = c.todo /\ d.step = "receipt"
          /\ d.outcome = o /\ d.anchors = c.anchors
      BY <1>2, <3>1 DEF CommandType, Steps
    <3>3. PICK k \in Pairs : /\ k = Head(c.todo) /\ Overtaken(c, k)'
                             /\ GIstate' = BATCH_SEED_PAIRS[k] \/ seed'[k].locked
                             /\ c.anchors <= seed'[k].anchors
      BY <1>1, <1>7, <2>4, LockMined
    <3>4. LockingOK(d, k)'
      BY <3>2, <3>3 DEF LockingOK, Overtaken
    <3>5. TodoOK(d) /\ d.name \notin Committing
      BY <1>2, <2>4, <3>2 DEF CommandOK, TodoOK, Committing
    <3>6. CommandOK(a, d)' /\ WaitOK(a, d)'
      BY <2>4, <3>2, <3>3, <3>4, <3>5 DEF CommandOK, TodoOK, CommittingOK, WaitOK
    <3>7. command' = [command EXCEPT ![a] = d]
      BY <2>1, <2>4, <3>1 DEF OnReceipt
    <3> QED
      BY <1>6, <3>2, <3>6, <3>7
  <2> QED
    BY <2>3, <2>4
<1>8. CASE ~(c.step = "wait" /\ Len(mempool[a]) = 1)
  <2>1. command' = [command EXCEPT ![a] = c]
    BY <1>1, <1>2, <1>8 DEF MineTx, ClientTypeOK
  <2>2. CommandOK(a, c)'
    BY <1>2, <1>4, <1>5, <2>1, CommandStays
  <2>3. WaitOK(a, c)'
    <3> SUFFICES ASSUME c.name = "lock-seed", c.step = "wait"
                 PROVE  LET n == Len(mempool'[a])
                        IN  n > 0 /\ mempool'[a][n].fn = "lock"
                            /\ mempool'[a][n].of = Head(c.todo)
      BY DEF WaitOK
    <3>1. PICK q \in Seq(TxType) : q = mempool[a]
      BY <1>3
    <3>2. /\ Len(q) > 0 /\ Len(q) # 1 /\ q[Len(q)].fn = "lock"
          /\ q[Len(q)].of = Head(c.todo)
      BY <1>2, <1>8, <3>1 DEF WaitOK
    <3>3. Len(Tail(q)) = Len(q) - 1 /\ Len(q) \in Nat
          /\ DOMAIN Tail(q) = 1..Len(Tail(q))
      BY <1>3, <3>1, TailFacts, LenProperties
    <3>4. PICK n \in DOMAIN Tail(q) : n = Len(Tail(q)) /\ n + 1 = Len(q) /\ n > 0
      <4>1. PICK m \in Nat : m = Len(q)
        BY <3>3
      <4>2. m - 1 \in 1..(m - 1) /\ (m - 1) + 1 = m /\ m - 1 > 0 /\ Len(Tail(q)) = m - 1
        BY <3>2, <3>3, <4>1
      <4> QED
        BY <3>3, <4>1, <4>2
    <3>5. Tail(q)[n] = q[Len(q)]
      BY <1>3, <3>1, <3>4, TailElements
    <3> QED
      BY <1>3, <3>1, <3>2, <3>4, <3>5
  <2> QED
    BY <1>2, <1>6, <2>1, <2>2, <2>3
<1> QED
  BY <1>7, <1>8

-----------------------------------------------------------------------------
(* The rest of the chain. *)

\* The chain moves; no command, pool or file does.
LEMMA ChainStep ==
    ASSUME ClientInv, seed' \in [Pairs -> SeedType], ChainMoves,
           UNCHANGED <<submission, mempool, commits, command>>
    PROVE  ClientInv'
<1>1. ClientTypeOK /\ ClientTypeOK'
  BY DEF ClientInv, ClientTypeOK
<1>2. CommitNeverStranded'
  BY StrandedStays
<1>3. ASSUME NEW a \in Accounts
      PROVE  (CommandOK(a, command[a]) /\ WaitOK(a, command[a]) /\ PoolOK(a))'
  <2>1. PICK c : c = command[a]
    OBVIOUS
  <2>2. CommandOK(a, c) /\ WaitOK(a, c) /\ PoolOK(a)
    BY <2>1 DEF ClientInv
  <2>3. CommandOK(a, c)'
    BY <1>1, <2>2, CommandStays
  <2>4. WaitOK(a, c)'
    BY <2>2 DEF WaitOK
  <2>5. PoolOK(a)'
    BY <1>1, <2>2, PoolStays
  <2> QED
    BY <2>1, <2>3, <2>4, <2>5
<1> QED
  BY <1>1, <1>2, <1>3 DEF ClientInv

LEMMA NextBlockStep ==
    ASSUME ClientInv, NEW k \in Pairs, NextBlock(k) PROVE ClientInv'
<1>1. seed \in [Pairs -> SeedType] /\ UNCHANGED <<submission, mempool, commits, command>>
  BY DEF ClientInv, ClientTypeOK, NextBlock
<1>2. PICK b \in {"mined", "expired"} : seed' = [seed EXCEPT ![k].block = b]
  BY DEF NextBlock
<1>3. PICK r : r = [seed[k] EXCEPT !.block = b]
  OBVIOUS
<1>4. r \in SeedType /\ r.block = b /\ r.locked = seed[k].locked /\ r.anchors = seed[k].anchors
  BY <1>1, <1>3 DEF SeedType
<1>5. seed' = [seed EXCEPT ![k] = r]
  BY <1>2, <1>3
<1>6. /\ seed' \in [Pairs -> SeedType] /\ seed'[k] = r
      /\ \A j \in Pairs \ {k} : seed'[j] = seed[j]
      /\ \A j \in Pairs : seed[j].anchors \in Int
  BY <1>1, <1>4, <1>5 DEF SeedType
<1>7. GIstate' = GIstate
  BY DEF NextBlock
<1>8. ChainMoves
  <2>1. \A a \in Accounts : \A s \in Assigned[a] : Committed(a, s) => Committed(a, s)'
    BY <1>1 DEF Committed
  <2>2. \A a \in Accounts : \A s \in Slots : Cached(a, s) => Cached(a, s)'
    BY <1>1 DEF Cached
  <2>3. \A j \in Pairs : /\ seed[j].locked => seed'[j].locked
                         /\ seed'[j].anchors >= seed[j].anchors
                         /\ seed[j].block # "ahead" => seed'[j].block # "ahead"
    BY <1>2, <1>4, <1>6
  <2> QED
    BY <1>7, <2>1, <2>2, <2>3 DEF ChainMoves
<1> QED
  BY <1>1, <1>6, <1>8, ChainStep

\* The owner never moves on from a state that waits for a seed.
LEMMA OwnerStep ==
    ASSUME ClientInv, OwnerMovesOn PROVE ClientInv'
<1>1. /\ seed \in [Pairs -> SeedType] /\ seed' = seed
      /\ UNCHANGED <<submission, mempool, commits, command>>
  BY DEF ClientInv, ClientTypeOK, OwnerMovesOn
<1>2. \A k \in Pairs : GIstate # BATCH_SEED_PAIRS[k]
  BY DEF OwnerMovesOn, OwnerMoves, BATCH_SEED_PAIRS, Pairs
<1>3. ChainMoves
  BY <1>1, <1>2 DEF ChainMoves, Committed, Cached, SeedType
<1> QED
  BY <1>1, <1>3, ChainStep

LEMMA StepInv ==
    ASSUME ClientInv, [ClientNext]_vars PROVE ClientInv'
<1>1. CASE UNCHANGED vars
  <2>1. UNCHANGED <<chain, mempool, commits, command>> /\ ClientTypeOK
    BY <1>1 DEF vars, chain, ClientInv
  <2>2. ChainMoves /\ seed' \in [Pairs -> SeedType]
    BY <2>1, NothingMoves DEF ClientTypeOK, chain
  <2> QED
    BY <2>1, <2>2, ChainStep DEF chain
<1>2. ASSUME NEW a \in Accounts, Starts(a) PROVE ClientInv'
  BY <1>2, StartsStep
<1>3. ASSUME NEW a \in Accounts, Continues(a) PROVE ClientInv'
  BY <1>3, CheckCommittedStep, WorkStep, SendsStep, LoadCommitStep, ReadSeedStep, RecheckStep
     DEF Continues
<1>4. ASSUME NEW a \in Accounts, ReceiptTimesOut(a) \/ Killed(a) \/ MineTx(a)
      PROVE  ClientInv'
  BY <1>4, TimeoutStep, KilledStep, MineStep
<1>5. ASSUME NEW k \in Pairs, NextBlock(k) PROVE ClientInv'
  BY <1>5, NextBlockStep
<1> QED
  BY <1>1, <1>2, <1>3, <1>4, <1>5, OwnerStep DEF ClientNext, Pairs

-----------------------------------------------------------------------------
(* The theorems. *)

\* The invariant above, of every behaviour of the commands and the chain
\* (aggregator.py, auditor.py, batch_seed.py with build_and_send_tx).
THEOREM ClientInvariance == ClientSpec => []ClientInv
<1>1. ClientInit => ClientInv
  BY InitInv
<1>2. ClientInv /\ [ClientNext]_vars => ClientInv'
  BY StepInv
<1> QED
  BY <1>1, <1>2, PTL DEF ClientSpec

\* A commitment on the chain always has a file on the account's machine: the
\* commands cache it before they send it, and no retry, kill or late receipt
\* takes the file away (_save_agg_commit, _save_commit).
THEOREM NeverStranded == ClientSpec => []CommitNeverStranded
<1>1. ClientInv => CommitNeverStranded
  BY DEF ClientInv
<1> QED
  BY <1>1, ClientInvariance, PTL

\* Losing the race for a seed's lock, or meeting a moved seed block, never
\* ends a command with an error, for any number of racing accounts and of
\* moves of the block (ensure_batch_seed_locked).
THEOREM RaceIsNoError == ClientSpec => []GivesUpOnlyUnsent
<1>1. ASSUME ClientInv PROVE GivesUpOnlyUnsent
  <2> SUFFICES ASSUME NEW a \in Accounts, command[a].step = "gave up"
               PROVE  command[a].outcome \in {"unsent", "late"}
    BY DEF GivesUpOnlyUnsent
  <2>1. CommandOK(a, command[a])
    BY <1>1, CurrentCommand
  <2> QED
    BY <2>1 DEF CommandOK, LockingOK
<1>2. ClientInv => GivesUpOnlyUnsent
  BY <1>1
<1> QED
  BY <1>2, ClientInvariance, PTL

\* Who writes a file: a command that works on its slot.
LEMMA WhoCaches ==
    ASSUME ClientInv, [ClientNext]_vars, NEW m \in Machines, NEW s \in Slots,
           commits'[m][s] # commits[m][s]
    PROVE  \E b \in Accounts : /\ MachineOf[b] = m /\ SlotOf(b) = s
                               /\ Running(b, Committing, "work")
<1>1. commits' # commits
  OBVIOUS
<1>2. ASSUME NEW b \in Accounts, NEW e, Cache(b, e), Running(b, Committing, "work")
      PROVE  MachineOf[b] = m /\ SlotOf(b) = s
  <2>1. MachineOf[b] \in Machines /\ SlotOf(b) \in Slots
    BY <1>2, CommittingSlot DEF Machines, Running
  <2>2. commits' = [commits EXCEPT ![MachineOf[b]][SlotOf(b)] = e]
    BY <1>2 DEF Cache
  <2> QED
    BY <2>1, <2>2 DEF ClientInv, ClientTypeOK
<1>3. ASSUME NEW b \in Accounts, Starts(b) PROVE FALSE
  BY <1>1, <1>3
     DEF Starts, AggregateT1, AggregateT2, EvaluateLMS, RevealT1, RevealT2, RevealLMS, Begin,
         RegisterAggregator, RegisterAuditor, RegisterAs, LockAggSeed, LockAuditSeed,
         LockBatchSeedIfPending
<1>4. ASSUME NEW b \in Accounts, WorkT1(b) \/ WorkT2(b) \/ WorkAudit(b)
      PROVE  Running(b, Committing, "work") /\ \E e : Cache(b, e)
  BY <1>1, <1>4 DEF WorkT1, WorkT2, WorkAudit, WorkOn, SaveCommit, Running, Committing
<1>5. ASSUME NEW b \in Accounts, Continues(b), ~(WorkT1(b) \/ WorkT2(b) \/ WorkAudit(b))
      PROVE  FALSE
  BY <1>1, <1>5
     DEF Continues, CheckCommitted, SendCommit, LoadCommit, SendReveal, SendRegistration,
         ReadSeed, SeedBlockMined, SendLock, RecheckSeed, GiveUp, BuildAndSendTx
<1>6. ASSUME NEW b \in Accounts, Killed(b)
      PROVE  Running(b, Committing, "work") /\ \E e : Cache(b, e)
  BY <1>1, <1>6 DEF Killed
<1>7. ASSUME \/ \E b \in Accounts : ReceiptTimesOut(b) \/ MineTx(b)
             \/ \E k \in Pairs : NextBlock(k)
             \/ OwnerMovesOn
             \/ UNCHANGED vars
      PROVE  FALSE
  BY <1>1, <1>7 DEF ReceiptTimesOut, MineTx, NextBlock, OwnerMovesOn, vars
<1>8. PICK b \in Accounts : Running(b, Committing, "work") /\ \E e : Cache(b, e)
  BY <1>3, <1>4, <1>5, <1>6, <1>7 DEF ClientNext, Pairs
<1> QED
  BY <1>2, <1>8

\* A commitment on the chain is never replaced.
LEMMA CommitmentStays ==
    ASSUME ClientInv, [ClientNext]_vars, NEW a \in Accounts, NEW s \in Assigned[a],
           Committed(a, s)
    PROVE  submission'[a][s].commitHash = submission[a][s].commitHash
<1>1. ASSUME NEW b \in Accounts, MineTx(b)
      PROVE  submission'[a][s].commitHash = submission[a][s].commitHash
  BY <1>1, SubmissionMoves
<1>2. ASSUME NEW b \in Accounts, Starts(b) PROVE submission' = submission
  BY <1>2
     DEF Starts, AggregateT1, AggregateT2, EvaluateLMS, RevealT1, RevealT2, RevealLMS, Begin,
         RegisterAggregator, RegisterAuditor, RegisterAs, LockAggSeed, LockAuditSeed,
         LockBatchSeedIfPending, chain
<1>3. ASSUME NEW b \in Accounts, Continues(b) PROVE submission' = submission
  BY <1>3
     DEF Continues, CheckCommitted, WorkT1, WorkT2, WorkAudit, WorkOn, SendCommit, LoadCommit,
         SendReveal, SendRegistration, ReadSeed, SeedBlockMined, SendLock, RecheckSeed, GiveUp,
         BuildAndSendTx, chain
<1>4. ASSUME \/ \E b \in Accounts : ReceiptTimesOut(b) \/ Killed(b)
             \/ \E k \in Pairs : NextBlock(k)
             \/ OwnerMovesOn
             \/ UNCHANGED vars
      PROVE  submission' = submission
  BY <1>4 DEF ReceiptTimesOut, Killed, NextBlock, OwnerMovesOn, vars, chain
<1> QED
  BY <1>1, <1>2, <1>3, <1>4 DEF ClientNext, Pairs

\* A command begun once a commitment was on the chain never replaces the salt
\* that reveals it, through any sequence of retries, kills and late receipts:
\* it skips what is committed (aggregate_t1, aggregate_t2, evaluate_lms).
THEOREM RetriesKeepSalts == ClientSpec => RetryKeepsSalt
<1> DEFINE Replaced(a, s) ==
       Committed(a, s) /\ Revealable(a, s) /\ ~Revealable(a, s)' =>
           \E b \in Accounts : /\ MachineOf[b] = MachineOf[a]
                               /\ command[b].name \in Committing
                               /\ b = a => s \notin command[b].since
<1>1. ASSUME ClientInv, [ClientNext]_vars, NEW a \in Accounts, NEW s \in Assigned[a]
      PROVE  Replaced(a, s)
  <2> SUFFICES ASSUME Committed(a, s), Revealable(a, s), ~Revealable(a, s)'
               PROVE  \E b \in Accounts : /\ MachineOf[b] = MachineOf[a]
                                          /\ command[b].name \in Committing
                                          /\ b = a => s \notin command[b].since
    OBVIOUS
  <2>1. submission'[a][s].commitHash = submission[a][s].commitHash
    BY <1>1, CommitmentStays
  <2>2. commits'[MachineOf[a]][s] # commits[MachineOf[a]][s]
    BY <2>1 DEF Revealable, CommitHash, AuditCommitHash, AggCommitHash
  <2>3. MachineOf[a] \in Machines /\ s \in Slots
    BY ClientAssumption DEF Machines
  <2>4. PICK b \in Accounts : /\ MachineOf[b] = MachineOf[a] /\ SlotOf(b) = s
                              /\ Running(b, Committing, "work")
    BY <1>1, <2>2, <2>3, WhoCaches
  <2>5. SlotOf(b) \notin command[b].since
    BY <1>1, <2>4, CurrentCommand DEF CommandOK, CommittingOK, Running, SlotOf
  <2> QED
    BY <2>4, <2>5 DEF Running
<1>2. ClientInv /\ [ClientNext]_vars =>
         [\A a \in Accounts : \A s \in Assigned[a] : Replaced(a, s)]_vars
  BY <1>1
<1> QED
  BY <1>2, ClientInvariance, PTL DEF ClientSpec, RetryKeepsSalt
-----------------------------------------------------------------------------
(***************************************************************************)
(* Payments.tla: a user never deposits twice, for any number of terminals, *)
(* runs, transactions and surprises.                                       *)
(*                                                                         *)
(* The inductive invariant looks at the deposits that are alive: signed,   *)
(* pooled or landed.  There is one at most; a run of bridge-eth that has   *)
(* not signed yet finds none; and one that no run waits for was told to    *)
(* the user as included or as unknown, which keeps the next run back.      *)
(***************************************************************************)

Calls == {"depositETH", "transfer", "depositAndMint", "approve", "stake", "claimReward",
          "claimRewards"}
RunType ==
    [cmd : AllCommands \cup {"none"},
     step : {"idle", "checks", "prepare", "confirm", "sign", "broadcast", "receipt", "poll"},
     call : Calls \cup {"none"}, tx : Nat, nonce : Int, baseline : Int]
PayTxType ==
    [call : Calls, nonce : Int, state : {"signed", "pooled", "landed", "reverted", "lost"},
     told : {"nothing", "included", "reverted", "rejected", "failed", "unknown"}]
WalletType ==
    [l1 : Int, l2 : Int, bridging : Int, din : Int, allowance : Int, staked : Int,
     claimable : Int, claimed : BOOLEAN]

PaymentsTypeOK ==
    /\ run \in [Terminals -> RunType]
    /\ txs \in Seq(PayTxType)
    /\ nonce \in [l1 : Int, l2 : Int]
    /\ wallet \in WalletType

\* The calls of a command.
CallsOf(c) == IF c = "none" THEN {"none"} ELSE {FirstCall(c), Pays[c]}

\* The transaction of a run is of its call, and nobody else runs the command.
RunOK(t) ==
    /\ run[t].call \in CallsOf(run[t].cmd)
    /\ run[t].cmd = "none" <=> run[t].step = "idle"
    /\ run[t].step \in {"broadcast", "receipt"} =>
          /\ run[t].tx \in DOMAIN txs
          /\ txs[run[t].tx].call = run[t].call

OneRunOfACommand ==
    \A t, u \in Terminals : run[t].cmd = run[u].cmd /\ run[t].cmd # "none" => t = u

Bridges(t) == run[t].cmd = "bridge"
Deposit(i) == i \in DOMAIN txs /\ txs[i].call = "depositETH"
Alive(i) == Deposit(i) /\ txs[i].state \in {"signed", "pooled", "landed"}
Waits(t, i) == Bridges(t) /\ run[t].tx = i /\ run[t].step \in {"broadcast", "receipt"}

\* What the user was told of a deposit says what can still become of it.
DepositOK(i) ==
    /\ txs[i].told = "nothing" => \E t \in Terminals : Waits(t, i)
    /\ txs[i].state = "signed" => txs[i].told = "nothing"
    /\ txs[i].told = "included" => txs[i].state = "landed"
    /\ txs[i].told = "reverted" => txs[i].state = "reverted"
    /\ txs[i].told \in {"rejected", "failed"} => txs[i].state = "lost"

\* What a run of bridge-eth finds of the deposits.
BridgeOK(t) ==
    /\ run[t].step \in {"checks", "prepare", "confirm", "sign"} => \A i \in Nat : ~Alive(i)
    /\ run[t].step \in {"broadcast", "receipt"} => \A i \in Nat : Alive(i) => i = run[t].tx
    /\ run[t].step = "broadcast" => txs[run[t].tx].state = "signed"
    /\ run[t].step = "receipt" => /\ txs[run[t].tx].state # "signed"
                                  /\ txs[run[t].tx].told = "nothing"

DepositsOK ==
    /\ \A i \in Nat : Deposit(i) => DepositOK(i)
    /\ \A i, j \in Nat : Alive(i) /\ Alive(j) => i = j

PayInv ==
    /\ PaymentsTypeOK
    /\ \A t \in Terminals : RunOK(t)
    /\ OneRunOfACommand
    /\ DepositsOK
    /\ \A t \in Terminals : Bridges(t) => BridgeOK(t)

-----------------------------------------------------------------------------
(* Values. *)

LEMMA NoRunTyped == NoRun \in RunType /\ NoRun.cmd = "none" /\ NoRun.step = "idle"
                    /\ NoRun.call = "none"
  BY DEF NoRun, RunType, AllCommands, Calls

\* The calls tell the commands apart.
LEMMA CommandCalls ==
    \A c \in AllCommands :
        /\ CallsOf(c) \subseteq Calls
        /\ FirstCall(c) \in CallsOf(c)
        /\ "depositETH" \in CallsOf(c) <=> c = "bridge"
        /\ "approve" \in CallsOf(c) <=> c = "stake"
  BY DEF AllCommands, CallsOf, FirstCall, Pays, Calls

LEMMA PayInit == PaymentsInit => PayInv
<1> SUFFICES ASSUME PaymentsInit PROVE PayInv
  OBVIOUS
<1>1. PaymentsTypeOK
  BY NoRunTyped, PaymentsAssumption DEF PaymentsInit, PaymentsTypeOK, WalletType
<1>2. \A t \in Terminals : RunOK(t) /\ ~Bridges(t) /\ run[t].cmd = "none"
  BY NoRunTyped DEF PaymentsInit, RunOK, Bridges, CallsOf
<1>3. \A i \in Nat : ~Deposit(i)
  BY DEF PaymentsInit, Deposit
<1> QED
  BY <1>1, <1>2, <1>3 DEF PayInv, OneRunOfACommand, DepositsOK, Alive

LEMMA FieldsTyped ==
    ASSUME NEW w \in WalletType, NEW a \in Int, NEW b \in Int, NEW c \in Int
    PROVE  /\ [w EXCEPT !.l1 = a, !.bridging = b] \in WalletType
           /\ [w EXCEPT !.l2 = a, !.din = b] \in WalletType
           /\ [w EXCEPT !.din = a, !.allowance = b, !.staked = c] \in WalletType
           /\ [w EXCEPT !.claimable = a, !.claimed = TRUE] \in WalletType
           /\ [w EXCEPT !.din = a, !.claimable = b] \in WalletType
           /\ [w EXCEPT !.l2 = a] \in WalletType
           /\ [w EXCEPT !.allowance = 1] \in WalletType
           /\ [w EXCEPT !.bridging = a, !.l2 = b] \in WalletType
<1>1. [w EXCEPT !.l1 = a, !.bridging = b] \in WalletType
  BY DEF WalletType
<1>2. [w EXCEPT !.l2 = a, !.din = b] \in WalletType
  BY DEF WalletType
<1>3. [w EXCEPT !.din = a, !.allowance = b, !.staked = c] \in WalletType
  BY DEF WalletType
<1>4. [w EXCEPT !.claimable = a, !.claimed = TRUE] \in WalletType
  BY DEF WalletType
<1>5. [w EXCEPT !.din = a, !.claimable = b] \in WalletType
  BY DEF WalletType
<1>6. [w EXCEPT !.l2 = a] \in WalletType
  BY DEF WalletType
<1>7. [w EXCEPT !.allowance = 1] \in WalletType
  BY DEF WalletType
<1>8. [w EXCEPT !.bridging = a, !.l2 = b] \in WalletType
  BY DEF WalletType
<1> QED
  BY <1>1, <1>2, <1>3, <1>4, <1>5, <1>6, <1>7, <1>8

LEMMA ExecuteTyped ==
    ASSUME wallet \in WalletType, NEW c \in Calls
    PROVE  Execute(c) \in WalletType
<1>1. \A f \in {wallet.l1, wallet.l2, wallet.bridging, wallet.din, wallet.allowance,
                wallet.staked, wallet.claimable} : f \in Int /\ f + 1 \in Int /\ f - 1 \in Int
  BY DEF WalletType
<1>2. wallet.din + wallet.claimable \in Int
  BY DEF WalletType
<1>3. [wallet EXCEPT !.l1 = wallet.l1 - 1, !.bridging = wallet.bridging + 1] \in WalletType
  BY <1>1, <1>2, FieldsTyped
<1>4. [wallet EXCEPT !.l2 = wallet.l2 - 1] \in WalletType
  BY <1>1, <1>2, FieldsTyped
<1>5. [wallet EXCEPT !.l2 = wallet.l2 - 1, !.din = wallet.din + 1] \in WalletType
  BY <1>1, <1>2, FieldsTyped
<1>6. [wallet EXCEPT !.allowance = 1] \in WalletType
  BY <1>1, <1>2, FieldsTyped
<1>7. [wallet EXCEPT !.din = wallet.din - 1, !.allowance = wallet.allowance - 1,
                       !.staked = wallet.staked + 1] \in WalletType
  BY <1>1, <1>2, FieldsTyped
<1>8. [wallet EXCEPT !.claimable = wallet.claimable + 1, !.claimed = TRUE] \in WalletType
  BY <1>1, <1>2, FieldsTyped
<1>9. [wallet EXCEPT !.din = wallet.din + wallet.claimable, !.claimable = 0] \in WalletType
  <2>1. \A b \in Int : [wallet EXCEPT !.din = wallet.din + wallet.claimable, !.claimable = b]
                       \in WalletType
    BY <1>2, FieldsTyped
  <2>2. 0 \in Int
    OBVIOUS
  <2> QED
    BY <2>1, <2>2, Zenon
<1> QED
  BY <1>3, <1>4, <1>5, <1>6, <1>7, <1>8, <1>9 DEF Execute, Calls

LEMMA PendingTyped ==
    ASSUME PaymentsTypeOK, NEW c \in {"l1", "l2"}
    PROVE  PendingNonce(c) \in Int
<1>1. IsFiniteSet(1..Len(txs)) /\ Pooled(c) \subseteq 1..Len(txs)
  BY FS_Interval DEF PaymentsTypeOK, Pooled
<1>2. Cardinality(Pooled(c)) \in Nat
  BY <1>1, FS_Subset, FS_CardinalityType
<1> QED
  BY <1>2 DEF PendingNonce, PaymentsTypeOK

-----------------------------------------------------------------------------
(* The steps, by what they touch. *)

\* The chain moves a pooled transaction on.
LEMMA PayChainStep ==
    ASSUME PayInv, NEW i \in DOMAIN txs, txs[i].state = "pooled",
           NEW s \in {"landed", "reverted", "lost"},
           txs' = [txs EXCEPT ![i].state = s], UNCHANGED run,
           nonce' \in [l1 : Int, l2 : Int], wallet' \in WalletType
    PROVE  PayInv'
<1> DEFINE x == [txs[i] EXCEPT !.state = s]
<1>1. /\ txs \in Seq(PayTxType) /\ txs[i] \in PayTxType
      /\ txs' = [txs EXCEPT ![i] = x]
  BY DEF PayInv, PaymentsTypeOK
<1>2. x \in PayTxType /\ x.call = txs[i].call /\ x.told = txs[i].told /\ x.state = s
  BY <1>1 DEF PayTxType
<1> HIDE DEF x
<1>3. PaymentsTypeOK'
  <2>1. txs' \in Seq(PayTxType)
    BY <1>1, <1>2
  <2> QED
    BY <2>1 DEF PayInv, PaymentsTypeOK
<1>4. /\ DOMAIN txs' = DOMAIN txs /\ DOMAIN txs \subseteq Nat
      /\ \A j \in DOMAIN txs : /\ txs'[j].call = txs[j].call
                               /\ txs'[j].told = txs[j].told
                               /\ j # i => txs'[j].state = txs[j].state
      /\ txs'[i].state = s
  BY <1>1, <1>2
<1>5. \A t \in Terminals : RunOK(t)'
  BY <1>4 DEF PayInv, RunOK, PaymentsTypeOK, RunType
<1>6. \A j \in Nat : /\ Deposit(j)' <=> Deposit(j)
                     /\ Alive(j)' => Alive(j)
  BY <1>4 DEF Deposit, Alive
<1>7. \A j \in Nat : Deposit(j) => DepositOK(j)'
  BY <1>4 DEF PayInv, DepositsOK, DepositOK, Deposit, Waits, Bridges
<1>8. ASSUME NEW t \in Terminals, Bridges(t) PROVE BridgeOK(t)'
  <2>1. BridgeOK(t) /\ RunOK(t)
    BY <1>8 DEF PayInv
  <2> QED
    BY <2>1, <1>4, <1>6 DEF BridgeOK, RunOK
<1> QED
  BY <1>3, <1>5, <1>6, <1>7, <1>8 DEF PayInv, OneRunOfACommand, DepositsOK, Bridges

\* A run that has nothing signed goes on without signing, or ends.
LEMMA PayQuietStep ==
    ASSUME PayInv, NEW t \in Terminals, NEW d \in RunType,
           run' = [run EXCEPT ![t] = d], UNCHANGED <<txs, nonce, wallet>>,
           run[t].step \in {"checks", "prepare", "confirm", "poll"},
           \/ d = NoRun
           \/ /\ d.cmd = run[t].cmd /\ d.call = run[t].call
              /\ d.step \in {"prepare", "confirm", "sign"} /\ run[t].step # "poll"
    PROVE  PayInv'
<1>1. PaymentsTypeOK'
  BY DEF PayInv, PaymentsTypeOK
<1>2. run'[t] = d /\ \A u \in Terminals \ {t} : run'[u] = run[u]
  BY DEF PayInv, PaymentsTypeOK
<1>3. \A u \in Terminals : RunOK(u)'
  BY <1>2, NoRunTyped DEF PayInv, RunOK, CallsOf
<1>4. OneRunOfACommand'
  BY <1>2, NoRunTyped DEF PayInv, OneRunOfACommand
<1>5. \A i \in Nat : (Deposit(i)' <=> Deposit(i)) /\ (Alive(i)' <=> Alive(i))
  BY DEF Deposit, Alive
<1>6. \A i \in Nat, u \in Terminals : Waits(u, i) => Waits(u, i)'
  BY <1>2 DEF Waits, Bridges
<1>7. DepositsOK'
  BY <1>5, <1>6 DEF PayInv, DepositsOK, DepositOK
<1>8. ASSUME NEW u \in Terminals, Bridges(u)' PROVE BridgeOK(u)'
  BY <1>2, <1>5, <1>8, NoRunTyped DEF PayInv, BridgeOK, Bridges
<1> QED
  BY <1>1, <1>3, <1>4, <1>7, <1>8 DEF PayInv

\* A run that ends, or goes on with what it told as x; a run that waits.
Told(t, d, x) ==
    /\ d = NoRun \/ (d.cmd = run[t].cmd /\ d.call \in CallsOf(d.cmd)
                      /\ d.step \in {"poll", "prepare"})
    /\ d.cmd = "bridge" => d.step = "poll"
    /\ x.told # "nothing"
    /\ x.told = "included" => x.state = "landed"
    /\ x.told = "reverted" => x.state = "reverted"
    /\ x.told \in {"rejected", "failed"} /\ Bridges(t) => x.state = "lost"

WaitsOn(t, i, d, x) ==
    /\ d = [run[t] EXCEPT !.step = "receipt"]
    /\ x.told = txs[i].told
    /\ run[t].step = "broadcast"

\* A run learns what became of its transaction, or waits for it.
LEMMA OutcomeStep ==
    ASSUME PayInv, NEW t \in Terminals, NEW d \in RunType, NEW x \in PayTxType,
           NEW i \in Nat, run[t].tx = i,
           run[t].step \in {"broadcast", "receipt"},
           run' = [run EXCEPT ![t] = d], txs' = [txs EXCEPT ![i] = x],
           UNCHANGED <<nonce, wallet>>,
           x.call = txs[i].call,
           Bridges(t) => x.state # "signed",
           run[t].step = "receipt" => x.state = txs[i].state,
           Told(t, d, x) \/ WaitsOn(t, i, d, x)
    PROVE  PayInv'
<1>0. Told(t, d, x) \/ WaitsOn(t, i, d, x)
  OBVIOUS
<1>1. /\ RunOK(t) /\ i \in DOMAIN txs /\ txs[i] \in PayTxType /\ DOMAIN txs \subseteq Nat
      /\ run[t] \in RunType /\ run[t].cmd \in AllCommands
  BY DEF PayInv, PaymentsTypeOK, RunOK, RunType
<1>2. PaymentsTypeOK'
  BY <1>1 DEF PayInv, PaymentsTypeOK
<1>3. run'[t] = d /\ \A u \in Terminals \ {t} : run'[u] = run[u]
  BY DEF PayInv, PaymentsTypeOK
<1>4. /\ DOMAIN txs' = DOMAIN txs /\ txs'[i] = x
      /\ \A j \in DOMAIN txs : j # i => txs'[j] = txs[j]
      /\ \A j \in DOMAIN txs : txs'[j].call = txs[j].call
  BY <1>1 DEF PayInv, PaymentsTypeOK
<1>5. \A u \in Terminals : RunOK(u)'
  <2>1. RunOK(t)'
    BY <1>1, <1>3, <1>4, NoRunTyped DEF RunOK, CallsOf, RunType, AllCommands, Told, WaitsOn
  <2>2. ASSUME NEW u \in Terminals \ {t} PROVE RunOK(u)'
    BY <1>3, <1>4 DEF PayInv, RunOK
  <2> QED
    BY <2>1, <2>2
<1>6. OneRunOfACommand'
  <2>1. d.cmd \in {"none", run[t].cmd}
    BY NoRunTyped, <1>1 DEF RunType, Told, WaitsOn
  <2> QED
    BY <2>1, <1>3 DEF PayInv, OneRunOfACommand
<1>7. Deposit(i) <=> Bridges(t)
  BY <1>1, CommandCalls DEF RunOK, Deposit, Bridges, CallsOf, Pays, FirstCall, AllCommands
<1>8. \A j \in Nat : (Deposit(j)' <=> Deposit(j)) /\ (Alive(j)' => Alive(j))
  <2>1. ASSUME Bridges(t), x.state \in {"pooled", "landed"} PROVE Alive(i)
    BY <2>1, <1>1, <1>7 DEF PayInv, BridgeOK, Alive
  <2> QED
    BY <1>4, <1>7, <2>1 DEF Deposit, Alive
<1>9. \A j \in Nat, u \in Terminals : Waits(u, j) /\ (u # t \/ d.step = "receipt") => Waits(u, j)'
  <2> SUFFICES ASSUME NEW j \in Nat, Waits(t, j), d.step = "receipt" PROVE Waits(t, j)'
    BY <1>3 DEF Waits, Bridges
  <2>1. d = [run[t] EXCEPT !.step = "receipt"]
    BY NoRunTyped DEF Told, WaitsOn
  <2> QED
    BY <2>1, <1>1, <1>3 DEF Waits, Bridges, RunType
<1>10. ASSUME NEW j \in Nat, Deposit(j) PROVE DepositOK(j)'
  <2>1. CASE j = i
    <3>1. Bridges(t) /\ DepositOK(i)
      BY <1>7, <1>10, <2>1 DEF PayInv, DepositsOK
    <3>2. CASE d.step = "receipt"
      <4>1. run[t].step = "broadcast" /\ d = [run[t] EXCEPT !.step = "receipt"]
            /\ x.told = txs[i].told
        BY <3>2, NoRunTyped DEF Told, WaitsOn
      <4>2. txs[i].state = "signed"
        BY <4>1, <3>1 DEF PayInv, BridgeOK
      <4>3. x.told = "nothing" /\ Waits(t, i)'
        BY <4>1, <4>2, <3>1, <1>3, <1>1 DEF DepositOK, Waits, Bridges, RunType
      <4> QED
        BY <4>3, <1>4, <2>1 DEF DepositOK
    <3>3. CASE d.step # "receipt"
      BY <3>1, <3>3, <1>1, <1>4, <2>1 DEF DepositOK, RunType, Told, WaitsOn
    <3> QED
      BY <3>2, <3>3
  <2>2. CASE j # i
    <3>1. DepositOK(j) /\ \A u \in Terminals : Waits(u, j) => u # t
      BY <1>10, <2>2 DEF PayInv, DepositsOK, Waits
    <3> QED
      BY <3>1, <1>4, <1>9, <1>10, <2>2 DEF DepositOK, Deposit
  <2> QED
    BY <2>1, <2>2
<1>11. DepositsOK'
  BY <1>8, <1>10 DEF PayInv, DepositsOK
<1>12. ASSUME NEW u \in Terminals, Bridges(u)' PROVE BridgeOK(u)'
  <2>1. CASE u = t
    <3>1. CASE d.step = "receipt"
      <4>1. /\ run[t].step = "broadcast" /\ d = [run[t] EXCEPT !.step = "receipt"]
            /\ x.told = txs[i].told
        BY <3>1, NoRunTyped DEF Told, WaitsOn
      <4>2. Bridges(t)
        BY <4>1, <1>12, <2>1, <1>1, <1>3 DEF Bridges, RunType
      <4>3. BridgeOK(t) /\ DepositOK(i) /\ d.tx = i
        BY <4>1, <4>2, <1>1, <1>7 DEF PayInv, DepositsOK, RunType, Deposit
      <4>4. txs[i].told = "nothing" /\ \A j \in Nat : Alive(j)' => j = i
        BY <4>1, <4>3, <1>8 DEF BridgeOK, DepositOK
      <4>5. run'[u].step = "receipt" /\ run'[u].tx = i /\ txs'[i] = x
        BY <3>1, <4>3, <1>3, <1>4, <2>1
      <4> QED
        BY <4>1, <4>2, <4>4, <4>5 DEF BridgeOK
    <3>2. CASE d.step # "receipt"
      <4>1. d.step = "poll"
        BY <3>2, <2>1, <1>1, <1>3, <1>12, NoRunTyped DEF Bridges, RunType, Told, WaitsOn
      <4> QED
        BY <4>1, <1>3, <2>1 DEF BridgeOK
    <3> QED
      BY <3>1, <3>2
  <2>2. CASE u # t
    <3>1. Bridges(u) /\ BridgeOK(u) /\ RunOK(u)
      BY <1>3, <1>12, <2>2 DEF PayInv, Bridges
    <3>2. run[u].step \in {"broadcast", "receipt"} => run[u].tx # i
      <4> SUFFICES ASSUME run[u].step \in {"broadcast", "receipt"}, run[u].tx = i
                   PROVE  FALSE
        OBVIOUS
      <4>1. Deposit(i)
        BY <3>1, <1>1 DEF RunOK, Bridges, CallsOf, Pays, FirstCall, Deposit
      <4> QED
        BY <4>1, <1>7, <3>1, <2>2 DEF PayInv, OneRunOfACommand, Bridges
    <3> QED
      BY <3>1, <3>2, <1>3, <1>4, <1>8, <2>2 DEF BridgeOK, RunOK
  <2> QED
    BY <2>1, <2>2
<1> QED
  BY <1>2, <1>5, <1>6, <1>11, <1>12 DEF PayInv

-----------------------------------------------------------------------------
(* The user begins a run; a run signs. *)

\* No deposit is alive when the user may run bridge-eth.
LEMMA NothingAlive ==
    ASSUME PayInv, \A t \in Terminals : ~Bridges(t),
           ~KnownPaid("bridge"), ~Unresolved("bridge"), NEW i \in Nat
    PROVE  ~Alive(i)
<1> SUFFICES ASSUME Alive(i) PROVE FALSE
  OBVIOUS
<1>1. i \in Of("bridge") /\ DepositOK(i) /\ txs[i] \in PayTxType
  BY DEF Alive, Deposit, Of, Pays, PayInv, DepositsOK, PaymentsTypeOK
<1>2. txs[i].told # "nothing"
  BY <1>1 DEF DepositOK, Waits
<1>3. txs[i].told \in {"included", "unknown"} /\ txs[i].state \in {"pooled", "landed"}
  BY <1>1, <1>2 DEF DepositOK, Alive, PayTxType
<1> QED
  BY <1>1, <1>3 DEF DepositOK, KnownPaid, Unresolved

LEMMA PayBegins ==
    ASSUME PayInv, NEW t \in Terminals, NEW c \in Commands, BeginRun(t, c)
    PROVE  PayInv'
<1> DEFINE d == [NoRun EXCEPT !.cmd = c, !.step = "checks", !.call = FirstCall(c)]
<1>1. c \in AllCommands
  BY PaymentsAssumption
<1>2. d \in RunType /\ d.cmd = c /\ d.step = "checks" /\ d.call = FirstCall(c)
  <2>1. FirstCall(c) \in Calls
    BY <1>1, CommandCalls
  <2>2. \A k \in AllCommands, f \in Calls :
           [NoRun EXCEPT !.cmd = k, !.step = "checks", !.call = f] \in RunType
    BY NoRunTyped DEF RunType
  <2>3. d \in RunType
    BY <1>1, <2>1, <2>2
  <2> QED
    BY <2>3 DEF NoRun
<1> HIDE DEF d
<1>3. run'[t] = d /\ \A u \in Terminals \ {t} : run'[u] = run[u]
  BY DEF BeginRun, PayInv, PaymentsTypeOK, d
<1>4. run[t] = NoRun /\ run[t].step = "idle"
  BY NoRunTyped DEF BeginRun
<1>5. PaymentsTypeOK'
  BY <1>2 DEF BeginRun, PayInv, PaymentsTypeOK, d
<1>6. \A u \in Terminals : RunOK(u)'
  <2>1. RunOK(t)'
    BY <1>1, <1>2, <1>3 DEF RunOK, CallsOf, AllCommands
  <2>2. ASSUME NEW u \in Terminals \ {t} PROVE RunOK(u)'
    BY <1>3 DEF BeginRun, PayInv, RunOK
  <2> QED
    BY <2>1, <2>2
<1>7. OneRunOfACommand'
  BY <1>2, <1>3 DEF BeginRun, PayInv, OneRunOfACommand
<1>8. \A i \in Nat : (Deposit(i)' <=> Deposit(i)) /\ (Alive(i)' <=> Alive(i))
  BY DEF BeginRun, Deposit, Alive
<1>9. \A i \in Nat, u \in Terminals : Waits(u, i) => Waits(u, i)'
  BY <1>3, <1>4 DEF Waits, Bridges
<1>10. DepositsOK'
  BY <1>8, <1>9 DEF BeginRun, PayInv, DepositsOK, DepositOK
<1>11. ASSUME NEW u \in Terminals, Bridges(u)' PROVE BridgeOK(u)'
  <2>1. CASE u = t
    <3>1. c = "bridge"
      BY <1>2, <1>3, <1>11, <2>1 DEF Bridges
    <3>2. \A i \in Nat : ~Alive(i)
      BY <3>1, NothingAlive DEF BeginRun, Bridges
    <3> QED
      BY <3>2, <1>2, <1>3, <1>8, <2>1 DEF BridgeOK
  <2>2. CASE u # t
    BY <2>2, <1>3, <1>8, <1>11 DEF BeginRun, PayInv, BridgeOK, Bridges
  <2> QED
    BY <2>1, <2>2
<1> QED
  BY <1>5, <1>6, <1>7, <1>10, <1>11 DEF PayInv

LEMMA SignStep ==
    ASSUME PayInv, NEW t \in Terminals, SignDeposit(t)
    PROVE  PayInv'
<1>0. PICK n \in Nat : n = Len(txs) + 1
  BY DEF PayInv, PaymentsTypeOK
<1> DEFINE d == [run[t] EXCEPT !.step = "broadcast", !.tx = n]
           x == [call |-> run[t].call, nonce |-> run[t].nonce,
                 state |-> "signed", told |-> "nothing"]
<1>1. /\ RunOK(t) /\ run[t] \in RunType /\ run[t].step = "sign" /\ txs \in Seq(PayTxType)
      /\ Len(txs) \in Nat /\ DOMAIN txs = 1..Len(txs)
  BY DEF PayInv, PaymentsTypeOK, SignDeposit
<1>2. run[t].cmd \in AllCommands /\ run[t].call \in Calls
  BY <1>1, CommandCalls DEF RunOK, RunType, CallsOf
<1>3. x \in PayTxType /\ x.call = run[t].call /\ x.state = "signed" /\ x.told = "nothing"
  BY <1>1, <1>2 DEF PayTxType, RunType
<1>4. /\ d \in RunType /\ d.cmd = run[t].cmd /\ d.call = run[t].call
      /\ d.step = "broadcast" /\ d.tx = n
  BY <1>1 DEF RunType
<1>5. txs' = Append(txs, x) /\ run' = [run EXCEPT ![t] = d] /\ UNCHANGED <<nonce, wallet>>
  BY <1>0 DEF SignDeposit
<1> HIDE DEF d, x
<1>6. run'[t] = d /\ \A u \in Terminals \ {t} : run'[u] = run[u]
  BY <1>5 DEF PayInv, PaymentsTypeOK
<1>7. /\ txs' \in Seq(PayTxType) /\ DOMAIN txs' = 1..n /\ txs'[n] = x
      /\ \A i \in DOMAIN txs : txs'[i] = txs[i]
  BY <1>0, <1>1, <1>3, <1>5
<1>8. PaymentsTypeOK'
  BY <1>4, <1>5, <1>7 DEF PayInv, PaymentsTypeOK
<1>9. \A u \in Terminals : RunOK(u)'
  <2>1. RunOK(t)'
    BY <1>0, <1>1, <1>2, <1>3, <1>4, <1>6, <1>7 DEF RunOK, AllCommands
  <2>2. ASSUME NEW u \in Terminals \ {t} PROVE RunOK(u)'
    BY <1>0, <1>1, <1>6, <1>7 DEF PayInv, RunOK
  <2> QED
    BY <2>1, <2>2
<1>10. OneRunOfACommand'
  BY <1>4, <1>6 DEF PayInv, OneRunOfACommand
<1>11. \A i \in DOMAIN txs : i # n
  BY <1>0, <1>1
<1>12. \A i \in Nat : i # n => /\ Deposit(i)' <=> Deposit(i)
                               /\ Alive(i)' <=> Alive(i)
  BY <1>0, <1>1, <1>7 DEF Deposit, Alive
<1>13. Deposit(n)' <=> Bridges(t)
  BY <1>0, <1>1, <1>2, <1>3, <1>7, CommandCalls
     DEF RunOK, Deposit, Bridges, CallsOf, Pays, FirstCall, AllCommands
<1>14. ASSUME Bridges(t), NEW i \in Nat PROVE ~Alive(i)
  BY <1>1, <1>14 DEF PayInv, BridgeOK
<1>15. DepositsOK'
  <2>1. ASSUME NEW i \in Nat, Deposit(i)' PROVE DepositOK(i)'
    <3>1. CASE i = n
      <4>1. Waits(t, i)'
        BY <1>4, <1>6, <1>13, <2>1, <3>1 DEF Waits, Bridges
      <4> QED
        BY <4>1, <1>3, <1>7, <3>1 DEF DepositOK
    <3>2. CASE i # n
      <4>1. DepositOK(i) /\ txs'[i] = txs[i]
        BY <1>7, <1>12, <2>1, <3>2 DEF PayInv, DepositsOK, Deposit
      <4>2. \A u \in Terminals : Waits(u, i) => Waits(u, i)'
        BY <1>1, <1>6 DEF Waits, Bridges
      <4> QED
        BY <4>1, <4>2 DEF DepositOK
    <3> QED
      BY <3>1, <3>2
  <2>2. ASSUME NEW i \in Nat, NEW j \in Nat, Alive(i)', Alive(j)' PROVE i = j
    BY <1>12, <1>13, <1>14, <2>2 DEF PayInv, DepositsOK, Alive
  <2> QED
    BY <2>1, <2>2 DEF DepositsOK
<1>16. ASSUME NEW u \in Terminals, Bridges(u)' PROVE BridgeOK(u)'
  <2>1. CASE u = t
    <3>1. Bridges(t)
      BY <1>4, <1>6, <1>16, <2>1 DEF Bridges
    <3> QED
      BY <3>1, <1>3, <1>4, <1>6, <1>7, <1>12, <1>14, <2>1 DEF BridgeOK
  <2>2. CASE u # t
    <3>1. Bridges(u) /\ BridgeOK(u) /\ RunOK(u) /\ ~Bridges(t)
      BY <1>6, <1>16, <2>2 DEF PayInv, Bridges, OneRunOfACommand
    <3>2. ~Alive(n)'
      BY <3>1, <1>13 DEF Alive
    <3> QED
      BY <3>1, <3>2, <1>6, <1>7, <1>12, <2>2 DEF BridgeOK, RunOK
  <2> QED
    BY <2>1, <2>2
<1> QED
  BY <1>8, <1>9, <1>10, <1>15, <1>16 DEF PayInv

-----------------------------------------------------------------------------
(* The commands' steps. *)

LEMMA PayMined ==
    ASSUME PayInv, NEW i \in DOMAIN txs, MinePayment(i) PROVE PayInv'
<1>1. txs[i] \in PayTxType /\ wallet \in WalletType /\ nonce \in [l1 : Int, l2 : Int]
  BY DEF PayInv, PaymentsTypeOK
<1>2. txs[i].call \in Calls /\ txs[i].state = "pooled"
  BY <1>1 DEF PayTxType, MinePayment, Pooled
<1>3. nonce' \in [l1 : Int, l2 : Int]
  <2>1. nonce["l1"] + 1 \in Int /\ nonce["l2"] + 1 \in Int
    BY <1>1
  <2>2. \A m \in Int : /\ [nonce EXCEPT !["l1"] = m] \in [l1 : Int, l2 : Int]
                       /\ [nonce EXCEPT !["l2"] = m] \in [l1 : Int, l2 : Int]
    BY <1>1
  <2> QED
    BY <2>1, <2>2 DEF MinePayment, Chain
<1>4. wallet' \in WalletType
  BY <1>1, <1>2, ExecuteTyped DEF MinePayment
<1>5. PICK s \in {"landed", "reverted"} : txs' = [txs EXCEPT ![i].state = s]
  BY DEF MinePayment
<1> QED
  BY <1>2, <1>3, <1>4, <1>5, PayChainStep DEF MinePayment

LEMMA DropStep ==
    ASSUME PayInv, NEW i \in DOMAIN txs, DropTx(i) PROVE PayInv'
  BY PayChainStep DEF DropTx, Pooled, PayInv, PaymentsTypeOK

LEMMA DeliverStep == ASSUME PayInv, Deliver PROVE PayInv'
<1>1. wallet' \in WalletType
  <2>1. wallet \in WalletType /\ wallet.bridging - 1 \in Int /\ wallet.l2 + 1 \in Int
    BY DEF PayInv, PaymentsTypeOK, WalletType
  <2> QED
    BY <2>1, FieldsTyped DEF Deliver
<1> QED
  BY <1>1 DEF Deliver, PayInv, PaymentsTypeOK, RunOK, OneRunOfACommand, Bridges, Deposit,
              Alive, Waits, DepositOK, BridgeOK, DepositsOK

\* The records the quiet steps write.
LEMMA RunWrites ==
    ASSUME PayInv, NEW t \in Terminals
    PROVE  /\ run[t] \in RunType
           /\ \A s \in {"prepare", "confirm", "sign", "poll", "receipt"} :
                 LET d == [run[t] EXCEPT !.step = s]
                 IN  /\ d \in RunType /\ d.cmd = run[t].cmd /\ d.call = run[t].call
                     /\ d.step = s
                     /\ [run EXCEPT ![t].step = s] = [run EXCEPT ![t] = d]
<1>1. run[t] \in RunType /\ run \in [Terminals -> RunType]
  BY DEF PayInv, PaymentsTypeOK
<1> QED
  BY <1>1 DEF RunType

LEMMA CheckStep ==
    ASSUME PayInv, NEW t \in Terminals, Check(t) \/ StaticPreflight(t) \/ PollL2Balance(t)
    PROVE  PayInv'
<1>1. CASE Exits(t)
  BY <1>1, NoRunTyped, PayQuietStep DEF Check, StaticPreflight, PollL2Balance, Exits
<1>2. CASE ~Exits(t)
  <2>1. Check(t) /\ GoesTo(t, "prepare")
    BY <1>2 DEF Check, StaticPreflight, PollL2Balance
  <2> QED
    BY <2>1, RunWrites, PayQuietStep DEF Check, GoesTo
<1> QED
  BY <1>1, <1>2

LEMMA PrepareStep ==
    ASSUME PayInv, NEW t \in Terminals, PrepareTransaction(t) PROVE PayInv'
<1>1. run[t] \in RunType
  BY RunWrites
<1>2. CASE Exits(t)
  BY <1>2, NoRunTyped, PayQuietStep DEF PrepareTransaction, Exits
<1>3. CASE ~Exits(t)
  <2>1. PICK n \in Int, s \in {"confirm", "sign"} :
             run' = [run EXCEPT ![t].nonce = n, ![t].step = s]
    BY <1>3, PendingTyped DEF PrepareTransaction, Chain, PayInv
  <2> DEFINE d == [run[t] EXCEPT !.nonce = n, !.step = s]
  <2>2. /\ d \in RunType /\ d.cmd = run[t].cmd /\ d.call = run[t].call
        /\ d.step \in {"confirm", "sign"}
    BY <1>1 DEF RunType
  <2>3. run' = [run EXCEPT ![t] = d]
    BY <2>1, RunWrites DEF PayInv, PaymentsTypeOK
  <2> QED
    BY <2>2, <2>3, PayQuietStep DEF PrepareTransaction
<1> QED
  BY <1>2, <1>3

LEMMA ConfirmStep ==
    ASSUME PayInv, NEW t \in Terminals, ConfirmDeposit(t) PROVE PayInv'
<1>1. run[t] \in RunType /\ wallet.l2 \in Int
  BY RunWrites DEF PayInv, PaymentsTypeOK, WalletType
<1>2. CASE Exits(t)
  BY <1>2, NoRunTyped, PayQuietStep DEF ConfirmDeposit, Exits
<1>3. CASE ~Exits(t)
  <2>1. PICK n \in Int : run' = [run EXCEPT ![t].step = "sign", ![t].baseline = n]
    BY <1>1, <1>3 DEF ConfirmDeposit
  <2> DEFINE d == [run[t] EXCEPT !.step = "sign", !.baseline = n]
  <2>2. /\ d \in RunType /\ d.cmd = run[t].cmd /\ d.call = run[t].call
        /\ d.step = "sign"
    BY <1>1 DEF RunType
  <2>3. run' = [run EXCEPT ![t] = d]
    BY <2>1, RunWrites DEF PayInv, PaymentsTypeOK
  <2> QED
    BY <2>2, <2>3, PayQuietStep DEF ConfirmDeposit
<1> QED
  BY <1>2, <1>3

\* What a run writes of its transaction.
LEMMA TxWrites ==
    ASSUME PayInv, NEW t \in Terminals, run[t].step \in {"broadcast", "receipt"},
           NEW i, i = run[t].tx
    PROVE  /\ i \in Nat /\ i \in DOMAIN txs /\ txs[i] \in PayTxType
           /\ txs \in Seq(PayTxType)
           /\ Bridges(t) => (run[t].step = "broadcast" <=> txs[i].state = "signed")
<1>1. i \in DOMAIN txs /\ txs \in Seq(PayTxType)
  BY DEF PayInv, RunOK, PaymentsTypeOK
<1>2. txs[i] \in PayTxType /\ i \in Nat
  BY <1>1
<1>3. Bridges(t) => (run[t].step = "broadcast" <=> txs[i].state = "signed")
  BY DEF PayInv, BridgeOK
<1> QED
  BY <1>1, <1>2, <1>3

\* The run of t tells w of its transaction i, whose state is s then, and becomes d.
TellsAndGoes(t, i, s, w, d) ==
    /\ i = run[t].tx
    /\ run[t].step \in {"broadcast", "receipt"} /\ UNCHANGED <<nonce, wallet>>
    /\ txs' = [txs EXCEPT ![i].state = s, ![i].told = w]
    /\ run' = [run EXCEPT ![t] = d]
    /\ run[t].step = "receipt" => s = txs[i].state
    /\ Bridges(t) => s # "signed" /\ (w \in {"rejected", "failed"} => s = "lost")
    /\ w = "included" => s = "landed"
    /\ w = "reverted" => s = "reverted"
    /\ \/ d = NoRun
       \/ /\ d.cmd = run[t].cmd /\ d.call \in CallsOf(d.cmd)
          /\ d.step = IF Bridges(t) THEN "poll" ELSE "prepare"

LEMMA ToldStep ==
    ASSUME PayInv, NEW t \in Terminals, NEW i, NEW d \in RunType,
           NEW s \in {"signed", "pooled", "landed", "reverted", "lost"},
           NEW w \in {"included", "reverted", "rejected", "failed", "unknown"},
           TellsAndGoes(t, i, s, w, d)
    PROVE  PayInv'
<1>1. i \in Nat /\ i \in DOMAIN txs /\ txs[i] \in PayTxType /\ txs \in Seq(PayTxType)
  BY TxWrites DEF TellsAndGoes
<1>2. PICK x \in PayTxType : /\ x = [txs[i] EXCEPT !.state = s, !.told = w]
                          /\ x.call = txs[i].call /\ x.state = s /\ x.told = w
  <2> DEFINE y == [txs[i] EXCEPT !.state = s, !.told = w]
  <2>1. y \in PayTxType /\ y.call = txs[i].call /\ y.state = s /\ y.told = w
    BY <1>1 DEF PayTxType
  <2> QED
    BY <2>1
<1>3. txs' = [txs EXCEPT ![i] = x]
  BY <1>1, <1>2 DEF TellsAndGoes
<1>4. /\ run[t].tx = i /\ run[t].step \in {"broadcast", "receipt"}
      /\ run' = [run EXCEPT ![t] = d] /\ UNCHANGED <<nonce, wallet>>
      /\ Bridges(t) => x.state # "signed"
      /\ run[t].step = "receipt" => x.state = txs[i].state
  BY <1>2 DEF TellsAndGoes
<1>5. Told(t, d, x)
  BY <1>2, NoRunTyped DEF Told, TellsAndGoes, Bridges
<1> QED
  BY <1>1, <1>2, <1>3, <1>4, <1>5, OutcomeStep

LEMMA BroadcastStep ==
    ASSUME PayInv, NEW t \in Terminals, Broadcast(t) PROVE PayInv'
<1>0. PICK i \in Nat : i = run[t].tx
  BY TxWrites DEF Broadcast
<1>1. run[t].step = "broadcast" /\ UNCHANGED <<nonce, wallet>>
  BY DEF Broadcast
<1>2. i \in DOMAIN txs /\ txs[i] \in PayTxType /\ txs \in Seq(PayTxType)
  BY <1>0, <1>1, TxWrites
<1>3. CASE txs' = [txs EXCEPT ![i].state = "pooled"] /\ GoesTo(t, "receipt")
  <2> DEFINE x == [txs[i] EXCEPT !.state = "pooled"]
             d == [run[t] EXCEPT !.step = "receipt"]
  <2>1. /\ x \in PayTxType /\ x.call = txs[i].call /\ x.state = "pooled"
        /\ x.told = txs[i].told
    BY <1>2 DEF PayTxType
  <2>2. txs' = [txs EXCEPT ![i] = x]
    BY <1>2, <1>3
  <2>3. d \in RunType /\ run' = [run EXCEPT ![t] = d]
    BY <1>3, RunWrites DEF GoesTo
  <2> HIDE DEF x
  <2> QED
    BY <1>0, <1>1, <2>1, <2>2, <2>3, OutcomeStep DEF WaitsOn
<1>4. CASE /\ Exits(t)
           /\ \/ txs' = [txs EXCEPT ![i].state = "lost", ![i].told = ClassifyRejection(t)]
              \/ \E s \in {"pooled", "lost"} :
                     txs' = [txs EXCEPT ![i].state = s, ![i].told = ClassifyTransport(t)]
  <2>2. ClassifyRejection(t) \in {"rejected", "failed"}
        /\ ClassifyTransport(t) = IF Bridges(t) THEN "unknown" ELSE "failed"
    BY DEF ClassifyRejection, ClassifyTransport, Bridges
  <2>4. PICK s \in {"pooled", "lost"}, w \in {"rejected", "failed", "unknown"} :
           /\ txs' = [txs EXCEPT ![i].state = s, ![i].told = w]
           /\ Bridges(t) /\ w \in {"rejected", "failed"} => s = "lost"
    BY <1>4, <2>2
  <2> QED
    BY <1>0, <1>1, <1>4, <2>4, NoRunTyped, ToldStep DEF Exits, TellsAndGoes
<1> QED
  BY <1>0, <1>3, <1>4 DEF Broadcast

\* After the receipt of a transaction the run ends, unless it staked or bridged.
LEMMA FollowsWrites ==
    ASSUME PayInv, NEW t \in Terminals, run[t].step = "receipt", Follows(t) \/ Exits(t)
    PROVE  \E d \in RunType :
              /\ run' = [run EXCEPT ![t] = d]
              /\ \/ d = NoRun
                 \/ /\ d.cmd = run[t].cmd /\ d.call \in CallsOf(d.cmd)
                    /\ d.step = IF Bridges(t) THEN "poll" ELSE "prepare"
<1>1. CASE Exits(t)
  BY <1>1, NoRunTyped DEF Exits
<1>2. CASE ~Exits(t) /\ run[t].call = "approve"
  <2> DEFINE d == [run[t] EXCEPT !.step = "prepare", !.call = "stake"]
  <2>1. run[t].cmd = "stake" /\ run[t] \in RunType
    <3>1. RunOK(t) /\ run[t] \in RunType
      BY RunWrites DEF PayInv
    <3>2. run[t].cmd \in AllCommands
      BY <3>1 DEF RunOK, RunType
    <3> QED
      BY <1>2, <3>1, <3>2, CommandCalls DEF RunOK
  <2>2. /\ d \in RunType /\ d.cmd = "stake" /\ d.call = "stake" /\ d.step = "prepare"
    BY <2>1 DEF RunType, Calls
  <2>3. run' = [run EXCEPT ![t] = d]
    <3>1. run' = [run EXCEPT ![t].step = "prepare", ![t].call = "stake"]
      BY <1>2, <2>1 DEF Follows
    <3> QED
      BY <3>1, <2>1 DEF PayInv, PaymentsTypeOK
  <2>4. d.call \in CallsOf(d.cmd) /\ ~Bridges(t) /\ d.cmd = run[t].cmd
    BY <2>1, <2>2 DEF CallsOf, Pays, Bridges
  <2> HIDE DEF d
  <2> QED
    BY <2>2, <2>3, <2>4
<1>3. CASE ~Exits(t) /\ run[t].call # "approve"
  <2>1. Bridges(t) /\ GoesTo(t, "poll")
    BY <1>3 DEF Follows, Bridges
  <2> DEFINE d == [run[t] EXCEPT !.step = "poll"]
  <2>2. /\ d \in RunType /\ d.cmd = run[t].cmd /\ d.call = run[t].call
        /\ d.step = "poll" /\ run' = [run EXCEPT ![t] = d]
    BY <2>1, RunWrites DEF GoesTo
  <2>3. d.call \in CallsOf(d.cmd)
    BY <2>2 DEF PayInv, RunOK
  <2> HIDE DEF d
  <2> QED
    BY <2>1, <2>2, <2>3
<1> QED
  BY <1>1, <1>2, <1>3

LEMMA ReceiptStep ==
    ASSUME PayInv, NEW t \in Terminals, WaitForReceipt(t) \/ PaymentTimesOut(t)
    PROVE  PayInv'
<1>0. PICK i \in Nat : i = run[t].tx
  BY TxWrites DEF WaitForReceipt, PaymentTimesOut
<1>1. run[t].step = "receipt" /\ UNCHANGED <<nonce, wallet>>
  BY DEF WaitForReceipt, PaymentTimesOut
<1>2. /\ i \in DOMAIN txs /\ txs[i] \in PayTxType /\ txs \in Seq(PayTxType)
      /\ Bridges(t) => txs[i].state # "signed"
  BY <1>0, <1>1, TxWrites
<1>3. PICK d \in RunType :
        /\ run' = [run EXCEPT ![t] = d]
        /\ \/ d = NoRun
           \/ /\ d.cmd = run[t].cmd /\ d.call \in CallsOf(d.cmd)
              /\ d.step = IF Bridges(t) THEN "poll" ELSE "prepare"
  BY <1>1, FollowsWrites DEF WaitForReceipt, PaymentTimesOut
<1>4. PICK w \in {"included", "reverted", "failed", "unknown"} :
        /\ txs' = [txs EXCEPT ![i].told = w]
        /\ w = "included" => txs[i].state = "landed"
        /\ w = "reverted" => txs[i].state = "reverted"
        /\ Bridges(t) => w # "failed"
  BY <1>0 DEF WaitForReceipt, PaymentTimesOut, Tells, ClassifyTransport, Bridges
<1>5. PICK s \in {"signed", "pooled", "landed", "reverted", "lost"} : s = txs[i].state
  BY <1>2 DEF PayTxType
<1>6. txs' = [txs EXCEPT ![i].state = s, ![i].told = w]
  BY <1>2, <1>4, <1>5 DEF PayTxType
<1>7. Bridges(t) => s # "signed" /\ w \notin {"rejected", "failed"}
  BY <1>2, <1>4, <1>5
<1>8. (w = "included" => s = "landed") /\ (w = "reverted" => s = "reverted")
  BY <1>4, <1>5
<1> QED
  BY <1>0, <1>1, <1>3, <1>5, <1>6, <1>7, <1>8, ToldStep DEF TellsAndGoes

-----------------------------------------------------------------------------
(* The theorems. *)

LEMMA PayStep == PayInv /\ [PaymentsNext]_paymentVars => PayInv'
<1> SUFFICES ASSUME PayInv, [PaymentsNext]_paymentVars PROVE PayInv'
  OBVIOUS
<1>1. CASE UNCHANGED paymentVars
  BY <1>1 DEF paymentVars, PayInv, PaymentsTypeOK, RunOK, OneRunOfACommand, Bridges, Deposit,
              Alive, Waits, DepositOK, BridgeOK, DepositsOK
<1>2. ASSUME NEW t \in Terminals, Step(t) PROVE PayInv'
  BY <1>2, CheckStep, PrepareStep, ConfirmStep, SignStep, BroadcastStep, ReceiptStep DEF Step
<1>3. ASSUME NEW t \in Terminals, NEW c \in Commands, BeginRun(t, c) PROVE PayInv'
  BY <1>3, PayBegins
<1>4. ASSUME NEW i \in DOMAIN txs, MinePayment(i) \/ DropTx(i) PROVE PayInv'
  BY <1>4, PayMined, DropStep
<1>5. CASE Deliver
  BY <1>5, DeliverStep
<1> QED
  BY <1>1, <1>2, <1>3, <1>4, <1>5 DEF PaymentsNext

\* The invariant holds of the payments, whatever the terminals, the user and the
\* transport do.
THEOREM PaymentsInvariance == PaymentsSpec => []PayInv
  BY PayInit, PayStep, PTL DEF PaymentsSpec

\* One deposit lands at most, for any number of terminals, runs and failures of
\* the transport, though the user runs bridge-eth again after each outcome that
\* does not keep it back (bridge.py).
THEOREM OneDepositLands == PaymentsSpec => []DepositedOnce
<1>1. ASSUME PayInv PROVE DepositedOnce
  <2> DEFINE S == {i \in Of("bridge") : txs[i].state = "landed"}
  <2>1. \A i \in S : i \in Nat /\ Alive(i)
    BY <1>1 DEF Of, Pays, Alive, Deposit, PayInv, PaymentsTypeOK
  <2>2. S = {} \/ \E i \in S : S = {i}
    BY <1>1, <2>1 DEF PayInv, DepositsOK
  <2>3. Cardinality(S) \in {0, 1}
    BY <2>2, FS_EmptySet, FS_Singleton
  <2> QED
    BY <2>3 DEF DepositedOnce
<1> QED
  BY <1>1, PaymentsInvariance, PTL
=============================================================================
