-------------------------- MODULE SecretFilesProofs --------------------------
(***************************************************************************)
(* Theorems of Workstation.tla, for every set of terminals, wallet names   *)
(* and networks, and any number of commands and kills, and of              *)
(* TestDataAssignment.tla, for every set of batches, auditors and keys.    *)
(*                                                                         *)
(* The invariant of the workstation, WorkInv, is a conjunction of three    *)
(* parts: the types of the files; per command, that a descriptor is open   *)
(* only while it dumps and that everything it signed was signed with the   *)
(* account and the network it keeps; and per wallet name that was never    *)
(* written twice at a time, that one command at most is writing it and     *)
(* what of it is torn.                                                     *)
(*                                                                         *)
(* The invariant of the test data, TestDataInv, follows the key of a batch *)
(* from its file, which may be torn, through the owner's pool to the       *)
(* chain, the key of an auditor from its file to the registry and to the   *)
(* data that was encrypted to it, and the owner's key to the manifest.     *)
(***************************************************************************)
EXTENDS Workstation, TestDataAssignment, FiniteSetTheorems, SequenceTheorems,
        WellFoundedInduction, TLAPS

Settings == Networks \cup {"", "local", "env", "on", "off", "filebase", "custom", "info",
                          "override"}
Steps == {"idle", "resolve", "network", "sign", "init", "load", "truncate", "save", "mode",
          "lane", "guard", "secret", "open", "dump", "replace", "clean up", "check", "remove"}
ConfigType == [wallet : Names \cup {NoName}, demo : BOOLEAN, network : Settings,
               ipfs : Settings]
WalletType == [lane : {"absent", "torn", "real", "demo"}, key : Nat]
CommandType ==
    [name : AllCommands \cup {"none"}, step : Steps, on : Names \cup {NoName},
     sets : Settings, key : Nat, connect : BOOLEAN, data : ConfigType,
     fd : {"none", "tmp", "final", "gone"}, account : WalletType, network : Settings,
     signed : SUBSET (WalletType \X Settings)]

ConfigOK == config \in [state : {"absent", "empty", "whole"}, says : ConfigType]

FilesTyped ==
    /\ wallet \in [Names -> WalletType]
    /\ tmp \in [Names -> WalletType]
    /\ begun \in Nat

\* What holds of a command by itself.
CommandOK(c) ==
    /\ c \in CommandType
    /\ c.step # "idle" => c.on \in Names
    /\ c.fd # "none" => c.step = "dump"
    /\ c.signed # {} => c.step = "sign" /\ c.signed = {<<c.account, c.network>>}

CommandsOK ==
    /\ cmd \in [Terminals -> CommandType]
    /\ \A t \in Terminals : CommandOK(cmd[t])

Writes(t, n) == cmd[t].on = n /\ cmd[t].step \in {"dump", "replace"}

\* What a command that writes a name finds, when it is the only one that does: a
\* temporary file that is torn until it has dumped its text.
WriterOK(t, n) ==
    /\ \A u \in Terminals : Writes(u, n) => u = t
    /\ cmd[t].step = "replace" => tmp[n] # Torn
    /\ cmd[t].step = "dump" => \/ cmd[t].fd = "tmp" /\ tmp[n] = Torn
                               \/ cmd[t].fd = "gone" /\ tmp[n] # Torn

NameOK(n) ==
    n \notin overlapped =>
        /\ wallet[n] # Torn
        /\ \A t \in Terminals : Writes(t, n) => WriterOK(t, n)

NamesOK == \A n \in Names : NameOK(n)

WorkInv == ConfigOK /\ FilesTyped /\ CommandsOK /\ NamesOK

-----------------------------------------------------------------------------
(* The initial state, and the values the commands write. *)

LEMMA EmptyTyped == Empty \in ConfigType
  BY WorkstationAssumption DEF Empty, ConfigType, Settings

LEMMA TornTyped == Torn \in WalletType /\ NoFile \in WalletType /\ NoFile # Torn
  BY DEF Torn, NoFile, WalletType

LEMMA NoCommandOK ==
    /\ CommandOK(NoCommand) /\ NoCommand.step = "idle" /\ NoCommand.signed = {}
    /\ NoCommand.fd = "none"
<1>1. NoCommand \in CommandType
  BY EmptyTyped, TornTyped DEF NoCommand, CommandType, Settings, Steps
<1> QED
  BY <1>1 DEF CommandOK, NoCommand

LEMMA InitInv == WorkInit => WorkInv
<1> SUFFICES ASSUME WorkInit PROVE WorkInv
  OBVIOUS
<1>1. ConfigOK
  BY EmptyTyped DEF WorkInit, ConfigOK
<1>2. FilesTyped
  BY TornTyped DEF WorkInit, FilesTyped
<1>3. CommandsOK
  BY NoCommandOK DEF WorkInit, CommandsOK, CommandOK
<1>4. NamesOK
  BY TornTyped, NoCommandOK DEF WorkInit, NamesOK, NameOK, Writes
<1> QED
  BY <1>1, <1>2, <1>3, <1>4 DEF WorkInv

-----------------------------------------------------------------------------
(* A command that takes a step. *)

LEMMA LoadedTyped == ConfigOK => load_config \in ConfigType
  BY EmptyTyped DEF ConfigOK, load_config

\* A command changes its own record, and no wallet file, to a step at which it
\* writes none.
LEMMA QuietStep ==
    ASSUME WorkInv, NEW t \in Terminals, NEW d, CommandOK(d),
           d.step \notin {"dump", "replace"},
           cmd' = [cmd EXCEPT ![t] = d], ConfigOK', begun' \in Nat,
           UNCHANGED <<wallet, tmp, overlapped>>
    PROVE  WorkInv'
<1>1. d \in CommandType
  BY DEF CommandOK
<1>2. CommandsOK'
  BY <1>1 DEF WorkInv, CommandsOK
<1>3. FilesTyped'
  BY DEF WorkInv, FilesTyped
<1>4. ASSUME NEW u \in Terminals, NEW n \in Names, Writes(u, n)'
      PROVE  u # t /\ cmd'[u] = cmd[u] /\ Writes(u, n)
  BY <1>4 DEF Writes, WorkInv, CommandsOK
<1>5. ASSUME NEW n \in Names PROVE NameOK(n)'
  <2> SUFFICES ASSUME n \notin overlapped', NEW u \in Terminals, Writes(u, n)'
               PROVE  WriterOK(u, n)'
    BY DEF NameOK, WorkInv, NamesOK
  <2>1. Writes(u, n) /\ cmd'[u] = cmd[u]
    BY <1>4
  <2>2. WriterOK(u, n)
    BY <2>1 DEF WorkInv, NamesOK, NameOK
  <2> QED
    BY <1>4, <2>1, <2>2 DEF WriterOK
<1> QED
  BY <1>2, <1>3, <1>5 DEF WorkInv, NamesOK

\* The same for a command that only goes on, or ends.
LEMMA StepOnly ==
    ASSUME WorkInv, NEW t \in Terminals, NEW s \in Steps, cmd[t].step # "idle",
           cmd[t].step \notin {"sign", "dump"}, s \notin {"dump", "replace"},
           Goes(t, s), ConfigOK', begun' = begun, UNCHANGED <<wallet, tmp, overlapped>>
    PROVE  WorkInv'
<1> DEFINE d == [cmd[t] EXCEPT !.step = s]
<1>1. CommandOK(cmd[t]) /\ cmd[t] \in CommandType
  BY DEF WorkInv, CommandsOK
<1>2. /\ d \in CommandType /\ d.step = s /\ d.on = cmd[t].on /\ d.fd = cmd[t].fd
      /\ d.signed = cmd[t].signed
  BY <1>1 DEF CommandType
<1>3. CommandOK(d)
  BY <1>1, <1>2 DEF CommandOK
<1>4. cmd' = [cmd EXCEPT ![t] = d]
  BY DEF Goes
<1> HIDE DEF d
<1> QED
  BY <1>2, <1>3, <1>4, QuietStep DEF WorkInv, FilesTyped

LEMMA EndsOnly ==
    ASSUME WorkInv, NEW t \in Terminals, Ends(t), ConfigOK', begun' = begun,
           UNCHANGED <<wallet, tmp, overlapped>>
    PROVE  WorkInv'
  BY NoCommandOK, QuietStep DEF Ends, WorkInv, FilesTyped

-----------------------------------------------------------------------------
(* The actions that write no wallet file. *)

LEMMA BeginStep ==
    ASSUME WorkInv, NEW t \in Terminals, NEW c \in Commands, Begin(t, c)
    PROVE  WorkInv'
<1> DEFINE from(n, s, x) == [NoCommand EXCEPT !.name = c, !.step = FirstStep(c), !.on = n,
                                 !.sets = s, !.key = begun + 1, !.connect = x]
<1>1. PICK n \in Names, s \in Networks \cup {"on", "off", "filebase", "custom", "info"} :
        \E x \in IF c = "register" THEN BOOLEAN ELSE {TRUE} :
           /\ c = "configure-network" => s \in Networks
           /\ c = "configure-demo" => s \in {"on", "off"}
           /\ c = "configure-ipfs" => s \in {"filebase", "custom"}
           /\ c \notin {"configure-network", "configure-demo", "configure-ipfs"} =>
                s = "info"
           /\ cmd' = [cmd EXCEPT ![t] = from(n, s, x)]
  BY Zenon DEF Begin
<1>2. PICK x \in BOOLEAN : cmd' = [cmd EXCEPT ![t] = from(n, s, x)]
  <2> HIDE DEF from
  <2> QED
    BY <1>1
<1>3. PICK first : first = FirstStep(c)
  OBVIOUS
<1>4. c \in AllCommands /\ first \in Steps /\ first \notin {"dump", "replace", "sign"}
  BY <1>3, WorkstationAssumption DEF AllCommands, FirstStep, Steps
<1>5. begun + 1 \in Nat /\ begun' = begun + 1
  BY DEF WorkInv, FilesTyped, Begin
<1>6. s \in Settings
  BY <1>1 DEF Settings
<1> DEFINE d == [NoCommand EXCEPT !.name = c, !.step = first, !.on = n, !.sets = s,
                                  !.key = begun + 1, !.connect = x]
<1>7. NoCommand \in CommandType /\ NoCommand.fd = "none" /\ NoCommand.signed = {}
  BY NoCommandOK DEF CommandOK
<1>8. /\ d \in CommandType /\ d.step = first /\ d.on = n /\ d.fd = "none"
      /\ d.signed = {}
  BY <1>4, <1>5, <1>6, <1>7 DEF CommandType
<1>9. cmd' = [cmd EXCEPT ![t] = d]
  BY <1>2, <1>3
<1> HIDE DEF d
<1>10. CommandOK(d)
  BY <1>8 DEF CommandOK
<1>11. ConfigOK' /\ UNCHANGED <<wallet, tmp, overlapped>>
  BY DEF Begin, FilesStay, ConfigOK, WorkInv
<1> QED
  BY <1>4, <1>5, <1>8, <1>9, <1>10, <1>11, QuietStep

\* The command's data is loaded; nothing is signed or open.
LEMMA LoadStep ==
    ASSUME WorkInv, NEW t \in Terminals, LoadConfig(t)
    PROVE  WorkInv'
<1> DEFINE d == [cmd[t] EXCEPT !.data = load_config, !.step = "truncate"]
<1>1. CommandOK(cmd[t]) /\ cmd[t] \in CommandType /\ cmd[t].step = "load"
  BY DEF WorkInv, CommandsOK, LoadConfig, At
<1>2. load_config \in ConfigType
  BY LoadedTyped DEF WorkInv
<1>3. /\ d \in CommandType /\ d.step = "truncate" /\ d.on = cmd[t].on
      /\ d.fd = cmd[t].fd /\ d.signed = cmd[t].signed
  BY <1>1, <1>2 DEF CommandType, Steps
<1>4. CommandOK(d)
  BY <1>1, <1>3 DEF CommandOK
<1>5. cmd' = [cmd EXCEPT ![t] = d]
  BY DEF LoadConfig
<1>6. ConfigOK' /\ begun' \in Nat /\ UNCHANGED <<wallet, tmp, overlapped>>
  BY DEF LoadConfig, FilesStay, CountsStay, WorkInv, ConfigOK, FilesTyped
<1> HIDE DEF d
<1> QED
  BY <1>3, <1>4, <1>5, <1>6, QuietStep

LEMMA TruncateStep ==
    ASSUME WorkInv, NEW t \in Terminals, TruncateConfig(t)
    PROVE  WorkInv'
<1>1. ConfigOK'
  BY DEF TruncateConfig, WorkInv, ConfigOK
<1> QED
  BY <1>1, StepOnly DEF TruncateConfig, At, CountsStay, Steps

\* What a command writes into the configuration is typed, whatever it loaded.
LEMMA ChangedTyped ==
    ASSUME NEW c \in CommandType PROVE Changed(c) \in ConfigType
<1>1. c.data \in ConfigType /\ c.sets \in Settings /\ c.on \in Names \cup {NoName}
  BY DEF CommandType
<1>2. configure_network(c.data, c.sets) \in ConfigType
  BY <1>1 DEF configure_network, ConfigType
<1>3. configure_demo(c.data, c.sets) \in ConfigType
  BY <1>1 DEF configure_demo, ConfigType
<1>4. configure_ipfs(c.data, c.sets) \in ConfigType
  BY <1>1 DEF configure_ipfs, ConfigType
<1>5. connects_to(c.data, c.on) \in ConfigType
  BY <1>1 DEF connects_to, ConfigType
<1> QED
  BY <1>1, <1>2, <1>3, <1>4, <1>5 DEF Changed, configure_logging

LEMMA SaveStep ==
    ASSUME WorkInv, NEW t \in Terminals, save_config(t)
    PROVE  WorkInv'
<1>1. Changed(cmd[t]) \in ConfigType
  BY ChangedTyped DEF WorkInv, CommandsOK
<1>2. ConfigOK'
  BY <1>1 DEF save_config, WorkInv, ConfigOK
<1> QED
  BY <1>2, EndsOnly DEF save_config, CountsStay

LEMMA InitializeStep ==
    ASSUME WorkInv, NEW t \in Terminals, Initialize(t)
    PROVE  WorkInv'
<1>1. ConfigOK'
  BY EmptyTyped DEF Initialize, WorkInv, ConfigOK
<1> QED
  BY <1>1, EndsOnly DEF Initialize, CountsStay

\* The checks before a wallet is written or connected.
LEMMA CheckSteps ==
    ASSUME WorkInv, NEW t \in Terminals,
           \/ CheckDemoMode(t) \/ RefuseRealWallet(t) \/ OverwriteGuard(t)
           \/ ReadSecret(t) \/ ConnectRegisteredWallet(t)
    PROVE  WorkInv'
<1>1. /\ ConfigOK' /\ begun' = begun /\ UNCHANGED <<wallet, tmp, overlapped>>
      /\ cmd[t].step \in {"mode", "lane", "guard", "secret", "check"}
      /\ \/ Ends(t)
         \/ \E s \in {"check", "guard", "mode", "secret", "open", "load"} : Goes(t, s)
  BY DEF CheckDemoMode, RefuseRealWallet, OverwriteGuard, ReadSecret,
         ConnectRegisteredWallet, FilesStay, CountsStay, WorkInv, ConfigOK, At
<1> QED
  BY <1>1, EndsOnly, StepOnly DEF Steps

LEMMA KillStep ==
    ASSUME WorkInv, NEW t \in Terminals, Kill(t)
    PROVE  WorkInv'
  BY EndsOnly DEF Kill, FilesStay, WorkInv, ConfigOK

-----------------------------------------------------------------------------
(* A command that signs. *)

LEMMA ResolveAccountStep ==
    ASSUME WorkInv, NEW t \in Terminals, ResolveAccount(t)
    PROVE  WorkInv'
<1>1. CommandOK(cmd[t]) /\ cmd[t] \in CommandType /\ cmd[t].step = "resolve"
  BY DEF WorkInv, CommandsOK, ResolveAccount, At
<1>2. ConfigOK' /\ begun' = begun /\ begun' \in Nat /\ UNCHANGED <<wallet, tmp, overlapped>>
  BY DEF ResolveAccount, FilesStay, CountsStay, WorkInv, ConfigOK, FilesTyped
<1>3. CASE Ends(t)
  BY <1>2, <1>3, EndsOnly
<1>4. CASE ~Ends(t)
  <2>1. PICK overrides \in BOOLEAN :
          cmd' = [cmd EXCEPT ![t].account = wallet[get_active_account_name(t, overrides)],
                             ![t].step = "network",
                             ![t].sets = IF overrides THEN "override" ELSE ""]
    BY <1>4, Zenon DEF ResolveAccount
  <2> DEFINE n == get_active_account_name(t, overrides)
  <2> DEFINE x == IF overrides THEN "override" ELSE ""
  <2>2. n \in Names
    BY <1>1, LoadedTyped, WorkstationAssumption
    DEF get_active_account_name, CommandOK, ConfigType, WorkInv
  <2>3. wallet[n] \in WalletType
    BY <2>2 DEF WorkInv, FilesTyped
  <2>4. x \in Settings
    BY DEF Settings
  <2> HIDE DEF n, x
  <2> DEFINE d == [cmd[t] EXCEPT !.account = wallet[n], !.step = "network", !.sets = x]
  <2>5. /\ d \in CommandType /\ d.step = "network" /\ d.on = cmd[t].on
        /\ d.fd = cmd[t].fd /\ d.signed = cmd[t].signed
    BY <1>1, <2>3, <2>4 DEF CommandType, Steps
  <2>6. CommandOK(d)
    BY <1>1, <2>5 DEF CommandOK
  <2>7. cmd' = [cmd EXCEPT ![t] = d]
    BY <2>1 DEF n, x
  <2> HIDE DEF d
  <2> QED
    BY <1>2, <2>5, <2>6, <2>7, QuietStep
<1> QED
  BY <1>3, <1>4

LEMMA ResolveNetworkStep ==
    ASSUME WorkInv, NEW t \in Terminals, ResolveNetwork(t)
    PROVE  WorkInv'
<1>1. CommandOK(cmd[t]) /\ cmd[t] \in CommandType /\ cmd[t].step = "network"
  BY DEF WorkInv, CommandsOK, ResolveNetwork, At
<1>2. ConfigOK' /\ begun' = begun /\ begun' \in Nat /\ UNCHANGED <<wallet, tmp, overlapped>>
  BY DEF ResolveNetwork, FilesStay, CountsStay, WorkInv, ConfigOK, FilesTyped
<1>3. CASE Ends(t)
  BY <1>2, <1>3, EndsOnly
<1>4. CASE ~Ends(t)
  <2> DEFINE d == [cmd[t] EXCEPT !.network = load_config.network, !.step = "sign"]
  <2>1. load_config.network \in Settings
    BY LoadedTyped DEF ConfigType, WorkInv
  <2>2. /\ d \in CommandType /\ d.step = "sign" /\ d.on = cmd[t].on
        /\ d.fd = cmd[t].fd /\ d.signed = cmd[t].signed
    BY <1>1, <2>1 DEF CommandType, Steps
  <2>3. CommandOK(d)
    BY <1>1, <2>2 DEF CommandOK
  <2>4. cmd' = [cmd EXCEPT ![t] = d]
    BY <1>4 DEF ResolveNetwork
  <2> HIDE DEF d
  <2> QED
    BY <1>2, <2>2, <2>3, <2>4, QuietStep
<1> QED
  BY <1>3, <1>4

\* A second signature is the same as the first.
LEMMA SignStep ==
    ASSUME WorkInv, NEW t \in Terminals, SignTransaction(t)
    PROVE  WorkInv'
<1>1. CommandOK(cmd[t]) /\ cmd[t] \in CommandType /\ cmd[t].step = "sign"
  BY DEF WorkInv, CommandsOK, SignTransaction, At
<1>2. ConfigOK' /\ begun' = begun /\ begun' \in Nat /\ UNCHANGED <<wallet, tmp, overlapped>>
  BY DEF SignTransaction, FilesStay, CountsStay, WorkInv, ConfigOK, FilesTyped
<1>3. CASE Ends(t)
  BY <1>2, <1>3, EndsOnly
<1>4. CASE ~Ends(t)
  <2> DEFINE one == <<cmd[t].account, cmd[t].network>>
  <2> DEFINE all == cmd[t].signed \cup {one}
  <2>1. one \in WalletType \X Settings /\ cmd[t].signed \subseteq WalletType \X Settings
    BY <1>1 DEF CommandType
  <2>2. all = {one} /\ all \in SUBSET (WalletType \X Settings)
    BY <1>1, <2>1 DEF CommandOK
  <2>3. cmd' = [cmd EXCEPT ![t] = [cmd[t] EXCEPT !.signed = all]]
    BY <1>4 DEF SignTransaction, Account
  <2>4. all = {<<cmd[t].account, cmd[t].network>>}
    BY <2>2
  <2> HIDE DEF one, all
  <2> DEFINE d == [cmd[t] EXCEPT !.signed = all]
  <2>5. /\ d \in CommandType /\ d.step = "sign" /\ d.on = cmd[t].on /\ d.fd = cmd[t].fd
        /\ d.signed = all /\ d.account = cmd[t].account /\ d.network = cmd[t].network
    BY <1>1, <2>2 DEF CommandType
  <2>6. CommandOK(d)
    BY <1>1, <2>4, <2>5 DEF CommandOK
  <2> HIDE DEF d
  <2> QED
    BY <1>2, <2>3, <2>5, <2>6, QuietStep DEF d
<1> QED
  BY <1>3, <1>4

-----------------------------------------------------------------------------
(* The actions that write wallet files. *)

\* A name stays as it is when its files do, and nobody begins to write it.
LEMMA NameStays ==
    ASSUME NEW m \in Names, NameOK(m), overlapped \subseteq overlapped',
           wallet'[m] = wallet[m], tmp'[m] = tmp[m],
           \A u \in Terminals : Writes(u, m)' =>
               Writes(u, m) /\ cmd'[u].step = cmd[u].step /\ cmd'[u].fd = cmd[u].fd
    PROVE  NameOK(m)'
<1> SUFFICES ASSUME m \notin overlapped', NEW u \in Terminals, Writes(u, m)'
             PROVE  WriterOK(u, m)'
  BY DEF NameOK
<1>1. Writes(u, m) /\ cmd'[u].step = cmd[u].step /\ cmd'[u].fd = cmd[u].fd
  OBVIOUS
<1>2. WriterOK(u, m)
  BY <1>1 DEF NameOK
<1>3. \A w \in Terminals : Writes(w, m)' => w = u
  BY <1>2 DEF WriterOK
<1> QED
  BY <1>1, <1>2, <1>3 DEF WriterOK

\* What another command does to the file under an open descriptor.
LEMMA DescriptorMoves ==
    ASSUME NEW c, CommandOK(c), c.fd # "none", NEW f \in {"final", "gone"}
    PROVE  /\ CommandOK([c EXCEPT !.fd = f])
           /\ [c EXCEPT !.fd = f].fd = f
           /\ [c EXCEPT !.fd = f].on = c.on /\ [c EXCEPT !.fd = f].step = c.step
<1> DEFINE d == [c EXCEPT !.fd = f]
<1>1. c \in CommandType /\ c.step = "dump"
  BY DEF CommandOK
<1>2. /\ d \in CommandType /\ d.fd = f /\ d.on = c.on /\ d.step = c.step
      /\ d.signed = c.signed
  BY <1>1 DEF CommandType
<1> HIDE DEF d
<1>3. CommandOK(d)
  BY <1>1, <1>2 DEF CommandOK
<1> QED
  BY <1>2, <1>3 DEF d

LEMMA ContentsTyped ==
    ASSUME NEW t \in Terminals, cmd[t] \in CommandType
    PROVE  Contents(t) \in WalletType /\ Contents(t) # Torn
<1>1. cmd[t].key \in Nat
  BY DEF CommandType
<1>2. PICK lane \in {"real", "demo"} : Contents(t) = [lane |-> lane, key |-> cmd[t].key]
  BY DEF Contents, Wallet
<1> QED
  BY <1>1, <1>2 DEF WalletType, Torn

\* A command that goes on to a step of writing, by itself.
LEMMA WriterGoesOn ==
    ASSUME NEW c, CommandOK(c), c.step \in {"open", "dump", "replace"},
           NEW s \in {"dump", "replace"}, NEW f \in {"none", "tmp"},
           s = "replace" => f = "none"
    PROVE  /\ CommandOK([c EXCEPT !.step = s, !.fd = f])
           /\ [c EXCEPT !.step = s, !.fd = f].fd = f
           /\ [c EXCEPT !.step = s, !.fd = f].step = s
           /\ [c EXCEPT !.step = s, !.fd = f].on = c.on
<1> DEFINE d == [c EXCEPT !.step = s, !.fd = f]
<1>1. c \in CommandType /\ c.signed = {} /\ c.on \in Names
  BY DEF CommandOK
<1>2. /\ d \in CommandType /\ d.fd = f /\ d.on = c.on /\ d.step = s
      /\ d.signed = c.signed
  BY <1>1 DEF CommandType, Steps
<1> HIDE DEF d
<1>3. CommandOK(d)
  BY <1>1, <1>2 DEF CommandOK
<1> QED
  BY <1>2, <1>3 DEF d

\* The first to open a temporary file is the only writer; a second marks the name.
LEMMA OpenStep ==
    ASSUME WorkInv, NEW t \in Terminals, OpenTmp(t)
    PROVE  WorkInv'
<1>0. PICK n : n = cmd[t].on
  OBVIOUS
<1> DEFINE d == [cmd[t] EXCEPT !.step = "dump", !.fd = "tmp"]
<1>1. CommandOK(cmd[t]) /\ cmd[t].step = "open" /\ cmd \in [Terminals -> CommandType]
  BY DEF WorkInv, CommandsOK, OpenTmp, At
<1>2. n \in Names
  BY <1>0, <1>1 DEF CommandOK
<1>3. CommandOK(d) /\ d.fd = "tmp" /\ d.step = "dump" /\ d.on = n
  BY <1>0, <1>1, WriterGoesOn
<1>4. cmd' = [cmd EXCEPT ![t] = d]
  BY DEF OpenTmp
<1> HIDE DEF d
<1>5. cmd'[t] = d /\ \A u \in Terminals : u # t => cmd'[u] = cmd[u]
  BY <1>1, <1>4
<1>6. CommandsOK'
  BY <1>1, <1>3, <1>4 DEF WorkInv, CommandsOK, CommandOK
<1>7. tmp' = [tmp EXCEPT ![n] = Torn] /\ UNCHANGED <<config, wallet, begun>>
  BY <1>0 DEF OpenTmp, CountsStay
<1>8. ConfigOK' /\ FilesTyped'
  BY <1>7, TornTyped DEF WorkInv, ConfigOK, FilesTyped
<1>9. overlapped \subseteq overlapped' /\ \A m : m # n => (m \in overlapped' <=> m \in overlapped)
  BY <1>0 DEF OpenTmp
<1>10. ASSUME NEW m \in Names, m # n PROVE NameOK(m)'
  <2>1. tmp'[m] = tmp[m] /\ wallet'[m] = wallet[m]
    BY <1>7, <1>10 DEF WorkInv, FilesTyped
  <2>2. \A u \in Terminals : Writes(u, m)' => u # t
    BY <1>3, <1>5, <1>10 DEF Writes
  <2>3. NameOK(m)
    BY DEF WorkInv, NamesOK
  <2> QED
    BY <1>5, <1>9, <2>1, <2>2, <2>3, NameStays DEF Writes
<1>11. ASSUME n \notin overlapped' PROVE wallet'[n] # Torn /\ WriterOK(t, n)'
                                       /\ \A u \in Terminals : Writes(u, n)' => u = t
  <2>1. n \notin overlapped /\ Writing(n) = {}
    BY <1>0, <1>11 DEF OpenTmp
  <2>2. \A u \in Terminals : Writes(u, n)' => u = t
    BY <1>5, <2>1 DEF Writes, Writing
  <2>3. tmp'[n] = Torn /\ wallet'[n] # Torn
    BY <1>2, <1>7, <2>1 DEF WorkInv, FilesTyped, NamesOK, NameOK
  <2> QED
    BY <1>3, <1>5, <2>2, <2>3 DEF WriterOK
<1>12. NameOK(n)'
  BY <1>11 DEF NameOK
<1> QED
  BY <1>6, <1>8, <1>10, <1>12 DEF WorkInv, NamesOK

\* The only writer dumps into the file it opened, or into one that is gone.
LEMMA DumpStep ==
    ASSUME WorkInv, NEW t \in Terminals, DumpWallet(t)
    PROVE  WorkInv'
<1>0. PICK n : n = cmd[t].on
  OBVIOUS
<1> DEFINE d == [cmd[t] EXCEPT !.step = "replace", !.fd = "none"]
<1>1. /\ CommandOK(cmd[t]) /\ cmd[t].step = "dump"
      /\ cmd \in [Terminals -> CommandType] /\ cmd[t] \in CommandType
  BY DEF WorkInv, CommandsOK, DumpWallet, At
<1>2. n \in Names
  BY <1>0, <1>1 DEF CommandOK
<1>3. CommandOK(d) /\ d.fd = "none" /\ d.step = "replace" /\ d.on = n
  BY <1>0, <1>1, WriterGoesOn
<1>4. cmd' = [cmd EXCEPT ![t] = d]
  BY DEF DumpWallet
<1> HIDE DEF d
<1>5. cmd'[t] = d /\ \A u \in Terminals : u # t => cmd'[u] = cmd[u]
  BY <1>1, <1>4
<1>6. CommandsOK'
  BY <1>1, <1>3, <1>4 DEF WorkInv, CommandsOK, CommandOK
<1>7. PICK w \in {Contents(t), Torn} :
        /\ tmp' = IF cmd[t].fd = "tmp" THEN [tmp EXCEPT ![n] = w] ELSE tmp
        /\ wallet' = IF cmd[t].fd = "final" THEN [wallet EXCEPT ![n] = w] ELSE wallet
        /\ cmd[t].fd = "tmp" /\ tmp[n] = Torn => w = Contents(t)
  BY <1>0 DEF DumpWallet
<1>8. Contents(t) \in WalletType /\ Contents(t) # Torn /\ w \in WalletType
  BY <1>1, <1>7, ContentsTyped, TornTyped
<1>9. UNCHANGED <<config, begun, overlapped>>
  BY DEF DumpWallet, CountsStay
<1>10. ConfigOK' /\ FilesTyped'
  BY <1>7, <1>8, <1>9 DEF WorkInv, ConfigOK, FilesTyped
<1>11. ASSUME NEW m \in Names, m # n PROVE NameOK(m)'
  <2>1. tmp'[m] = tmp[m] /\ wallet'[m] = wallet[m]
    BY <1>7, <1>11 DEF WorkInv, FilesTyped
  <2>2. \A u \in Terminals : Writes(u, m)' => u # t
    BY <1>3, <1>5, <1>11 DEF Writes
  <2>3. NameOK(m)
    BY DEF WorkInv, NamesOK
  <2> QED
    BY <1>5, <1>9, <2>1, <2>2, <2>3, NameStays DEF Writes
<1>12. ASSUME n \notin overlapped'
       PROVE  /\ wallet'[n] # Torn /\ WriterOK(t, n)'
              /\ \A u \in Terminals : Writes(u, n)' => u = t
  <2>1. Writes(t, n)
    BY <1>0, <1>1 DEF Writes
  <2>2. n \notin overlapped /\ wallet[n] # Torn /\ WriterOK(t, n)
    BY <1>2, <1>9, <1>12, <2>1 DEF WorkInv, NamesOK, NameOK
  <2>3. \/ cmd[t].fd = "tmp" /\ tmp[n] = Torn
        \/ cmd[t].fd = "gone" /\ tmp[n] # Torn
    BY <1>1, <2>2 DEF WriterOK
  <2>4. tmp'[n] # Torn /\ wallet'[n] # Torn
    BY <1>2, <1>7, <1>8, <2>2, <2>3 DEF WorkInv, FilesTyped
  <2>5. \A u \in Terminals : Writes(u, n)' => u = t
    BY <1>5, <2>2 DEF Writes, WriterOK
  <2> QED
    BY <1>3, <1>5, <2>4, <2>5 DEF WriterOK
<1>13. NameOK(n)'
  BY <1>12 DEF NameOK
<1> QED
  BY <1>6, <1>10, <1>11, <1>13 DEF WorkInv, NamesOK

\* The only writer moves a whole text into place; nobody else has it open.
LEMMA ReplaceStep ==
    ASSUME WorkInv, NEW t \in Terminals, ReplaceWallet(t)
    PROVE  WorkInv'
<1>0. PICK n : n = cmd[t].on
  OBVIOUS
<1>1. PICK there \in BOOLEAN : there <=> tmp[n] # NoFile
  OBVIOUS
<1>2. /\ CommandOK(cmd[t]) /\ cmd[t].step = "replace"
      /\ cmd \in [Terminals -> CommandType] /\ cmd[t] \in CommandType
  BY DEF WorkInv, CommandsOK, ReplaceWallet, At
<1>3. n \in Names
  BY <1>0, <1>2 DEF CommandOK
<1>4. /\ wallet' = IF there THEN [wallet EXCEPT ![n] = tmp[n]] ELSE wallet
      /\ tmp' = [tmp EXCEPT ![n] = NoFile]
      /\ UNCHANGED <<config, overlapped, begun>>
  BY <1>0, <1>1 DEF ReplaceWallet, CountsStay
<1>5. ConfigOK' /\ FilesTyped'
  BY <1>3, <1>4, TornTyped DEF WorkInv, ConfigOK, FilesTyped
<1> DEFINE d == [cmd[t] EXCEPT !.step = "clean up", !.connect = @ /\ there]
<1>6. /\ CommandOK(d) /\ d \in CommandType /\ d.step = "clean up"
  <2>1. cmd[t].connect \in BOOLEAN /\ cmd[t].fd = "none" /\ cmd[t].signed = {}
    BY <1>2 DEF CommandType, CommandOK
  <2>2. (cmd[t].connect /\ there) \in BOOLEAN
    BY <1>1, <2>1
  <2>3. d \in CommandType
    BY <1>2, <2>2 DEF CommandType, Steps
  <2>4. d.step = "clean up" /\ d.on = cmd[t].on /\ d.fd = "none" /\ d.signed = {}
    BY <1>2, <2>1 DEF CommandType
  <2> QED
    BY <1>0, <1>3, <2>3, <2>4 DEF CommandOK
<1>7. cmd'[t] = d /\ DOMAIN cmd' = Terminals
  BY <1>0, <1>1 DEF ReplaceWallet
<1> HIDE DEF d
<1>8. ASSUME NEW u \in Terminals, u # t
      PROVE  /\ \/ cmd'[u] = cmd[u]
                \/ /\ cmd[u].on = n /\ cmd[u].fd # "none"
                   /\ \E f \in {"final", "gone"} : cmd'[u] = [cmd[u] EXCEPT !.fd = f]
             /\ CommandOK(cmd'[u]) /\ cmd'[u].on = cmd[u].on /\ cmd'[u].step = cmd[u].step
  <2>1. \/ cmd'[u] = cmd[u]
        \/ /\ cmd[u].on = n /\ cmd[u].fd # "none"
           /\ \E f \in {"final", "gone"} : cmd'[u] = [cmd[u] EXCEPT !.fd = f]
    BY <1>0, <1>1, <1>8 DEF ReplaceWallet, Holding
  <2>2. CommandOK(cmd[u])
    BY DEF WorkInv, CommandsOK
  <2>3. CASE cmd'[u] = cmd[u]
    BY <2>1, <2>2, <2>3
  <2>4. CASE cmd'[u] # cmd[u]
    <3>1. cmd[u].fd # "none"
      BY <2>1, <2>4
    <3>2. PICK f \in {"final", "gone"} : cmd'[u] = [cmd[u] EXCEPT !.fd = f]
      BY <2>1, <2>4
    <3>3. CommandOK(cmd'[u]) /\ cmd'[u].on = cmd[u].on /\ cmd'[u].step = cmd[u].step
      <4>1. CASE f = "final"
        BY <2>2, <3>1, <3>2, <4>1, DescriptorMoves, ZenonT(30)
      <4>2. CASE f = "gone"
        BY <2>2, <3>1, <3>2, <4>2, DescriptorMoves, ZenonT(30)
      <4> QED
        BY <4>1, <4>2
    <3> QED
      BY <2>1, <3>3
  <2> QED
    BY <2>3, <2>4
<1>9. CommandsOK'
  <2>1. \A u \in Terminals : CommandOK(cmd'[u]) /\ cmd'[u] \in CommandType
    BY <1>6, <1>7, <1>8 DEF CommandOK
  <2>2. cmd' = [u \in Terminals |-> cmd'[u]]
    BY DEF ReplaceWallet
  <2> QED
    BY <2>1, <2>2 DEF CommandsOK
<1>10. ASSUME NEW m \in Names, m # n PROVE NameOK(m)'
  <2>1. tmp'[m] = tmp[m] /\ wallet'[m] = wallet[m]
    BY <1>4, <1>10 DEF WorkInv, FilesTyped
  <2>2. ASSUME NEW u \in Terminals, Writes(u, m)' PROVE u # t /\ cmd'[u] = cmd[u]
    <3>1. u # t
      BY <1>6, <1>7, <2>2 DEF Writes
    <3>2. cmd[u].on = m
      BY <1>8, <2>2, <3>1 DEF Writes
    <3> QED
      BY <1>8, <1>10, <3>1, <3>2
  <2>3. NameOK(m)
    BY DEF WorkInv, NamesOK
  <2> QED
    BY <1>4, <2>1, <2>2, <2>3, NameStays DEF Writes
<1>11. ASSUME n \notin overlapped'
       PROVE  wallet'[n] # Torn /\ \A u \in Terminals : ~Writes(u, n)'
  <2>1. Writes(t, n)
    BY <1>0, <1>2 DEF Writes
  <2>2. wallet[n] # Torn /\ WriterOK(t, n)
    BY <1>3, <1>4, <1>11, <2>1 DEF WorkInv, NamesOK, NameOK
  <2>3. wallet'[n] # Torn
    BY <1>2, <1>3, <1>4, <2>2 DEF WriterOK, WorkInv, FilesTyped
  <2>4. ASSUME NEW u \in Terminals, Writes(u, n)' PROVE FALSE
    <3>1. u # t
      BY <1>6, <1>7, <2>4 DEF Writes
    <3>2. Writes(u, n)
      BY <1>8, <2>4, <3>1 DEF Writes
    <3> QED
      BY <2>2, <3>1, <3>2 DEF WriterOK
  <2> QED
    BY <2>3, <2>4
<1>12. NameOK(n)'
  BY <1>11 DEF NameOK
<1> QED
  BY <1>5, <1>9, <1>10, <1>12 DEF WorkInv, NamesOK

\* Whose file is removed under its hands goes on writing a file that is gone.
LEMMA RemoveStep ==
    ASSUME WorkInv, NEW t \in Terminals, RemoveTmp(t)
    PROVE  WorkInv'
<1>0. PICK n : n = cmd[t].on
  OBVIOUS
<1>1. /\ CommandOK(cmd[t]) /\ cmd[t].step = "clean up"
      /\ cmd \in [Terminals -> CommandType] /\ cmd[t] \in CommandType
  BY DEF WorkInv, CommandsOK, RemoveTmp, At
<1>2. n \in Names
  BY <1>0, <1>1 DEF CommandOK
<1>3. tmp' = [tmp EXCEPT ![n] = NoFile] /\ UNCHANGED <<config, wallet, overlapped, begun>>
  BY <1>0 DEF RemoveTmp, CountsStay
<1>4. ConfigOK' /\ FilesTyped'
  BY <1>2, <1>3, TornTyped DEF WorkInv, ConfigOK, FilesTyped
<1>5. CommandOK(AfterWrite(t)) /\ AfterWrite(t).step \in {"idle", "check"}
  <2> DEFINE d == [cmd[t] EXCEPT !.step = "check"]
  <2>1. cmd[t].fd = "none" /\ cmd[t].signed = {}
    BY <1>1 DEF CommandOK
  <2>2. /\ d \in CommandType /\ d.step = "check" /\ d.on = cmd[t].on /\ d.fd = "none"
        /\ d.signed = {}
    BY <1>1, <2>1 DEF CommandType, Steps
  <2>3. AfterWrite(t) \in {d, NoCommand}
    BY DEF AfterWrite
  <2> HIDE DEF d
  <2>4. CommandOK(d)
    BY <1>0, <1>2, <2>2 DEF CommandOK
  <2> QED
    BY <2>2, <2>3, <2>4, NoCommandOK
<1>6. cmd'[t] = AfterWrite(t) /\ DOMAIN cmd' = Terminals
  BY DEF RemoveTmp
<1>7. ASSUME NEW u \in Terminals, u # t
      PROVE  /\ CommandOK(cmd'[u]) /\ cmd'[u].on = cmd[u].on /\ cmd'[u].step = cmd[u].step
             /\ cmd'[u].fd = IF cmd[u].on = n /\ cmd[u].fd = "tmp" THEN "gone" ELSE cmd[u].fd
             /\ cmd[u].on # n => cmd'[u] = cmd[u]
  <2>1. CommandOK(cmd[u])
    BY DEF WorkInv, CommandsOK
  <2>2. CASE cmd[u].on = n /\ cmd[u].fd = "tmp"
    <3>1. cmd'[u] = [cmd[u] EXCEPT !.fd = "gone"]
      BY <1>0, <1>7, <2>2 DEF RemoveTmp, Holding
    <3> QED
      BY <2>1, <2>2, <3>1, DescriptorMoves
  <2>3. CASE ~(cmd[u].on = n /\ cmd[u].fd = "tmp")
    <3>1. cmd'[u] = cmd[u]
      BY <1>0, <1>7, <2>3 DEF RemoveTmp, Holding
    <3> QED
      BY <2>1, <2>3, <3>1
  <2> QED
    BY <2>2, <2>3
<1>8. CommandsOK'
  <2>1. \A u \in Terminals : CommandOK(cmd'[u]) /\ cmd'[u] \in CommandType
    BY <1>5, <1>6, <1>7 DEF CommandOK
  <2>2. cmd' = [u \in Terminals |-> cmd'[u]]
    BY DEF RemoveTmp
  <2> QED
    BY <2>1, <2>2 DEF CommandsOK
<1>9. ASSUME NEW u \in Terminals, NEW m, Writes(u, m)' PROVE u # t /\ Writes(u, m)
  BY <1>5, <1>6, <1>7, <1>9 DEF Writes
<1>10. ASSUME NEW m \in Names, m # n PROVE NameOK(m)'
  <2>1. tmp'[m] = tmp[m] /\ wallet'[m] = wallet[m]
    BY <1>3, <1>10 DEF WorkInv, FilesTyped
  <2>2. \A u \in Terminals : Writes(u, m)' =>
            Writes(u, m) /\ cmd'[u].step = cmd[u].step /\ cmd'[u].fd = cmd[u].fd
    BY <1>7, <1>9, <1>10 DEF Writes
  <2>3. NameOK(m)
    BY DEF WorkInv, NamesOK
  <2> QED
    BY <1>3, <2>1, <2>2, <2>3, NameStays
<1>11. ASSUME n \notin overlapped', NEW u \in Terminals, Writes(u, n)'
       PROVE  WriterOK(u, n)'
  <2>1. u # t /\ Writes(u, n) /\ cmd[u].on = n
    BY <1>9, <1>11 DEF Writes
  <2>2. WriterOK(u, n)
    BY <1>2, <1>3, <1>11, <2>1 DEF WorkInv, NamesOK, NameOK
  <2>3. tmp'[n] # Torn
    BY <1>2, <1>3, TornTyped DEF WorkInv, FilesTyped
  <2>4. cmd[u].step = "dump" => cmd'[u].fd = "gone"
    BY <1>7, <2>1, <2>2 DEF WriterOK
  <2>5. \A w \in Terminals : Writes(w, n)' => w = u
    BY <1>9, <2>2 DEF WriterOK
  <2> QED
    BY <1>7, <2>1, <2>3, <2>4, <2>5 DEF WriterOK
<1>12. NameOK(n)'
  <2>1. n \notin overlapped' => wallet'[n] # Torn
    BY <1>2, <1>3, TornTyped DEF WorkInv, NamesOK, NameOK
  <2> QED
    BY <1>11, <2>1 DEF NameOK
<1> QED
  BY <1>4, <1>8, <1>10, <1>12 DEF WorkInv, NamesOK

\* After a reset nothing is torn, and what is still open is gone.
LEMMA ResetStep ==
    ASSUME WorkInv, NEW t \in Terminals, ResetAll(t)
    PROVE  WorkInv'
<1>1. UNCHANGED <<overlapped, begun>>
  BY DEF ResetAll, CountsStay
<1>2. CASE Ends(t) /\ UNCHANGED <<config, wallet, tmp>>
  <2>1. ConfigOK'
    BY <1>2 DEF WorkInv, ConfigOK
  <2> QED
    BY <1>1, <1>2, <2>1, EndsOnly
<1>3. CASE /\ config' = [state |-> "absent", says |-> Empty]
           /\ wallet' = [n \in Names |-> NoFile]
           /\ tmp' = [n \in Names |-> NoFile]
           /\ cmd' = [u \in Terminals |->
                 IF u = t THEN NoCommand
                 ELSE IF cmd[u].fd # "none" THEN [cmd[u] EXCEPT !.fd = "gone"] ELSE cmd[u]]
  <2>1. ConfigOK' /\ FilesTyped'
    BY <1>1, <1>3, EmptyTyped, TornTyped DEF ConfigOK, FilesTyped, WorkInv
  <2>2. cmd'[t] = NoCommand /\ CommandOK(cmd'[t]) /\ cmd'[t].step = "idle"
    BY <1>3, NoCommandOK
  <2>3. ASSUME NEW u \in Terminals, u # t
        PROVE  /\ CommandOK(cmd'[u]) /\ cmd'[u].on = cmd[u].on
               /\ cmd'[u].step = cmd[u].step
               /\ cmd'[u].fd = IF cmd[u].fd # "none" THEN "gone" ELSE "none"
    <3>1. CommandOK(cmd[u])
      BY DEF WorkInv, CommandsOK
    <3>2. CASE cmd[u].fd # "none"
      <4>1. cmd'[u] = [cmd[u] EXCEPT !.fd = "gone"]
        BY <1>3, <2>3, <3>2
      <4> QED
        BY <3>1, <3>2, <4>1, DescriptorMoves
    <3>3. CASE cmd[u].fd = "none"
      <4>1. cmd'[u] = cmd[u]
        BY <1>3, <2>3, <3>3
      <4> QED
        BY <3>1, <3>3, <4>1
    <3> QED
      BY <3>2, <3>3
  <2>4. CommandsOK'
    <3>1. \A u \in Terminals : CommandOK(cmd'[u]) /\ cmd'[u] \in CommandType
      BY <2>2, <2>3 DEF CommandOK
    <3>2. cmd' = [u \in Terminals |-> cmd'[u]]
      BY <1>3
    <3> QED
      BY <3>1, <3>2 DEF CommandsOK
  <2>5. ASSUME NEW u \in Terminals, NEW m, Writes(u, m)' PROVE u # t /\ Writes(u, m)
    BY <2>2, <2>3, <2>5 DEF Writes
  <2>6. ASSUME NEW m \in Names PROVE wallet'[m] # Torn /\ tmp'[m] # Torn
    BY <1>3, TornTyped
  <2>7. ASSUME NEW m \in Names, m \notin overlapped', NEW u \in Terminals, Writes(u, m)'
        PROVE  WriterOK(u, m)'
    <3>1. u # t /\ Writes(u, m)
      BY <2>5, <2>7
    <3>2. WriterOK(u, m)
      BY <1>1, <2>7, <3>1 DEF WorkInv, NamesOK, NameOK
    <3>3. cmd[u].step = "dump" => cmd'[u].fd = "gone"
      BY <2>3, <3>1, <3>2 DEF WriterOK
    <3>4. \A w \in Terminals : Writes(w, m)' => w = u
      BY <2>5, <3>2 DEF WriterOK
    <3> QED
      BY <2>3, <2>6, <3>1, <3>3, <3>4 DEF WriterOK
  <2> QED
    BY <2>1, <2>4, <2>6, <2>7 DEF WorkInv, NamesOK, NameOK
<1> QED
  BY <1>2, <1>3 DEF ResetAll

-----------------------------------------------------------------------------
(* The theorems. *)

LEMMA StutterInv == WorkInv /\ UNCHANGED workVars => WorkInv'
<1> SUFFICES ASSUME WorkInv, UNCHANGED workVars PROVE WorkInv'
  OBVIOUS
<1>1. ConfigOK' /\ FilesTyped' /\ CommandsOK'
  BY DEF workVars, WorkInv, ConfigOK, FilesTyped, CommandsOK
<1>2. NamesOK'
  BY NameStays DEF workVars, WorkInv, NamesOK, Writes
<1> QED
  BY <1>1, <1>2 DEF WorkInv

LEMMA NextInv == WorkInv /\ [WorkNext]_workVars => WorkInv'
<1> SUFFICES ASSUME WorkInv, WorkNext PROVE WorkInv'
  BY StutterInv
<1>1. PICK t \in Terminals : WorkStep(t) \/ \E c \in Commands : Begin(t, c)
  BY DEF WorkNext
<1>2. CASE \E c \in Commands : Begin(t, c)
  BY <1>2, BeginStep
<1>3. CASE \/ LoadConfig(t) \/ TruncateConfig(t) \/ save_config(t) \/ Initialize(t)
           \/ Kill(t)
  BY <1>3, LoadStep, TruncateStep, SaveStep, InitializeStep, KillStep
<1>4. CASE \/ CheckDemoMode(t) \/ RefuseRealWallet(t) \/ OverwriteGuard(t)
           \/ ReadSecret(t) \/ ConnectRegisteredWallet(t)
  BY <1>4, CheckSteps
<1>5. CASE \/ OpenTmp(t) \/ DumpWallet(t) \/ ReplaceWallet(t) \/ RemoveTmp(t)
           \/ ResetAll(t)
  BY <1>5, OpenStep, DumpStep, ReplaceStep, RemoveStep, ResetStep
<1>6. CASE ResolveAccount(t) \/ ResolveNetwork(t) \/ SignTransaction(t)
  BY <1>6, ResolveAccountStep, ResolveNetworkStep, SignStep
<1> QED
  BY <1>1, <1>2, <1>3, <1>4, <1>5, <1>6 DEF WorkStep

\* Whatever terminals share the configuration directory, its files and the
\* records of the commands stay what the commands write into them.
THEOREM WorkstationConsistent == WorkSpec => []WorkInv
  BY InitInv, NextInv, PTL DEF WorkSpec

\* One invocation signs with one wallet on one network, whatever other terminals
\* connect, configure, overwrite or remove meanwhile (ctx.obj.account, .network).
THEOREM SignsWithOneWallet == WorkSpec => []OneInvocationOneWallet
<1>1. ASSUME WorkInv, NEW t \in Terminals PROVE Cardinality(cmd[t].signed) <= 1
  <2>1. CASE cmd[t].signed = {}
    BY <2>1, FS_EmptySet
  <2>2. CASE cmd[t].signed # {}
    <3>1. PICK one : cmd[t].signed = {one}
      BY <1>1, <2>2 DEF WorkInv, CommandsOK, CommandOK
    <3> QED
      BY <3>1, FS_Singleton
  <2> QED
    BY <2>1, <2>2
<1>2. WorkInv => OneInvocationOneWallet
  BY <1>1 DEF OneInvocationOneWallet
<1> QED
  BY <1>2, WorkstationConsistent, PTL

\* No kill leaves a half-written wallet file: only commands that write one name
\* at the same time do (atomic_write_wallet).
THEOREM KillsTearNoWallet == WorkSpec => []TornOnlyByOverlap
<1>1. WorkInv => TornOnlyByOverlap
  BY DEF WorkInv, NamesOK, NameOK, TornOnlyByOverlap
<1> QED
  BY <1>1, WorkstationConsistent, PTL

-----------------------------------------------------------------------------
(***************************************************************************)
(* TestDataAssignment.tla, for any batches, auditors and keys, any number  *)
(* of transactions in the pool and any missed receipts and kills.          *)
(*                                                                         *)
(* The inductive invariant follows a payload from the command that builds  *)
(* it, through the pool, to the chain: every auditor of the batch can open *)
(* it unless a key was lost, while it has not reached the chain no receipt *)
(* vouches for its batch, and once it was saved the file has its K until   *)
(* another payload is built.  A command that waits has its transaction at  *)
(* the end of the pool, so what is mined as the last one is what it waits  *)
(* for; one that has yet to save its payload has sent nothing with its K.  *)
(***************************************************************************)
PubsType == {<<>>} \cup UNION {[Members[b] -> Int] : b \in Batches}
LoadType == [k : Int, data : Int, pubs : PubsType, by : Int]
TestTxType ==
    [fn : {"assign", "reassign", "resolve", "flag"}, batch : Batches \cup {0}, load : LoadType]
OwnerChecks ==
    [name : {"none", "create", "reassign"}, step : {"idle", "encrypt"},
     todo : SUBSET Batches, failed : SUBSET Batches]
OwnerSends ==
    [name : {"create", "reassign", "flag", "resolve"}, step : {"save", "send", "wait"},
     todo : SUBSET Batches, failed : SUBSET Batches, tx : TestTxType]

TestDataTyped ==
    /\ assigned \in [Batches -> LoadType]
    /\ secret \in [Batches -> [k : Int, data : Int]]
    /\ told \in [Batches -> BOOLEAN]
    /\ encryptionKey \in [Auditors -> Int]
    /\ keyFile \in [Auditors -> Int]
    /\ keyLost \in [Auditors -> BOOLEAN]
    /\ testSet \in Int
    /\ newest \in [Batches -> Int]

\* The keys the owner has had.  The manifests carry none but those.
OwnersKeys == (ownerKey.lost \cup {ownerKey.file}) \ {None}
PublishedOK ==
    /\ ownerKey \in [file : Int, lost : SUBSET Int]
    /\ manifest \in [chain : Int, local : Int, current : BOOLEAN]
    /\ manifest.chain \in OwnersKeys \cup {None}
    /\ manifest.local \in OwnersKeys \cup {None, Truncated}

\* The key file is the one registered, or was lost since.
KeysOK == \A a \in Auditors :
    encryptionKey[a] # None => keyLost[a] \/ keyFile[a] = encryptionKey[a]

Assigns(tx) == tx.fn \in {"assign", "reassign"}
Decryptable(b, load) ==
    /\ load.by \in OwnersKeys
    /\ \A a \in Members[b] :
          load.pubs[a] # None /\ (keyLost[a] \/ load.pubs[a] = keyFile[a])

\* The newest payload is the one that was saved.
SavedAs(b, load) == secret[b].k = load.k /\ secret[b].data = load.data
Kept(b, load) == load.k = newest[b] => SavedAs(b, load)

OneBatchOK(b) ==
    /\ assigned[b] # NoData => Decryptable(b, assigned[b]) /\ Kept(b, assigned[b])
    /\ told[b] => Answers(b)
BatchesOK == \A b \in Batches : OneBatchOK(b)

\* A payload that is not on the chain yet.
TestTxOK(tx) == Assigns(tx) =>
    /\ tx.batch \in Batches
    /\ Decryptable(tx.batch, tx.load) /\ Kept(tx.batch, tx.load)
    /\ ~told[tx.batch]

TestPoolOK ==
    /\ pool \in Seq(TestTxType)
    /\ \A i \in 1..Len(pool) : TestTxOK(pool[i])

\* The owner's command: the auditors of what it has to do have keys, and what
\* it sends is what it saved.
HaveKeys(S) == \A b \in S : \A a \in Members[b] : encryptionKey[a] # None
SavedWhatItSends ==
    /\ owner.todo # {} <=> Assigns(owner.tx)
    /\ owner.todo # {} => owner.tx.batch = BatchOf /\ SavedAs(BatchOf, owner.tx.load)

\* What it has yet to save has a K of its own.
Unsent(b, k) ==
    /\ assigned[b].k # k
    /\ \A i \in 1..Len(pool) : Assigns(pool[i]) /\ pool[i].batch = b => pool[i].load.k # k
YetToSave ==
    /\ owner.todo # {} /\ Assigns(owner.tx) /\ owner.tx.batch = BatchOf
    /\ Decryptable(BatchOf, owner.tx.load) /\ ~told[BatchOf]
    /\ newest[BatchOf] = owner.tx.load.k /\ Unsent(BatchOf, newest[BatchOf])

OwnerOK ==
    /\ owner \in OwnerChecks \cup OwnerSends
    /\ HaveKeys(owner.todo)
    /\ owner.name \in {"create", "reassign"} => ownerKey.file # None
    /\ owner.step = "save" => YetToSave
    /\ owner.step \in {"send", "wait"} =>
          owner \in OwnerSends /\ TestTxOK(owner.tx) /\ SavedWhatItSends
    /\ owner.step = "wait" => pool # <<>> /\ pool[Len(pool)] = owner.tx

TestDataInv ==
    TestDataTyped /\ PublishedOK /\ KeysOK /\ BatchesOK /\ TestPoolOK /\ OwnerOK

\* The least batch of a set of them.
LEMMA LeastBatch ==
    ASSUME NEW S \in SUBSET Batches, S # {} PROVE Min(S) \in S
<1>1. IsWellFoundedOn(OpToRel(<, Nat), Nat) /\ S \subseteq Nat
  BY NatLessThanWellFounded, TestDataAssumption DEF TestDataAssumption
<1>2. PICK x \in S : \A y \in S : ~(<<y, x>> \in OpToRel(<, Nat))
  BY <1>1, WFMin
<1>3. \A y \in S : x <= y
  <2> TAKE y \in S
  <2>1. x \in Nat /\ y \in Nat /\ ~(y < x)
    BY <1>1, <1>2 DEF OpToRel
  <2> QED
    BY <2>1
<1> QED
  BY <1>3 DEF Min

LEMMA BatchOfOK ==
    ASSUME OwnerOK, owner.todo # {} PROVE BatchOf \in owner.todo /\ BatchOf \in Batches
<1>1. owner.todo \in SUBSET Batches
  BY DEF OwnerOK, OwnerChecks, OwnerSends
<1> QED
  BY <1>1, LeastBatch DEF BatchOf

LEMMA MembersAudit ==
    ASSUME NEW b \in Batches, NEW a \in Members[b] PROVE a \in Auditors
  BY TestDataAssumption DEF TestDataAssumption

LEMMA KeysAreNumbers ==
    /\ \A k \in Keys : k \in Nat /\ k # None
    /\ \A k \in KeyPairs : k \in Nat /\ k # None
    /\ \A d \in Datasets : d \in Int
    /\ None \in Int /\ Truncated \in Int /\ Truncated # None
  BY TestDataAssumption DEF TestDataAssumption, None, Truncated

-----------------------------------------------------------------------------
(* What a step may do without touching a payload. *)

KeysKept ==
    /\ \A k \in OwnersKeys : k \in OwnersKeys'
    /\ \A a \in Auditors :
          /\ keyLost[a] => keyLost'[a]
          /\ keyFile[a] # None => keyLost'[a] \/ keyFile'[a] = keyFile[a]
NoneToldAnew == \A b \in Batches : told'[b] => told[b]
KeptAfter(b, load) ==
    load.k = newest'[b] => secret'[b].k = load.k /\ secret'[b].data = load.data
NoneSaved == secret' = secret /\ newest' = newest

LEMMA DecryptableKept ==
    ASSUME NEW b \in Batches, NEW load, Decryptable(b, load), KeysKept
    PROVE  Decryptable(b, load)'
  BY MembersAudit DEF Decryptable, KeysKept

LEMMA TxKept ==
    ASSUME NEW tx, TestTxOK(tx), KeysKept, NoneToldAnew,
           NoneSaved \/ (Assigns(tx) => KeptAfter(tx.batch, tx.load))
    PROVE  TestTxOK(tx)'
<1> SUFFICES ASSUME Assigns(tx)
             PROVE  /\ tx.batch \in Batches
                    /\ Decryptable(tx.batch, tx.load)' /\ Kept(tx.batch, tx.load)'
                    /\ ~told'[tx.batch]
  BY DEF TestTxOK, Assigns
<1>1. /\ tx.batch \in Batches
      /\ Decryptable(tx.batch, tx.load) /\ Kept(tx.batch, tx.load) /\ ~told[tx.batch]
  BY DEF TestTxOK
<1>2. Kept(tx.batch, tx.load)'
  BY <1>1 DEF Kept, SavedAs, KeptAfter, NoneSaved
<1> QED
  BY <1>1, <1>2, DecryptableKept DEF NoneToldAnew

LEMMA TestPoolKept ==
    ASSUME TestPoolOK, pool' = pool, KeysKept, NoneToldAnew,
           NoneSaved \/ \A i \in 1..Len(pool) :
             Assigns(pool[i]) => KeptAfter(pool[i].batch, pool[i].load)
    PROVE  TestPoolOK'
<1>1. \A i \in 1..Len(pool) : TestTxOK(pool[i])'
  <2> TAKE i \in 1..Len(pool)
  <2>1. PICK tx : tx = pool[i]
    OBVIOUS
  <2>2. TestTxOK(tx)'
    BY <2>1, TxKept DEF TestPoolOK
  <2> QED
    BY <2>1, <2>2 DEF TestTxOK, Assigns, Decryptable, Kept, SavedAs, OwnersKeys
<1> QED
  BY <1>1 DEF TestPoolOK

LEMMA BatchesKept ==
    ASSUME BatchesOK, assigned' = assigned, KeysKept,
           NoneSaved \/ \A b \in Batches : assigned[b] # NoData => KeptAfter(b, assigned[b]),
           \A b \in Batches : told'[b] => told[b] /\ secret'[b] = secret[b]
    PROVE  BatchesOK'
<1> SUFFICES ASSUME NEW b \in Batches PROVE OneBatchOK(b)'
  BY DEF BatchesOK
<1>1. OneBatchOK(b)
  BY DEF BatchesOK
<1>2. assigned[b] # NoData => Decryptable(b, assigned[b])' /\ Kept(b, assigned[b])'
  <2>1. PICK load : load = assigned[b]
    OBVIOUS
  <2>2. load # NoData => Decryptable(b, load)'
    BY <1>1, <2>1, DecryptableKept DEF OneBatchOK
  <2>3. load # NoData => Kept(b, load)'
    BY <1>1, <2>1 DEF OneBatchOK, Kept, SavedAs, KeptAfter, NoneSaved
  <2> QED
    BY <2>1, <2>2, <2>3 DEF Decryptable, Kept, SavedAs, OwnersKeys
<1>3. told'[b] => Answers(b)'
  BY <1>1 DEF OneBatchOK, Answers
<1> QED
  BY <1>2, <1>3 DEF OneBatchOK

LEMMA YetToSaveKept ==
    ASSUME OwnerOK, owner.step = "save", owner' = owner, KeysKept, NoneToldAnew,
           newest' = newest, NEW b, b = BatchOf, Unsent(b, newest[b])'
    PROVE  YetToSave'
<1>1. YetToSave /\ b \in Batches
  BY BatchOfOK DEF OwnerOK, YetToSave
<1>2. PICK load : load = owner.tx.load
  OBVIOUS
<1>3. Decryptable(b, load)'
  BY <1>1, <1>2, DecryptableKept DEF YetToSave
<1>4. BatchOf' = b
  BY DEF BatchOf
<1>5. ~told'[b] /\ newest'[b] = load.k
  BY <1>1, <1>2 DEF YetToSave, NoneToldAnew
<1>6. Decryptable(BatchOf, owner.tx.load)' /\ Unsent(BatchOf, newest[BatchOf])'
  BY <1>2, <1>3, <1>4 DEF Decryptable, Unsent, OwnersKeys
<1> QED
  BY <1>1, <1>2, <1>4, <1>5, <1>6 DEF YetToSave, Assigns

LEMMA OwnerKept ==
    ASSUME OwnerOK, owner' = owner, NoneSaved, KeysKept, NoneToldAnew,
           ownerKey.file # None => ownerKey'.file # None \/ owner = Idle,
           \A a \in Auditors : encryptionKey[a] # None => encryptionKey'[a] # None,
           owner.step = "wait" => pool' # <<>> /\ pool'[Len(pool')] = owner.tx,
           NEW b, b = BatchOf, owner.step = "save" => Unsent(b, newest[b])'
    PROVE  OwnerOK'
<1>1. HaveKeys(owner.todo)'
  <2>1. owner.todo \subseteq Batches
    BY DEF OwnerOK, OwnerChecks, OwnerSends
  <2> QED
    BY <2>1, MembersAudit DEF OwnerOK, HaveKeys
<1>2. owner.step \in {"send", "wait"} => TestTxOK(owner.tx)'
  <2>1. PICK tx : tx = owner.tx
    OBVIOUS
  <2>2. owner.step \in {"send", "wait"} => TestTxOK(tx)'
    BY <2>1, TxKept DEF OwnerOK
  <2> QED
    BY <2>1, <2>2 DEF TestTxOK, Assigns, Decryptable, Kept, SavedAs, OwnersKeys
<1>3. SavedWhatItSends <=> SavedWhatItSends'
  BY DEF SavedWhatItSends, Assigns, BatchOf, SavedAs, NoneSaved
<1>4. owner.step = "save" => YetToSave'
  BY YetToSaveKept DEF NoneSaved
<1>5. owner.name \in {"create", "reassign"} => ownerKey'.file # None
  BY DEF OwnerOK, Idle
<1> QED
  BY <1>1, <1>2, <1>3, <1>4, <1>5 DEF OwnerOK

\* The manifests and the owner's key are as before.
LEMMA PublishedSame ==
    ASSUME PublishedOK, UNCHANGED published PROVE PublishedOK' /\ OwnersKeys' = OwnersKeys
  BY DEF PublishedOK, OwnersKeys, published

\* Nothing that the invariant looks at has changed but the manifests.
LEMMA NothingHappens ==
    ASSUME TestDataInv, NoneSaved,
           UNCHANGED <<assigned, pool, encryptionKey, keyFile, keyLost, told, owner>>,
           testSet' \in Int, PublishedOK', \A k \in OwnersKeys : k \in OwnersKeys',
           ownerKey.file # None => ownerKey'.file # None \/ owner = Idle
    PROVE  TestDataInv'
<1>1. KeysKept /\ NoneToldAnew
  BY DEF KeysKept, NoneToldAnew
<1>2. TestDataTyped' /\ KeysOK'
  BY DEF TestDataInv, TestDataTyped, KeysOK, NoneSaved
<1>3. BatchesOK'
  BY <1>1, BatchesKept DEF TestDataInv, NoneSaved
<1>4. TestPoolOK'
  BY <1>1, TestPoolKept DEF TestDataInv
<1>5. OwnerOK'
  <2>1. PICK b : b = BatchOf
    OBVIOUS
  <2>2. owner.step = "save" => Unsent(b, newest[b])'
    BY <2>1 DEF TestDataInv, OwnerOK, YetToSave, Unsent, NoneSaved
  <2> QED
    BY <1>1, <2>1, <2>2, OwnerKept DEF TestDataInv, OwnerOK
<1> QED
  BY <1>2, <1>3, <1>4, <1>5 DEF TestDataInv

\* Only the owner's command has changed, what is told of its batch, and the owner's key.
LEMMA OwnerMoves ==
    ASSUME TestDataInv, OwnerOK', told' \in [Batches -> BOOLEAN], NoneToldAnew, NoneSaved,
           UNCHANGED <<assigned, pool, encryptionKey, keyFile, keyLost, testSet>>,
           PublishedOK', \A k \in OwnersKeys : k \in OwnersKeys'
    PROVE  TestDataInv'
<1>1. KeysKept
  BY DEF KeysKept
<1>2. TestDataTyped' /\ KeysOK'
  BY DEF TestDataInv, TestDataTyped, KeysOK, NoneSaved
<1>3. BatchesOK'
  BY <1>1, BatchesKept DEF TestDataInv, NoneToldAnew, NoneSaved
<1>4. TestPoolOK'
  BY <1>1, TestPoolKept DEF TestDataInv
<1> QED
  BY <1>2, <1>3, <1>4 DEF TestDataInv

-----------------------------------------------------------------------------
(* The auditors' keys. *)

LEMMA FreshKeyOK ==
    ASSUME TestDataTyped, NEW a \in Auditors
    PROVE  /\ KeyToRegister(a) \in Int /\ KeyToRegister(a) # None
           /\ keyFile[a] # None => KeyToRegister(a) = keyFile[a]
<1>1. CASE keyFile[a] # None
  BY <1>1 DEF KeyToRegister, TestDataTyped
<1>2. CASE keyFile[a] = None
  <2>1. PICK e : e = encryptionKey[a]
    OBVIOUS
  <2>2. \E x \in KeyPairs : x # None /\ x # e
    <3>1. CASE e \in KeyPairs
      <4>1. KeyPairs \ {e} # {}
        BY <3>1, TestDataAssumption DEF TestDataAssumption
      <4> QED
        BY <4>1, KeysAreNumbers
    <3>2. CASE e \notin KeyPairs
      BY <3>2, KeysAreNumbers, TestDataAssumption DEF TestDataAssumption
    <3> QED
      BY <3>1, <3>2
  <2>3. FreshKeyFile(a) \in KeyPairs
    BY <1>2, <2>1, <2>2 DEF FreshKeyFile
  <2>4. KeyToRegister(a) = FreshKeyFile(a)
    BY <1>2 DEF KeyToRegister
  <2> QED
    BY <1>2, <2>3, <2>4, KeysAreNumbers
<1> QED
  BY <1>1, <1>2

LEMMA KeysMove ==
    ASSUME TestDataInv, KeysKept, KeysOK',
           keyFile' \in [Auditors -> Int], keyLost' \in [Auditors -> BOOLEAN],
           encryptionKey' \in [Auditors -> Int],
           \A a \in Auditors : encryptionKey[a] # None => encryptionKey'[a] # None,
           UNCHANGED <<assigned, pool, told, owner, testSet, published>>, NoneSaved
    PROVE  TestDataInv'
<1>1. NoneToldAnew
  BY DEF NoneToldAnew
<1>2. TestDataTyped' /\ PublishedOK'
  BY PublishedSame DEF TestDataInv, TestDataTyped, NoneSaved
<1>3. BatchesOK'
  BY <1>1, BatchesKept DEF TestDataInv, NoneSaved
<1>4. TestPoolOK'
  BY <1>1, TestPoolKept DEF TestDataInv
<1>5. OwnerOK'
  <2>1. PICK b : b = BatchOf
    OBVIOUS
  <2>2. owner.step = "save" => Unsent(b, newest[b])'
    BY <2>1 DEF TestDataInv, OwnerOK, YetToSave, Unsent, NoneSaved
  <2>3. ownerKey' = ownerKey
    BY DEF published
  <2> QED
    BY <1>1, <2>1, <2>2, <2>3, OwnerKept DEF TestDataInv, OwnerOK
<1> QED
  BY <1>2, <1>3, <1>4, <1>5 DEF TestDataInv

LEMMA RegisterStep ==
    ASSUME TestDataInv, NEW a \in Auditors, RegisterEncryptionKey(a) PROVE TestDataInv'
<1>1. PICK key : key = KeyToRegister(a)
  OBVIOUS
<1>2. key \in Int /\ key # None /\ (keyFile[a] # None => key = keyFile[a])
  BY <1>1, FreshKeyOK DEF TestDataInv
<1>3. /\ keyFile' = [keyFile EXCEPT ![a] = key]
      /\ \/ encryptionKey' = encryptionKey
         \/ encryptionKey' = [encryptionKey EXCEPT ![a] = key]
      /\ UNCHANGED <<assigned, pool, keyLost, testSet, owner, told, published>> /\ NoneSaved
  BY <1>1 DEF RegisterEncryptionKey, onChain, ghosts, NoneSaved
<1>4. /\ keyFile \in [Auditors -> Int] /\ encryptionKey \in [Auditors -> Int]
      /\ keyLost \in [Auditors -> BOOLEAN]
  BY DEF TestDataInv, TestDataTyped
<1>5. KeysKept
  BY <1>2, <1>3, <1>4, PublishedSame DEF KeysKept, TestDataInv
<1>6. keyFile' \in [Auditors -> Int] /\ encryptionKey' \in [Auditors -> Int]
      /\ keyLost' \in [Auditors -> BOOLEAN]
  BY <1>2, <1>3, <1>4
<1>7. KeysOK'
  BY <1>2, <1>3, <1>4 DEF TestDataInv, KeysOK
<1>8. \A x \in Auditors : encryptionKey[x] # None => encryptionKey'[x] # None
  BY <1>2, <1>3, <1>4
<1> QED
  BY <1>3, <1>5, <1>6, <1>7, <1>8, KeysMove

LEMMA LoseStep ==
    ASSUME TestDataInv, NEW a \in Auditors, LoseKeyFile(a) PROVE TestDataInv'
<1>1. /\ keyFile \in [Auditors -> Int] /\ encryptionKey \in [Auditors -> Int]
      /\ keyLost \in [Auditors -> BOOLEAN]
  BY DEF TestDataInv, TestDataTyped
<1>2. /\ keyFile' = [keyFile EXCEPT ![a] = None]
      /\ keyLost' = [keyLost EXCEPT ![a] = TRUE]
      /\ UNCHANGED <<assigned, pool, encryptionKey, testSet, owner, told, published>>
      /\ NoneSaved
  BY DEF LoseKeyFile, onChain, ghosts, NoneSaved
<1>3. KeysKept
  BY <1>1, <1>2, PublishedSame DEF KeysKept, TestDataInv
<1>4. keyFile' \in [Auditors -> Int] /\ encryptionKey' \in [Auditors -> Int]
      /\ keyLost' \in [Auditors -> BOOLEAN]
  BY <1>1, <1>2, KeysAreNumbers
<1>5. KeysOK'
  BY <1>1, <1>2 DEF TestDataInv, KeysOK
<1> QED
  BY <1>2, <1>3, <1>4, <1>5, KeysMove

-----------------------------------------------------------------------------
(* The owner's commands. *)

\* What an owner's record that sends nothing has to satisfy.
LEMMA OwnerWritten ==
    ASSUME NEW c \in OwnerChecks, owner' = c, HaveKeys(c.todo)',
           c.name \in {"create", "reassign"} => ownerKey'.file # None
    PROVE  OwnerOK'
<1>1. c.step \notin {"save", "send", "wait"}
  BY DEF OwnerChecks
<1> QED
  BY <1>1 DEF OwnerOK

LEMMA IdleOwner ==
    Idle \in OwnerChecks /\ Idle.todo = {} /\ Idle.step = "idle" /\ Idle.name = "none"
  BY DEF Idle, OwnerChecks

LEMMA OwnerIdles == ASSUME owner' = Idle PROVE OwnerOK'
  BY IdleOwner, OwnerWritten DEF HaveKeys

\* The owner learns what became of its transaction.
LEMMA OnReceiptOwner ==
    ASSUME OwnerOK, owner.step \in {"send", "wait"}, NEW got \in BOOLEAN, OnReceipt(got),
           encryptionKey' = encryptionKey, ownerKey' = ownerKey
    PROVE  OwnerOK'
<1>1. owner \in OwnerSends /\ HaveKeys(owner.todo)
  BY DEF OwnerOK
<1>2. CASE owner.name = "create" /\ owner.todo # {}
  <2>1. BatchOf \in owner.todo /\ BatchOf \in Batches
    BY <1>2, BatchOfOK
  <2>2. PICK c : c = [name |-> "create", step |-> "encrypt", todo |-> owner.todo \ {BatchOf},
                      failed |-> IF got THEN owner.failed ELSE owner.failed \cup {BatchOf}]
    OBVIOUS
  <2>3. owner' = c
    BY <1>2, <2>2 DEF OnReceipt
  <2>4. owner.todo \subseteq Batches /\ owner.failed \subseteq Batches
    BY <1>1 DEF OwnerSends
  <2>5. c.todo \subseteq owner.todo /\ c \in OwnerChecks
    BY <2>1, <2>2, <2>4 DEF OwnerChecks
  <2>6. HaveKeys(c.todo)'
    BY <1>1, <2>5 DEF HaveKeys
  <2>7. ownerKey'.file # None
    BY <1>2 DEF OwnerOK
  <2> QED
    BY <2>3, <2>5, <2>6, <2>7, OwnerWritten
<1>3. CASE ~(owner.name = "create" /\ owner.todo # {})
  <2>1. owner' = Idle
    BY <1>3 DEF OnReceipt
  <2> QED
    BY <2>1, OwnerIdles
<1> QED
  BY <1>2, <1>3

LEMMA OnReceiptTold ==
    ASSUME TestDataTyped, OwnerOK, NEW got \in BOOLEAN, OnReceipt(got)
    PROVE  /\ told' \in [Batches -> BOOLEAN]
           /\ \A b \in Batches : told'[b] = IF owner.todo # {} /\ b = BatchOf THEN got ELSE told[b]
<1>1. told \in [Batches -> BOOLEAN]
  BY DEF TestDataTyped
<1>2. CASE owner.todo # {}
  BY <1>1, <1>2, BatchOfOK DEF OnReceipt
<1>3. CASE owner.todo = {}
  BY <1>1, <1>3 DEF OnReceipt
<1> QED
  BY <1>2, <1>3

LEMMA GivesUp ==
    ASSUME TestDataInv, owner.step \in {"send", "wait"}, OnReceipt(FALSE), NoneSaved,
           UNCHANGED <<assigned, pool, encryptionKey, keyFile, keyLost, testSet, published>>
    PROVE  TestDataInv'
<1>1. PublishedOK' /\ OwnersKeys' = OwnersKeys /\ ownerKey' = ownerKey
  BY PublishedSame DEF TestDataInv, published
<1>2. OwnerOK'
  BY <1>1, OnReceiptOwner DEF TestDataInv
<1>3. told' \in [Batches -> BOOLEAN] /\ NoneToldAnew
  BY OnReceiptTold DEF TestDataInv, NoneToldAnew
<1> QED
  BY <1>1, <1>2, <1>3, OwnerMoves

LEMMA TimeoutStep == ASSUME TestDataInv, ReceiptTimesOut PROVE TestDataInv'
  BY GivesUp DEF ReceiptTimesOut, onChain, auditorFiles, NoneSaved

LEMMA KilledStep == ASSUME TestDataInv, OwnerKilled PROVE TestDataInv'
<1>1. /\ UNCHANGED <<assigned, pool, encryptionKey, keyFile, keyLost, testSet, published, told>>
      /\ NoneSaved
  BY DEF OwnerKilled, onChain, auditorFiles, ghosts, NoneSaved
<1>2. OwnerOK'
  BY OwnerIdles DEF OwnerKilled
<1>3. told' \in [Batches -> BOOLEAN] /\ NoneToldAnew
  BY <1>1 DEF TestDataInv, TestDataTyped, NoneToldAnew
<1>4. PublishedOK' /\ OwnersKeys' = OwnersKeys
  BY <1>1, PublishedSame DEF TestDataInv
<1> QED
  BY <1>1, <1>2, <1>3, <1>4, OwnerMoves

LEMMA SendStep == ASSUME TestDataInv, SendPrepared PROVE TestDataInv'
<1>1. /\ owner.step = "send"
      /\ UNCHANGED <<assigned, encryptionKey, keyFile, keyLost, testSet, published>>
      /\ NoneSaved
  BY DEF SendPrepared, SendTx, onChain, auditorFiles, NoneSaved
<1>2. CASE OnReceipt(FALSE) /\ pool' = pool
  BY <1>1, <1>2, GivesUp
<1>3. CASE /\ pool' = Append(pool, owner.tx)
           /\ owner' = [owner EXCEPT !.step = "wait"]
           /\ told' = told
  <2>1. PICK tx : tx = owner.tx
    OBVIOUS
  <2>2. PICK c : c = [owner EXCEPT !.step = "wait"]
    OBVIOUS
  <2>3. owner \in OwnerSends /\ tx \in TestTxType
    BY <1>1, <2>1 DEF TestDataInv, OwnerOK, OwnerSends
  <2>4. /\ c \in OwnerSends /\ c.todo = owner.todo /\ c.tx = tx /\ c.step = "wait"
        /\ c.name = owner.name
    BY <2>1, <2>2, <2>3 DEF OwnerSends
  <2>5. pool \in Seq(TestTxType) /\ \A i \in 1..Len(pool) : TestTxOK(pool[i])
    BY DEF TestDataInv, TestPoolOK
  <2>6. TestTxOK(tx) /\ SavedWhatItSends /\ HaveKeys(owner.todo)
    BY <1>1, <2>1 DEF TestDataInv, OwnerOK
  <2>7. PICK q : q = Append(pool, tx)
    OBVIOUS
  <2>8. /\ q \in Seq(TestTxType) /\ q # <<>> /\ Len(q) = Len(pool) + 1
        /\ \A i \in 1..Len(pool) : q[i] = pool[i]
        /\ q[Len(q)] = tx
    BY <2>3, <2>5, <2>7, AppendProperties
  <2>9. \A i \in 1..Len(q) : TestTxOK(q[i])
    <3> TAKE i \in 1..Len(q)
    <3>1. Len(pool) \in Nat
      BY <2>5
    <3>2. i \in 1..Len(pool) \/ i = Len(q)
      BY <2>8, <3>1
    <3>3. CASE i \in 1..Len(pool)
      BY <2>5, <2>8, <3>3
    <3>4. CASE i = Len(q)
      BY <2>6, <2>8, <3>4
    <3> QED
      BY <3>2, <3>3, <3>4
  <2>10. pool' = q /\ owner' = c
    BY <1>3, <2>1, <2>2, <2>7
  <2>11. /\ KeysKept /\ NoneToldAnew
         /\ PublishedOK' /\ ownerKey' = ownerKey
    <3>1. PublishedOK' /\ OwnersKeys' = OwnersKeys
      BY <1>1, PublishedSame DEF TestDataInv
    <3> QED
      BY <1>1, <1>3, <3>1 DEF KeysKept, NoneToldAnew, published
  <2>12. TestPoolOK'
    <3>1. \A i \in 1..Len(q) : TestTxOK(q[i])'
      <4> TAKE i \in 1..Len(q)
      <4>1. PICK x : x = q[i]
        OBVIOUS
      <4>2. TestTxOK(x)'
        BY <1>1, <2>9, <2>11, <4>1, TxKept
      <4> QED
        BY <4>1, <4>2
    <3> QED
      BY <2>8, <2>10, <3>1 DEF TestPoolOK
  <2>13. OwnerOK'
    <3>1. TestTxOK(tx)'
      BY <1>1, <2>6, <2>11, TxKept
    <3>2. BatchOf' = BatchOf
      BY <2>4, <2>10 DEF BatchOf
    <3>3. SavedWhatItSends'
      BY <1>1, <2>1, <2>4, <2>6, <2>10, <3>2 DEF SavedWhatItSends, Assigns, SavedAs, NoneSaved
    <3>4. HaveKeys(c.todo)'
      BY <1>1, <2>4, <2>6 DEF HaveKeys
    <3>5. owner.name \in {"create", "reassign"} => ownerKey'.file # None
      BY <2>11 DEF TestDataInv, OwnerOK
    <3> QED
      BY <2>4, <2>8, <2>10, <3>1, <3>3, <3>4, <3>5 DEF OwnerOK
  <2>14. TestDataTyped' /\ KeysOK'
    BY <1>1, <1>3 DEF TestDataInv, TestDataTyped, KeysOK, NoneSaved
  <2>15. BatchesOK'
    BY <1>1, <1>3, <2>11, BatchesKept DEF TestDataInv, NoneSaved
  <2> QED
    BY <2>11, <2>12, <2>13, <2>14, <2>15 DEF TestDataInv
<1> QED
  BY <1>2, <1>3 DEF SendPrepared, SendTx

LEMMA NoneMissing ==
    ASSUME NEW S \in SUBSET Batches, \A b \in S : AuditorsMissingEncryptionKey(b) = {},
           encryptionKey' = encryptionKey
    PROVE  HaveKeys(S)'
  BY DEF AuditorsMissingEncryptionKey, HaveKeys

\* The owner's key is the one of the file, or one it never had.
LEMMA OwnerKeyLoaded ==
    ASSUME PublishedOK, CanLoadOwnerKey, ownerKey' = [ownerKey EXCEPT !.file = LoadOwnerKey]
    PROVE  /\ ownerKey' \in [file : Int, lost : SUBSET Int]
           /\ LoadOwnerKey \in OwnersKeys' /\ LoadOwnerKey \in Int
           /\ ownerKey'.file # None
           /\ \A k \in OwnersKeys : k \in OwnersKeys'
<1>1. ownerKey \in [file : Int, lost : SUBSET Int]
  BY DEF PublishedOK
<1>2. PICK key : key = LoadOwnerKey
  OBVIOUS
<1>3. key \in Int /\ key # None /\ (ownerKey.file # None => key = ownerKey.file)
  <2>1. CASE ownerKey.file # None
    BY <1>1, <1>2, <2>1 DEF LoadOwnerKey
  <2>2. CASE ownerKey.file = None
    BY <1>2, <2>2, KeysAreNumbers DEF LoadOwnerKey, CanLoadOwnerKey
  <2> QED
    BY <2>1, <2>2
<1>4. ownerKey'.file = key /\ ownerKey'.lost = ownerKey.lost
  BY <1>1, <1>2
<1>5. ownerKey' \in [file : Int, lost : SUBSET Int]
  BY <1>1, <1>2, <1>3
<1>6. key \in OwnersKeys' /\ \A k \in OwnersKeys : k \in OwnersKeys'
  BY <1>3, <1>4 DEF OwnersKeys
<1> QED
  BY <1>2, <1>3, <1>4, <1>5, <1>6

\* The cached manifest is written anew, with a key of the owner's or none, or torn.
LEMMA ManifestCached ==
    ASSUME PublishedOK, ownerKey' \in [file : Int, lost : SUBSET Int],
           \A k \in OwnersKeys : k \in OwnersKeys',
           NEW key \in Int, key \in OwnersKeys' \cup {None, Truncated}, CachesManifest(key)
    PROVE  PublishedOK'
<1>1. /\ manifest \in [chain : Int, local : Int, current : BOOLEAN]
      /\ manifest.chain \in OwnersKeys \cup {None}
  BY DEF PublishedOK
<1>2. manifest' = [manifest EXCEPT !.local = key, !.current = TRUE]
  BY DEF CachesManifest
<1>3. /\ manifest' \in [chain : Int, local : Int, current : BOOLEAN]
      /\ manifest'.chain = manifest.chain /\ manifest'.local = key
  BY <1>1, <1>2
<1> QED
  BY <1>1, <1>3 DEF PublishedOK

LEMMA CachedOK ==
    ASSUME PublishedOK PROVE Cached \in Int /\ Cached \in OwnersKeys \cup {None, Truncated}
  BY DEF PublishedOK, Cached

\* A manifest read from the chain or from the cache, and the key loaded or left.
LEMMA ManifestRead ==
    ASSUME PublishedOK, CachesManifest(Cached),
           \/ ownerKey' = ownerKey
           \/ CanLoadOwnerKey /\ ownerKey' = [ownerKey EXCEPT !.file = LoadOwnerKey]
    PROVE  PublishedOK' /\ \A k \in OwnersKeys : k \in OwnersKeys'
<1>1. /\ ownerKey' \in [file : Int, lost : SUBSET Int]
      /\ \A k \in OwnersKeys : k \in OwnersKeys'
  <2>1. CASE ownerKey' = ownerKey
    BY <2>1 DEF PublishedOK, OwnersKeys
  <2> QED
    BY <2>1, OwnerKeyLoaded
<1>2. PICK key : key = Cached
  OBVIOUS
<1>3. key \in Int /\ key \in OwnersKeys' \cup {None, Truncated}
  BY <1>1, <1>2, CachedOK
<1> QED
  BY <1>1, <1>2, <1>3, ManifestCached

LEMMA CreateStep == ASSUME TestDataInv, CreateTestDataset PROVE TestDataInv'
<1>1. /\ UNCHANGED <<assigned, pool, encryptionKey, keyFile, keyLost, testSet, told>>
      /\ NoneSaved
      /\ owner = Idle /\ CanLoadOwnerKey
      /\ ownerKey' = [ownerKey EXCEPT !.file = LoadOwnerKey]
  BY DEF CreateTestDataset, onChain, auditorFiles, ghosts, NoneSaved
<1>2. PICK key : key = LoadOwnerKey
  OBVIOUS
<1>3. /\ ownerKey' \in [file : Int, lost : SUBSET Int]
      /\ key \in OwnersKeys' /\ key \in Int /\ ownerKey'.file # None
      /\ \A k \in OwnersKeys : k \in OwnersKeys'
  BY <1>1, <1>2, OwnerKeyLoaded DEF TestDataInv
<1>4. told' \in [Batches -> BOOLEAN] /\ NoneToldAnew
  BY <1>1 DEF TestDataInv, TestDataTyped, NoneToldAnew
<1>5. PublishedOK'
  <2>1. CachesManifest(key) \/ CachesManifest(Truncated)
    BY <1>2 DEF CreateTestDataset
  <2>2. CASE CachesManifest(key)
    BY <1>3, <2>2, ManifestCached DEF TestDataInv
  <2>3. CASE CachesManifest(Truncated)
    BY <1>3, <2>3, KeysAreNumbers, ManifestCached DEF TestDataInv
  <2> QED
    BY <2>1, <2>2, <2>3
<1>6. OwnerOK'
  <2>1. CASE owner' = Idle
    BY <2>1, OwnerIdles
  <2>2. CASE owner' # Idle
    <3>1. PICK S \in SUBSET Batches :
            /\ \A b \in S : AuditorsMissingEncryptionKey(b) = {}
            /\ owner' = [name |-> "create", step |-> "encrypt", todo |-> S, failed |-> {}]
      BY <1>1, <2>2 DEF CreateTestDataset
    <3>2. PICK c : c = [name |-> "create", step |-> "encrypt", todo |-> S, failed |-> {}]
      OBVIOUS
    <3>3. c \in OwnerChecks /\ c.todo = S
      BY <3>2 DEF OwnerChecks
    <3>4. HaveKeys(S)'
      BY <1>1, <3>1, NoneMissing
    <3> QED
      BY <1>3, <3>1, <3>2, <3>3, <3>4, OwnerWritten
  <2> QED
    BY <2>1, <2>2
<1> QED
  BY <1>1, <1>3, <1>4, <1>5, <1>6, OwnerMoves

LEMMA ReassignStep ==
    ASSUME TestDataInv, NEW b \in Batches, ReassignTestData(b) PROVE TestDataInv'
<1>1. /\ UNCHANGED <<assigned, pool, encryptionKey, keyFile, keyLost, testSet, told>>
      /\ NoneSaved
      /\ CachesManifest(Cached) /\ CanLoadOwnerKey
      /\ ownerKey' = [ownerKey EXCEPT !.file = LoadOwnerKey]
  BY DEF ReassignTestData, onChain, auditorFiles, ghosts, NoneSaved
<1>2. PICK c : c = [name |-> "reassign", step |-> "encrypt", todo |-> {b}, failed |-> {}]
  OBVIOUS
<1>3. c \in OwnerChecks /\ c.todo = {b} /\ owner' = c
  BY <1>2 DEF OwnerChecks, ReassignTestData
<1>4. HaveKeys({b})'
  BY <1>1, NoneMissing DEF ReassignTestData
<1>5. PublishedOK' /\ (\A k \in OwnersKeys : k \in OwnersKeys') /\ ownerKey'.file # None
  BY <1>1, ManifestRead, OwnerKeyLoaded DEF TestDataInv
<1>6. OwnerOK'
  BY <1>3, <1>4, <1>5, OwnerWritten
<1>7. told' \in [Batches -> BOOLEAN] /\ NoneToldAnew
  BY <1>1 DEF TestDataInv, TestDataTyped, NoneToldAnew
<1> QED
  BY <1>1, <1>5, <1>6, <1>7, OwnerMoves

\* A transaction that assigns nothing is about to be sent.
LEMMA SendsOther ==
    ASSUME NEW c \in OwnerSends, c.step = "send", c.todo = {}, ~Assigns(c.tx), owner' = c,
           c.name \in {"flag", "resolve"}
    PROVE  OwnerOK'
<1>1. PICK tx : tx = c.tx
  OBVIOUS
<1>2. TestTxOK(tx)'
  BY <1>1 DEF TestTxOK, Assigns
<1>3. TestTxOK(owner.tx)'
  BY <1>1, <1>2 DEF TestTxOK, Assigns
<1>4. SavedWhatItSends'
  BY DEF SavedWhatItSends, Assigns
<1>5. HaveKeys(c.todo)'
  BY DEF HaveKeys
<1> QED
  BY <1>3, <1>4, <1>5 DEF OwnerOK

LEMMA NoDataTyped == NoData \in LoadType
  BY KeysAreNumbers DEF NoData, LoadType, PubsType

LEMMA FlagStep == ASSUME TestDataInv, SetTestDataAssignedFlag PROVE TestDataInv'
<1>1. /\ UNCHANGED <<assigned, pool, encryptionKey, keyFile, keyLost, testSet, told, published>>
      /\ NoneSaved
  BY DEF SetTestDataAssignedFlag, onChain, auditorFiles, ghosts, NoneSaved
<1>2. /\ told' \in [Batches -> BOOLEAN] /\ NoneToldAnew
      /\ PublishedOK' /\ OwnersKeys' = OwnersKeys
  BY <1>1, PublishedSame DEF TestDataInv, TestDataTyped, NoneToldAnew
<1>3. CASE owner' = Idle
  BY <1>1, <1>2, <1>3, OwnerIdles, OwnerMoves
<1>4. CASE owner' = [name |-> "flag", step |-> "send", todo |-> {}, failed |-> {}, tx |-> FlagTx]
  <2>1. FlagTx \in TestTxType /\ ~Assigns(FlagTx)
    BY NoDataTyped DEF FlagTx, TestTxType, Assigns
  <2>2. PICK c : c = [name |-> "flag", step |-> "send", todo |-> {}, failed |-> {}, tx |-> FlagTx]
    OBVIOUS
  <2>3. c \in OwnerSends /\ c.step = "send" /\ c.todo = {} /\ c.tx = FlagTx /\ c.name = "flag"
    BY <2>1, <2>2 DEF OwnerSends
  <2>4. OwnerOK'
    BY <1>4, <2>1, <2>2, <2>3, SendsOther
  <2> QED
    BY <1>1, <1>2, <2>4, OwnerMoves
<1> QED
  BY <1>3, <1>4 DEF SetTestDataAssignedFlag

LEMMA ResolveTestStep ==
    ASSUME TestDataInv, NEW b \in Batches, ResolveTestData(b) PROVE TestDataInv'
<1>1. /\ UNCHANGED <<assigned, pool, encryptionKey, keyFile, keyLost, testSet, told>>
      /\ NoneSaved /\ ownerKey' = ownerKey /\ CachesManifest(Cached)
  BY DEF ResolveTestData, onChain, auditorFiles, ghosts, NoneSaved
<1>2. /\ told' \in [Batches -> BOOLEAN] /\ NoneToldAnew
      /\ PublishedOK' /\ \A k \in OwnersKeys : k \in OwnersKeys'
  BY <1>1, ManifestRead DEF TestDataInv, TestDataTyped, NoneToldAnew
<1>3. PICK k \in Int, d \in Int : k = secret[b].k /\ d = secret[b].data
  BY DEF TestDataInv, TestDataTyped
<1>4. PICK load : load = [NoData EXCEPT !.k = k, !.data = d]
  OBVIOUS
<1>5. load \in LoadType
  BY <1>3, <1>4, KeysAreNumbers DEF LoadType, PubsType, NoData
<1>6. PICK tx : tx = [fn |-> "resolve", batch |-> b, load |-> load]
  OBVIOUS
<1>7. tx \in TestTxType /\ ~Assigns(tx)
  BY <1>5, <1>6 DEF TestTxType, Assigns
<1>8. PICK c : c = [name |-> "resolve", step |-> "send", todo |-> {}, failed |-> {}, tx |-> tx]
  OBVIOUS
<1>9. c \in OwnerSends /\ c.step = "send" /\ c.todo = {} /\ c.tx = tx /\ c.name = "resolve"
  BY <1>7, <1>8 DEF OwnerSends
<1>10. owner' = c
  BY <1>3, <1>4, <1>6, <1>8 DEF ResolveTestData
<1>11. OwnerOK'
  BY <1>7, <1>9, <1>10, SendsOther
<1> QED
  BY <1>1, <1>2, <1>11, OwnerMoves

\* A payload is built: its key is fresh, and every auditor of its batch has the
\* key it is encrypted to.
LEMMA PayloadOK ==
    ASSUME TestDataInv, NEW b \in Batches, Keys \ KeysInUse(b) # {}, HaveKeys({b}),
           ownerKey.file # None, NEW load, load = EncryptBatchTestData(b)
    PROVE  /\ load \in LoadType
           /\ Decryptable(b, load) /\ Unsent(b, load.k)
<1>1. PICK k \in Keys \ KeysInUse(b) :
        load = [k |-> k, data |-> testSet, pubs |-> [a \in Members[b] |-> encryptionKey[a]],
                by |-> ownerKey.file]
  BY DEF EncryptBatchTestData
<1>2. PICK pubs : pubs = [a \in Members[b] |-> encryptionKey[a]]
  OBVIOUS
<1>3. \A a \in Members[b] : encryptionKey[a] \in Int /\ encryptionKey[a] # None
  BY MembersAudit DEF TestDataInv, TestDataTyped, HaveKeys
<1>4. pubs \in [Members[b] -> Int] /\ \A a \in Members[b] : pubs[a] = encryptionKey[a]
  BY <1>2, <1>3
<1>5. pubs \in PubsType
  BY <1>4 DEF PubsType
<1>6. PICK d \in Int : d = testSet
  BY DEF TestDataInv, TestDataTyped
<1>7. PICK by \in Int : by = ownerKey.file
  BY DEF TestDataInv, PublishedOK
<1>8. load = [k |-> k, data |-> d, pubs |-> pubs, by |-> by]
  BY <1>1, <1>2, <1>6, <1>7
<1>9. load \in LoadType /\ load.k = k /\ load.pubs = pubs /\ load.by = by
  BY <1>5, <1>8, KeysAreNumbers DEF LoadType
<1>10. by \in OwnersKeys
  BY <1>7 DEF OwnersKeys
<1>11. Decryptable(b, load)
  BY <1>3, <1>4, <1>9, <1>10, MembersAudit DEF Decryptable, TestDataInv, KeysOK
<1>12. Unsent(b, k)
  <2>1. pool \in Seq(TestTxType)
    BY DEF TestDataInv, TestPoolOK
  <2>2. \A i \in 1..Len(pool) : pool[i] \in ToSet(pool)
    BY <2>1 DEF ToSet
  <2> QED
    BY <1>1, <2>2 DEF Unsent, KeysInUse
<1> QED
  BY <1>9, <1>11, <1>12

\* The file of a batch and its newest K change, and what is on its way, or there, has
\* not that K.
LEMMA OneSecretMoves ==
    ASSUME TestDataInv, NEW b \in Batches, ~told'[b], Unsent(b, newest'[b]),
           \A x \in Batches \ {b} : /\ secret'[x] = secret[x] /\ newest'[x] = newest[x]
                                   /\ told'[x] = told[x],
           UNCHANGED <<assigned, pool, keyFile, keyLost, published>>
    PROVE  BatchesOK' /\ TestPoolOK' /\ KeysKept /\ NoneToldAnew
<1>1. KeysKept
  BY PublishedSame DEF KeysKept, TestDataInv
<1>2. NoneToldAnew /\ \A x \in Batches : told'[x] => told[x] /\ secret'[x] = secret[x]
  BY DEF NoneToldAnew
<1>3. ASSUME NEW x \in Batches, NEW load, Kept(x, load), x = b => load.k # newest'[b]
      PROVE  KeptAfter(x, load)
  BY <1>3 DEF Kept, KeptAfter, SavedAs
<1>4. \A x \in Batches : assigned[x] # NoData => KeptAfter(x, assigned[x])
  <2> TAKE x \in Batches
  <2>1. PICK load : load = assigned[x]
    OBVIOUS
  <2>2. load # NoData => Kept(x, load)
    BY <2>1 DEF TestDataInv, BatchesOK, OneBatchOK
  <2>3. x = b => load.k # newest'[b]
    BY <2>1 DEF Unsent
  <2> QED
    BY <1>3, <2>1, <2>2, <2>3
<1>5. \A i \in 1..Len(pool) : Assigns(pool[i]) => KeptAfter(pool[i].batch, pool[i].load)
  <2> SUFFICES ASSUME NEW i \in 1..Len(pool), Assigns(pool[i])
               PROVE  KeptAfter(pool[i].batch, pool[i].load)
    OBVIOUS
  <2>1. PICK tx : tx = pool[i]
    OBVIOUS
  <2>2. TestTxOK(tx) /\ Assigns(tx)
    BY <2>1 DEF TestDataInv, TestPoolOK
  <2>3. tx.batch \in Batches /\ Kept(tx.batch, tx.load)
    BY <2>2 DEF TestTxOK
  <2>4. tx.batch = b => tx.load.k # newest'[b]
    BY <2>1 DEF Unsent
  <2>5. KeptAfter(tx.batch, tx.load)
    BY <1>3, <2>3, <2>4
  <2> QED
    BY <2>1, <2>5
<1>6. BatchesOK'
  BY <1>1, <1>2, <1>4, BatchesKept DEF TestDataInv
<1>7. TestPoolOK'
  BY <1>1, <1>2, <1>5, TestPoolKept DEF TestDataInv
<1> QED
  BY <1>1, <1>2, <1>6, <1>7

LEMMA PrepareStep ==
    ASSUME TestDataInv, NEW name, NEW fn,
           <<name, fn>> \in {<<"create", "assign">>, <<"reassign", "reassign">>},
           PrepareBatch(name, fn)
    PROVE  TestDataInv'
<1>1. PICK b : b = BatchOf
  OBVIOUS
<1>2. PICK load : load = EncryptBatchTestData(b)
  OBVIOUS
<1>3. PICK tx : tx = [fn |-> fn, batch |-> b, load |-> load]
  OBVIOUS
<1>4. PICK c : c = [name |-> name, step |-> "save", todo |-> owner.todo,
                    failed |-> owner.failed, tx |-> tx]
  OBVIOUS
<1>5. /\ owner.todo # {} /\ Keys \ KeysInUse(b) # {} /\ owner.name = name
      /\ newest' = [newest EXCEPT ![b] = load.k]
      /\ owner' = c
      /\ told' = [told EXCEPT ![b] = FALSE]
      /\ UNCHANGED <<assigned, pool, encryptionKey, keyFile, keyLost, testSet, published, secret>>
  BY <1>1, <1>2, <1>3, <1>4 DEF PrepareBatch, onChain, auditorFiles
<1>6. b \in owner.todo /\ b \in Batches
  BY <1>1, <1>5, BatchOfOK DEF TestDataInv
<1>7. HaveKeys(owner.todo) /\ ownerKey.file # None
  BY <1>5 DEF TestDataInv, OwnerOK
<1>8. load \in LoadType /\ Decryptable(b, load) /\ Unsent(b, load.k)
  BY <1>2, <1>5, <1>6, <1>7, PayloadOK DEF HaveKeys
<1>9. tx \in TestTxType /\ Assigns(tx) /\ tx.batch = b /\ tx.load = load
  BY <1>3, <1>6, <1>8 DEF TestTxType, Assigns
<1>10. owner.todo \subseteq Batches /\ owner.failed \subseteq Batches
  BY DEF TestDataInv, OwnerOK, OwnerChecks, OwnerSends
<1>11. c \in OwnerSends /\ c.step = "save" /\ c.todo = owner.todo /\ c.tx = tx
  BY <1>4, <1>9, <1>10 DEF OwnerSends
<1>12. newest \in [Batches -> Int] /\ told \in [Batches -> BOOLEAN] /\ load.k \in Int
  BY <1>8 DEF TestDataInv, TestDataTyped, LoadType
<1>13. /\ newest' \in [Batches -> Int] /\ newest'[b] = load.k
       /\ \A x \in Batches \ {b} : newest'[x] = newest[x]
  BY <1>5, <1>6, <1>12
<1>14. /\ told' \in [Batches -> BOOLEAN] /\ ~told'[b]
       /\ \A x \in Batches \ {b} : told'[x] = told[x]
  BY <1>5, <1>6, <1>12
<1>15. BatchesOK' /\ TestPoolOK'
  BY <1>5, <1>6, <1>8, <1>13, <1>14, OneSecretMoves
<1>16. TestDataTyped' /\ KeysOK'
  BY <1>5, <1>13, <1>14 DEF TestDataInv, TestDataTyped, KeysOK
<1>17. PublishedOK' /\ OwnersKeys' = OwnersKeys /\ ownerKey' = ownerKey
  BY <1>5, PublishedSame DEF TestDataInv, published
<1>18. YetToSave'
  <2>1. BatchOf' = b
    BY <1>1, <1>5, <1>11 DEF BatchOf
  <2>2. Decryptable(b, load)' /\ Unsent(b, load.k)'
    BY <1>5, <1>8, <1>17 DEF Decryptable, Unsent
  <2> QED
    BY <1>5, <1>9, <1>11, <1>13, <1>14, <2>1, <2>2 DEF YetToSave, Assigns
<1>19. OwnerOK'
  <2>1. HaveKeys(c.todo)'
    BY <1>5, <1>7, <1>11 DEF HaveKeys
  <2> QED
    BY <1>5, <1>7, <1>11, <1>17, <1>18, <2>1 DEF OwnerOK
<1> QED
  BY <1>15, <1>16, <1>17, <1>19 DEF TestDataInv

\* The file of the batch is written, or torn.
LEMMA SaveSecretStep == ASSUME TestDataInv, SavePrepared PROVE TestDataInv'
<1>1. PICK b : b = BatchOf
  OBVIOUS
<1>2. PICK tx : tx = owner.tx
  OBVIOUS
<1>3. PICK load : load = tx.load
  OBVIOUS
<1>4. /\ owner.step = "save" /\ SaveTestDataSecret(load)
      /\ UNCHANGED <<assigned, pool, encryptionKey, keyFile, keyLost, testSet, published, told,
                    newest>>
  BY <1>2, <1>3 DEF SavePrepared, onChain, auditorFiles, ghosts
<1>5. /\ owner.todo # {} /\ Assigns(tx) /\ tx.batch = b
      /\ Decryptable(b, load) /\ ~told[b]
      /\ newest[b] = load.k /\ Unsent(b, newest[b])
  BY <1>1, <1>2, <1>3, <1>4 DEF TestDataInv, OwnerOK, YetToSave
<1>6. b \in Batches
  BY <1>1, <1>5, BatchOfOK DEF TestDataInv
<1>7. owner \in OwnerSends
  BY <1>4 DEF TestDataInv, OwnerOK, OwnerChecks
<1>8. tx \in TestTxType /\ load \in LoadType
  BY <1>2, <1>3, <1>7 DEF OwnerSends, TestTxType
<1>9. secret \in [Batches -> [k : Int, data : Int]]
  BY DEF TestDataInv, TestDataTyped
<1>10. PICK s \in [k : Int, data : Int] :
         /\ secret' = [secret EXCEPT ![b] = s]
         /\ \/ s = SecretOf(load) /\ owner' = [owner EXCEPT !.step = "send"]
            \/ owner' = Idle
  <2>1. PICK w : w = SecretOf(load)
    OBVIOUS
  <2>2. PICK t : t = [k |-> Truncated, data |-> None]
    OBVIOUS
  <2>3. w \in [k : Int, data : Int] /\ t \in [k : Int, data : Int]
    BY <1>8, <2>1, <2>2, KeysAreNumbers DEF SecretOf, LoadType
  <2> QED
    BY <1>1, <1>4, <2>1, <2>2, <2>3 DEF SaveTestDataSecret
<1>11. /\ secret' \in [Batches -> [k : Int, data : Int]] /\ secret'[b] = s
       /\ \A x \in Batches \ {b} : secret'[x] = secret[x]
  BY <1>6, <1>9, <1>10
<1>12. BatchesOK' /\ TestPoolOK' /\ KeysKept /\ NoneToldAnew
  BY <1>4, <1>5, <1>6, <1>11, OneSecretMoves
<1>13. TestDataTyped' /\ KeysOK'
  BY <1>4, <1>11 DEF TestDataInv, TestDataTyped, KeysOK
<1>14. PublishedOK' /\ ownerKey' = ownerKey
  BY <1>4, PublishedSame DEF TestDataInv, published
<1>15. OwnerOK'
  <2>1. CASE owner' = Idle
    BY <2>1, OwnerIdles
  <2>2. CASE s = SecretOf(load) /\ owner' = [owner EXCEPT !.step = "send"]
    <3>1. PICK c : c = [owner EXCEPT !.step = "send"]
      OBVIOUS
    <3>2. /\ c \in OwnerSends /\ c.todo = owner.todo /\ c.tx = tx /\ c.step = "send"
          /\ c.name = owner.name
      BY <1>2, <1>7, <3>1 DEF OwnerSends
    <3>3. owner' = c
      BY <2>2, <3>1
    <3>4. SavedAs(b, load)'
      BY <1>11, <2>2 DEF SavedAs, SecretOf
    <3>5. Decryptable(b, load)'
      BY <1>5, <1>6, <1>12, DecryptableKept
    <3>6. TestTxOK(tx)'
      <4>1. Decryptable(tx.batch, tx.load)' /\ Kept(tx.batch, tx.load)'
        BY <1>3, <1>5, <3>4, <3>5 DEF Kept, Decryptable, SavedAs, OwnersKeys
      <4> QED
        BY <1>4, <1>5, <1>6, <4>1 DEF TestTxOK
    <3>7. SavedWhatItSends'
      <4>1. BatchOf' = b
        BY <1>1, <3>2, <3>3 DEF BatchOf
      <4>2. SavedAs(BatchOf, owner.tx.load)'
        BY <1>3, <3>2, <3>3, <3>4, <4>1 DEF SavedAs
      <4> QED
        BY <1>5, <3>2, <3>3, <4>1, <4>2 DEF SavedWhatItSends, Assigns
    <3>8. HaveKeys(c.todo)'
      BY <1>4, <3>2 DEF TestDataInv, OwnerOK, HaveKeys
    <3>9. owner.name \in {"create", "reassign"} => ownerKey'.file # None
      BY <1>14 DEF TestDataInv, OwnerOK
    <3> QED
      BY <3>2, <3>3, <3>6, <3>7, <3>8, <3>9 DEF OwnerOK
  <2> QED
    BY <1>10, <2>1, <2>2
<1> QED
  BY <1>12, <1>13, <1>14, <1>15 DEF TestDataInv

\* The manifest on chain is another.
LEMMA PublishStep == ASSUME TestDataInv, PublishManifest PROVE TestDataInv'
<1>1. /\ UNCHANGED <<assigned, pool, encryptionKey, keyFile, keyLost, testSet, told, owner>>
      /\ NoneSaved /\ ownerKey' = ownerKey
  BY DEF PublishManifest, onChain, auditorFiles, ghosts, NoneSaved
<1>2. PICK key \in {None, manifest.local} \ {Truncated} :
        manifest' = [manifest EXCEPT !.chain = key, !.current = FALSE]
  BY DEF PublishManifest
<1>3. /\ manifest \in [chain : Int, local : Int, current : BOOLEAN]
      /\ manifest.local \in OwnersKeys \cup {None, Truncated}
      /\ ownerKey \in [file : Int, lost : SUBSET Int]
  BY DEF TestDataInv, PublishedOK
<1>4. OwnersKeys' = OwnersKeys
  BY <1>1 DEF OwnersKeys
<1>5. key \in Int /\ key \in OwnersKeys \cup {None}
  BY <1>2, <1>3, KeysAreNumbers
<1>6. /\ manifest' \in [chain : Int, local : Int, current : BOOLEAN]
      /\ manifest'.chain = key /\ manifest'.local = manifest.local
  BY <1>2, <1>3, <1>5
<1>7. PublishedOK'
  BY <1>1, <1>3, <1>4, <1>5, <1>6 DEF PublishedOK
<1>8. testSet' \in Int
  BY <1>1 DEF TestDataInv, TestDataTyped
<1> QED
  BY <1>1, <1>4, <1>7, <1>8, NothingHappens

LEMMA LoseOwnerKeyStep == ASSUME TestDataInv, LoseOwnerKey PROVE TestDataInv'
<1>1. /\ UNCHANGED <<assigned, pool, encryptionKey, keyFile, keyLost, testSet, told, owner>>
      /\ NoneSaved /\ manifest' = manifest /\ owner = Idle
      /\ ownerKey' = [file |-> None, lost |-> ownerKey.lost \cup {ownerKey.file}]
  BY DEF LoseOwnerKey, onChain, auditorFiles, ghosts, NoneSaved
<1>2. ownerKey \in [file : Int, lost : SUBSET Int]
  BY DEF TestDataInv, PublishedOK
<1>3. ownerKey'.file = None /\ ownerKey'.lost = ownerKey.lost \cup {ownerKey.file}
  BY <1>1
<1>4. OwnersKeys' = OwnersKeys
  BY <1>3 DEF OwnersKeys
<1>5. ownerKey' \in [file : Int, lost : SUBSET Int]
  BY <1>1, <1>2, KeysAreNumbers
<1>6. PublishedOK'
  BY <1>1, <1>4, <1>5 DEF TestDataInv, PublishedOK
<1>7. testSet' \in Int
  BY <1>1 DEF TestDataInv, TestDataTyped
<1> QED
  BY <1>1, <1>4, <1>6, <1>7, NothingHappens

-----------------------------------------------------------------------------
(* The owner's next transaction is mined. *)

LEMMA PoolTail ==
    ASSUME TestPoolOK, pool # <<>>
    PROVE  /\ Head(pool) \in TestTxType /\ TestTxOK(Head(pool)) /\ Head(pool) = pool[1]
           /\ Tail(pool) \in Seq(TestTxType)
           /\ Len(pool) \in Nat /\ Len(Tail(pool)) = Len(pool) - 1
           /\ \A i \in 1..Len(Tail(pool)) : Tail(pool)[i] = pool[i + 1] /\ TestTxOK(Tail(pool)[i])
<1>1. pool \in Seq(TestTxType) /\ Len(pool) \in Nat /\ Len(pool) >= 1
  BY EmptySeq DEF TestPoolOK
<1>2. 1 \in 1..Len(pool)
  BY <1>1
<1>3. Head(pool) = pool[1]
  BY <1>1
<1>4. /\ Head(pool) \in TestTxType
      /\ Tail(pool) \in Seq(TestTxType) /\ Len(Tail(pool)) = Len(pool) - 1
      /\ \A i \in 1..Len(Tail(pool)) : Tail(pool)[i] = pool[i + 1]
  BY <1>1, HeadTailProperties
<1>5. \A i \in 1..Len(Tail(pool)) : TestTxOK(Tail(pool)[i])
  <2> TAKE i \in 1..Len(Tail(pool))
  <2>1. PICK n : n = Len(Tail(pool))
    OBVIOUS
  <2>2. i \in 1..n /\ n = Len(pool) - 1
    BY <1>4, <2>1
  <2>3. i + 1 \in 1..Len(pool)
    BY <1>1, <2>2
  <2> QED
    BY <1>4, <2>3 DEF TestPoolOK
<1> QED
  BY <1>1, <1>2, <1>3, <1>4, <1>5 DEF TestPoolOK

\* What the chain says of the batches after a transaction.
LEMMA ChainMoves ==
    ASSUME TestDataInv, NEW tx \in TestTxType, TestTxOK(tx), NEW ok \in BOOLEAN,
           IF ok THEN Execute(tx) ELSE UNCHANGED onChain
    PROVE  /\ assigned' \in [Batches -> LoadType]
           /\ \A b \in Batches :
                 assigned'[b] = IF ok /\ Assigns(tx) /\ b = tx.batch THEN tx.load ELSE assigned[b]
<1>1. assigned \in [Batches -> LoadType]
  BY DEF TestDataInv, TestDataTyped
<1>2. tx.load \in LoadType
  BY DEF TestTxType
<1>3. assigned' = IF ok /\ Assigns(tx) THEN [assigned EXCEPT ![tx.batch] = tx.load] ELSE assigned
  BY DEF Execute, onChain, Assigns
<1> QED
  BY <1>1, <1>2, <1>3 DEF TestTxOK

\* A batch after the step: what is on its chain is what was pending, and it is
\* told of only if that is what was saved.
LEMMA BatchMined ==
    ASSUME TestDataInv, NEW b \in Batches, NEW load,
           assigned'[b] = load,
           \/ load = assigned[b]
           \/ Decryptable(b, load) /\ Kept(b, load),
           told'[b] => secret[b].k = load.k /\ secret[b].data = load.data,
           NoneSaved, UNCHANGED <<keyFile, keyLost, published>>
    PROVE  OneBatchOK(b)'
<1>1. load # NoData => Kept(b, load) /\ Decryptable(b, load)
  <2>1. CASE load = assigned[b]
    BY <2>1 DEF TestDataInv, BatchesOK, OneBatchOK
  <2> QED
    BY <2>1
<1>2. load # NoData => Kept(b, load)' /\ Decryptable(b, load)'
  BY <1>1, PublishedSame DEF Decryptable, Kept, SavedAs, NoneSaved, TestDataInv
<1>3. assigned'[b] # NoData => Kept(b, assigned[b])' /\ Decryptable(b, assigned[b])'
  BY <1>1, <1>2 DEF Decryptable, Kept, SavedAs
<1> QED
  BY <1>3 DEF OneBatchOK, Answers, NoneSaved

LEMMA MineTestStep == ASSUME TestDataInv, MineTx PROVE TestDataInv'
<1>1. PICK tx : tx = Head(pool)
  OBVIOUS
<1>2. PICK ok \in BOOLEAN : ok = Accepted(tx)
  <2>1. tx.fn \in {"assign", "reassign", "resolve", "flag"}
    BY <1>1, PoolTail DEF MineTx, TestDataInv, TestTxType
  <2>2. Accepted(tx) \in BOOLEAN
    BY <2>1 DEF Accepted
  <2> QED
    BY <2>2
<1>3. /\ pool # <<>> /\ pool' = Tail(pool)
      /\ IF ok THEN Execute(tx) ELSE UNCHANGED onChain
      /\ IF owner.step = "wait" /\ Len(pool) = 1 THEN OnReceipt(ok)
         ELSE UNCHANGED <<owner, told>>
      /\ UNCHANGED <<encryptionKey, keyFile, keyLost, testSet, published>> /\ NoneSaved
  BY <1>1, <1>2 DEF MineTx, auditorFiles, NoneSaved
<1>4. /\ tx \in TestTxType /\ TestTxOK(tx) /\ tx = pool[1]
      /\ Tail(pool) \in Seq(TestTxType)
      /\ Len(pool) \in Nat /\ Len(Tail(pool)) = Len(pool) - 1
      /\ \A i \in 1..Len(Tail(pool)) : Tail(pool)[i] = pool[i + 1] /\ TestTxOK(Tail(pool)[i])
  BY <1>1, <1>3, PoolTail DEF TestDataInv
<1>5. /\ assigned' \in [Batches -> LoadType]
      /\ \A b \in Batches :
            assigned'[b] = IF ok /\ Assigns(tx) /\ b = tx.batch THEN tx.load ELSE assigned[b]
  BY <1>3, <1>4, ChainMoves
<1>6. KeysKept /\ PublishedOK' /\ ownerKey' = ownerKey
  BY <1>3, PublishedSame DEF KeysKept, TestDataInv, published
<1>7. KeysOK'
  BY <1>3 DEF TestDataInv, KeysOK
<1>8. \A b \in Batches : told[b] => secret[b].k = assigned[b].k /\ secret[b].data = assigned[b].data
  BY DEF TestDataInv, BatchesOK, OneBatchOK, Answers
<1>9. Assigns(tx) => /\ tx.batch \in Batches /\ Kept(tx.batch, tx.load)
                     /\ Decryptable(tx.batch, tx.load) /\ ~told[tx.batch]
  BY <1>4 DEF TestTxOK
<1>10. CASE ~(owner.step = "wait" /\ Len(pool) = 1)
  <2>1. owner' = owner /\ told' = told
    BY <1>3, <1>10
  <2>2. NoneToldAnew
    BY <2>1 DEF NoneToldAnew
  <2>3. BatchesOK'
    <3> SUFFICES ASSUME NEW b \in Batches PROVE OneBatchOK(b)'
      BY DEF BatchesOK
    <3>1. CASE ok /\ Assigns(tx) /\ b = tx.batch
      <4>1. assigned'[b] = tx.load /\ Decryptable(b, tx.load) /\ Kept(b, tx.load)
        BY <1>5, <1>9, <3>1
      <4>2. ~told'[b]
        BY <1>9, <2>1, <3>1
      <4> QED
        BY <1>3, <4>1, <4>2, BatchMined
    <3>2. CASE ~(ok /\ Assigns(tx) /\ b = tx.batch)
      <4>1. PICK load : load = assigned[b]
        OBVIOUS
      <4>2. assigned'[b] = load
        BY <1>5, <3>2, <4>1
      <4>3. told'[b] => secret[b].k = load.k /\ secret[b].data = load.data
        BY <1>8, <2>1, <4>1
      <4> QED
        BY <1>3, <4>1, <4>2, <4>3, BatchMined
    <3> QED
      BY <3>1, <3>2
  <2>4. TestPoolOK'
    <3>1. PICK q : q = Tail(pool)
      OBVIOUS
    <3>2. q \in Seq(TestTxType) /\ \A i \in 1..Len(q) : TestTxOK(q[i])
      BY <1>4, <3>1
    <3>3. \A i \in 1..Len(q) : TestTxOK(q[i])'
      <4> TAKE i \in 1..Len(q)
      <4>1. PICK x : x = q[i]
        OBVIOUS
      <4>2. TestTxOK(x)'
        BY <1>3, <1>6, <2>2, <3>2, <4>1, TxKept
      <4> QED
        BY <4>1, <4>2
    <3> QED
      BY <1>3, <3>1, <3>2, <3>3 DEF TestPoolOK
  <2>5. owner.step = "wait" => pool' # <<>> /\ pool'[Len(pool')] = owner.tx
    <3> SUFFICES ASSUME owner.step = "wait"
                 PROVE  pool' # <<>> /\ pool'[Len(pool')] = owner.tx
      OBVIOUS
    <3>1. pool[Len(pool)] = owner.tx /\ Len(pool) # 1
      BY <1>10 DEF TestDataInv, OwnerOK
    <3>2. PICK n : n = Len(Tail(pool))
      OBVIOUS
    <3>3. n = Len(pool) - 1 /\ n \in Nat /\ n # 0
      <4>1. pool \in Seq(TestTxType)
        BY DEF TestDataInv, TestPoolOK
      <4>2. Len(pool) # 0
        BY <1>3, <4>1, EmptySeq
      <4> QED
        BY <1>4, <3>1, <3>2, <4>2
    <3>4. n \in 1..n /\ n + 1 = Len(pool)
      BY <1>4, <3>3
    <3>5. Tail(pool)[n] = pool[n + 1]
      BY <1>4, <3>2, <3>4
    <3>6. Tail(pool) # <<>>
      BY <1>4, <3>2, <3>3, EmptySeq
    <3> QED
      BY <1>3, <3>1, <3>2, <3>4, <3>5, <3>6
  <2>6. PICK b : b = BatchOf
    OBVIOUS
  <2>7. ASSUME owner.step = "save" PROVE Unsent(b, newest[b])'
    <3>1. PICK k : k = newest[b]
      OBVIOUS
    <3>2. Unsent(b, k) /\ b \in Batches
      BY <2>6, <2>7, <3>1, BatchOfOK DEF TestDataInv, OwnerOK, YetToSave
    <3>3. assigned'[b].k # k
      <4>1. 1 \in 1..Len(pool)
        BY <1>3, <1>4, EmptySeq DEF TestDataInv, TestPoolOK
      <4>2. Assigns(tx) /\ tx.batch = b => tx.load.k # k
        BY <1>4, <3>2, <4>1 DEF Unsent
      <4> QED
        BY <1>5, <3>2, <4>2 DEF Unsent
    <3>4. PICK q : q = Tail(pool)
      OBVIOUS
    <3>5. ASSUME NEW i \in 1..Len(q), Assigns(q[i]), q[i].batch = b PROVE q[i].load.k # k
      <4>1. i + 1 \in 1..Len(pool) /\ q[i] = pool[i + 1]
        BY <1>4, <3>4
      <4> QED
        BY <3>2, <3>5, <4>1 DEF Unsent
    <3>6. Unsent(b, k)'
      BY <1>3, <3>3, <3>4, <3>5 DEF Unsent
    <3> QED
      BY <1>3, <3>1, <3>6 DEF NoneSaved
  <2>8. OwnerOK'
    BY <1>3, <1>6, <2>1, <2>2, <2>5, <2>6, <2>7, OwnerKept DEF TestDataInv
  <2>9. TestDataTyped'
    BY <1>3, <1>5, <2>1 DEF TestDataInv, TestDataTyped, NoneSaved
  <2> QED
    BY <1>6, <1>7, <2>3, <2>4, <2>8, <2>9 DEF TestDataInv
<1>11. CASE owner.step = "wait" /\ Len(pool) = 1
  <2>1. OnReceipt(ok)
    BY <1>3, <1>11
  <2>2. tx = owner.tx /\ SavedWhatItSends
    BY <1>4, <1>11 DEF TestDataInv, OwnerOK
  <2>3. /\ told' \in [Batches -> BOOLEAN]
        /\ \A b \in Batches : told'[b] = IF owner.todo # {} /\ b = BatchOf THEN ok ELSE told[b]
    BY <2>1, OnReceiptTold DEF TestDataInv
  <2>4. /\ owner.todo # {} <=> Assigns(tx)
        /\ owner.todo # {} => /\ tx.batch = BatchOf
                              /\ secret[BatchOf].k = tx.load.k
                              /\ secret[BatchOf].data = tx.load.data
    BY <2>2 DEF SavedWhatItSends, SavedAs
  <2>5. BatchesOK'
    <3> SUFFICES ASSUME NEW b \in Batches PROVE OneBatchOK(b)'
      BY DEF BatchesOK
    <3>1. CASE ok /\ Assigns(tx) /\ b = tx.batch
      <4>1. assigned'[b] = tx.load /\ Decryptable(b, tx.load) /\ Kept(b, tx.load)
        BY <1>5, <1>9, <3>1
      <4>2. secret[b].k = tx.load.k /\ secret[b].data = tx.load.data
        BY <2>4, <3>1
      <4> QED
        BY <1>3, <4>1, <4>2, BatchMined
    <3>2. CASE ~(ok /\ Assigns(tx) /\ b = tx.batch)
      <4>1. PICK load : load = assigned[b]
        OBVIOUS
      <4>2. assigned'[b] = load
        BY <1>5, <3>2, <4>1
      <4>3. told'[b] => told[b]
        BY <2>3, <2>4, <3>2
      <4>4. told'[b] => secret[b].k = load.k /\ secret[b].data = load.data
        BY <1>8, <4>1, <4>3
      <4> QED
        BY <1>3, <4>1, <4>2, <4>4, BatchMined
    <3> QED
      BY <3>1, <3>2
  <2>6. TestPoolOK'
    <3>1. Len(Tail(pool)) = 0
      BY <1>4, <1>11
    <3> QED
      BY <1>3, <1>4, <3>1 DEF TestPoolOK
  <2>7. OwnerOK'
    BY <1>3, <1>6, <1>11, <2>1, OnReceiptOwner DEF TestDataInv
  <2>8. TestDataTyped'
    BY <1>3, <1>5, <2>3 DEF TestDataInv, TestDataTyped, NoneSaved
  <2> QED
    BY <1>6, <1>7, <2>5, <2>6, <2>7, <2>8 DEF TestDataInv
<1> QED
  BY <1>10, <1>11

LEMMA TestQuietStep ==
    ASSUME TestDataInv,
           \/ StartEvaluation \/ ReplaceTestSet \/ UNCHANGED vars
           \/ \E b \in Batches : \/ WindowPasses(b) \/ CloseExpired(b)
                                 \/ \E a \in Auditors : \/ DisputeTestData(a, b)
                                                        \/ DecryptTestData(a, b)
    PROVE  TestDataInv'
<1>1. UNCHANGED <<assigned, pool, encryptionKey, keyFile, keyLost, told, owner, published>>
  BY DEF StartEvaluation, ReplaceTestSet, WindowPasses, CloseExpired, DisputeTestData,
         DecryptTestData, vars, onChain, auditorFiles, ghosts, published
<1>2. NoneSaved
  BY DEF StartEvaluation, ReplaceTestSet, WindowPasses, CloseExpired, DisputeTestData,
         DecryptTestData, vars, ghosts, NoneSaved
<1>3. testSet' = testSet \/ testSet' \in Datasets
  BY DEF StartEvaluation, ReplaceTestSet, WindowPasses, CloseExpired, DisputeTestData,
         DecryptTestData, vars
<1>4. testSet' \in Int
  BY <1>3, KeysAreNumbers DEF TestDataInv, TestDataTyped
<1>5. PublishedOK' /\ OwnersKeys' = OwnersKeys /\ ownerKey' = ownerKey
  BY <1>1, PublishedSame DEF TestDataInv, published
<1> QED
  BY <1>1, <1>2, <1>4, <1>5, NothingHappens

LEMMA TestDataStep == ASSUME TestDataInv, [TestDataNext]_vars PROVE TestDataInv'
<1>1. CASE MineTx \/ SendPrepared \/ ReceiptTimesOut \/ OwnerKilled
  BY <1>1, MineTestStep, SendStep, TimeoutStep, KilledStep
<1>2. CASE \/ CreateTestDataset \/ SetTestDataAssignedFlag
           \/ SavePrepared \/ PublishManifest \/ LoseOwnerKey
  BY <1>2, CreateStep, FlagStep, SaveSecretStep, PublishStep, LoseOwnerKeyStep
<1>3. CASE AssignBatch \/ ReassignBatch
  <2>1. CASE AssignBatch
    <3>1. PrepareBatch("create", "assign")
      BY <2>1 DEF AssignBatch
    <3> QED
      BY <3>1, PrepareStep
  <2>2. CASE ReassignBatch
    <3>1. PrepareBatch("reassign", "reassign")
      BY <2>2 DEF ReassignBatch
    <3> QED
      BY <3>1, PrepareStep
  <2> QED
    BY <1>3, <2>1, <2>2
<1>4. CASE StartEvaluation \/ ReplaceTestSet \/ UNCHANGED vars
  BY <1>4, TestQuietStep
<1>5. ASSUME NEW b \in Batches,
             \/ WindowPasses(b) \/ ResolveTestData(b) \/ CloseExpired(b) \/ ReassignTestData(b)
             \/ \E a \in Auditors : DisputeTestData(a, b) \/ DecryptTestData(a, b)
      PROVE  TestDataInv'
  <2>1. CASE ResolveTestData(b) \/ ReassignTestData(b)
    BY <2>1, ResolveTestStep, ReassignStep
  <2> QED
    BY <1>5, <2>1, TestQuietStep
<1>6. CASE \E a \in Auditors : RegisterEncryptionKey(a) \/ LoseKeyFile(a)
  BY <1>6, RegisterStep, LoseStep
<1> QED
  BY <1>1, <1>2, <1>3, <1>4, <1>5, <1>6 DEF TestDataNext

LEMMA TestDataInitOK == ASSUME TestDataInit PROVE TestDataInv
<1>1. TestDataTyped
  BY NoDataTyped, KeysAreNumbers DEF TestDataInit, TestDataTyped
<1>2. KeysOK
  BY DEF TestDataInit, KeysOK
<1>3. BatchesOK
  BY DEF TestDataInit, BatchesOK, OneBatchOK
<1>4. TestPoolOK
  BY DEF TestDataInit, TestPoolOK
<1>5. OwnerOK
  BY IdleOwner DEF TestDataInit, OwnerOK, HaveKeys
<1>6. PublishedOK
  BY KeysAreNumbers DEF TestDataInit, PublishedOK
<1> QED
  BY <1>1, <1>2, <1>3, <1>4, <1>5, <1>6 DEF TestDataInv

-----------------------------------------------------------------------------
(* The theorems. *)

\* What is on its way to the chain, or there, can be opened by the auditors it is for
\* unless a key was lost, and the newest of it is in the owner's file once it was saved
\* (create_testdataset, reassign_test_data and register_encryption_key of dincli).
THEOREM TestDataConsistent == TestDataSpec => []TestDataInv
<1>1. TestDataInit => TestDataInv
  BY TestDataInitOK
<1>2. TestDataInv /\ [TestDataNext]_vars => TestDataInv'
  BY TestDataStep
<1> QED
  BY <1>1, <1>2, PTL DEF TestDataSpec

\* Once an assignment ended with its receipt the owner's file answers a dispute,
\* for any number of earlier attempts that were given up and wait in the pool:
\* the nonces put them before it (create_testdataset, resolve_test_data).
THEOREM ReceiptsCanBeRelied == TestDataSpec => []ReceiptMeansAnswerable
<1>1. TestDataInv => ReceiptMeansAnswerable
  BY DEF TestDataInv, BatchesOK, OneBatchOK, ReceiptMeansAnswerable
<1> QED
  BY <1>1, TestDataConsistent, PTL

\* The file is rewritten in place, yet a commitment on the chain that is the newest
\* attempt's can always be answered: its transaction was sent only
\* after the whole file was written, and only a newer attempt touches that file again
\* (_save_testdata_secret).
THEOREM NewestCanBeAnswered == TestDataSpec => []NewestCommitmentHasKey
<1>1. TestDataInv => NewestCommitmentHasKey
  BY DEF TestDataInv, BatchesOK, OneBatchOK, Kept, SavedAs, Answers, NewestCommitmentHasKey
<1> QED
  BY <1>1, TestDataConsistent, PTL

\* Every auditor of a batch can open what was assigned to it unless a key file was
\* lost, its own or the owner's, or the manifest on chain has no key of the owner:
\* registering keeps the file that exists, and so does the owner's key loading
\* (register_encryption_key, _load_owner_x25519_key).
THEOREM AuditorsCanDecrypt == TestDataSpec => []MembersCanDecrypt
<1>1. ASSUME TestDataInv, NEW b \in Batches, assigned[b] # NoData, NEW a \in Members[b],
             ~keyLost[a], {assigned[b].by, manifest.chain} \cap ownerKey.lost = {},
             manifest.chain # None
      PROVE  CanDecrypt(a, b)
  <2>1. Decryptable(b, assigned[b])
    BY <1>1 DEF TestDataInv, BatchesOK, OneBatchOK
  <2>2. assigned[b].by = manifest.chain
    BY <1>1, <2>1 DEF Decryptable, OwnersKeys, TestDataInv, PublishedOK
  <2> QED
    BY <1>1, <2>1, <2>2 DEF Decryptable, CanDecrypt
<1>2. TestDataInv => MembersCanDecrypt
  BY <1>1 DEF MembersCanDecrypt
<1> QED
  BY <1>2, TestDataConsistent, PTL
=============================================================================
