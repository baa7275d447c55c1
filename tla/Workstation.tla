---------------------------- MODULE Workstation ----------------------------
(***************************************************************************)
(* The files under dincli's configuration directory: config.json, one      *)
(* wallet file per name, and the commands that read and write them from    *)
(* the terminals of one user.  Nothing is locked: a command reads a file,  *)
(* asks the user, and writes later; it may be killed at any step.          *)
(*                                                                         *)
(* A wallet is written to one temporary file per name, which then replaces *)
(* it; config.json is truncated and rewritten in place, and read as an     *)
(* empty configuration while it is not whole.                              *)
(***************************************************************************)
EXTENDS Integers, FiniteSets

CONSTANTS
    Terminals,    \* shells of one user
    Names,        \* wallet names; "default" is one of them
    Networks,     \* the networks of the configuration, "local" among them
    Commands,     \* the commands that are run
    MaxCommands,  \* bound: commands that begin
    MaxKills      \* bound: commands that are killed

AllCommands == {"sign", "init", "configure-network", "configure-demo", "configure-logging",
                "configure-ipfs", "register", "connect", "set-wallet", "connect-demo",
                "reconnect-demo", "reset-all"}
NoName == "none"

ASSUME WorkstationAssumption ==
    /\ "default" \in Names /\ "local" \in Networks /\ NoName \notin Names
    /\ Commands \subseteq AllCommands
    /\ MaxCommands \in Nat /\ MaxKills \in Nat

VARIABLES
    config,    \* config.json: is it there and whole, and what it says
    wallet,    \* per name: the wallet file
    tmp,       \* per name: the temporary file
    cmd,       \* per terminal: the command it runs
    begun,     \* how many commands began; it also tells their keys apart
    kills,
    overlapped \* names whose wallet two commands were writing at a time

workVars == <<config, wallet, tmp, cmd, begun, kills, overlapped>>

NoFile == [lane |-> "absent", key |-> 0]
Torn == [lane |-> "torn", key |-> 0]
Wallet(lane, key) == [lane |-> lane, key |-> key]

\* A configuration that says nothing; what load_config returns for a missing
\* or an undecodable file.
Empty == [wallet |-> NoName, demo |-> FALSE, network |-> "local", ipfs |-> "env"]
load_config == IF config.state = "whole" THEN config.says ELSE Empty

\* get_config("log_level") has no bearing on anything here and is left out.
NoCommand == [name |-> "none", step |-> "idle", on |-> NoName, sets |-> "", key |-> 0,
              connect |-> FALSE, data |-> Empty,
              fd |-> "none", account |-> NoFile, network |-> "", signed |-> {}]

WorkInit ==
    /\ config = [state |-> "absent", says |-> Empty]
    /\ wallet = [n \in Names |-> NoFile]
    /\ tmp = [n \in Names |-> NoFile]
    /\ cmd = [t \in Terminals |-> NoCommand]
    /\ begun = 0 /\ kills = 0
    /\ overlapped = {}

At(t, step) == cmd[t].step = step
Goes(t, step) == cmd' = [cmd EXCEPT ![t].step = step]
Ends(t) == cmd' = [cmd EXCEPT ![t] = NoCommand]
FilesStay == UNCHANGED <<config, wallet, tmp, overlapped>>
CountsStay == UNCHANGED <<begun, kills>>

\* The commands, with the step each begins at.
FirstStep(c) ==
    CASE c = "sign" -> "resolve"
      [] c = "init" -> "init"
      [] c \in {"configure-network", "configure-demo", "configure-logging",
                "configure-ipfs"} -> "load"
      [] c \in {"register", "connect-demo"} -> "mode"
      [] c \in {"connect", "set-wallet"} -> "check"
      [] c = "reconnect-demo" -> "lane"
      [] c = "reset-all" -> "remove"

Begin(t, c) ==
    /\ cmd[t] = NoCommand /\ begun < MaxCommands
    /\ begun' = begun + 1
    /\ \E n \in Names, s \in Networks \cup {"on", "off", "filebase", "custom", "info"} :
        \E connects \in IF c = "register" THEN BOOLEAN ELSE {TRUE} :
           /\ c = "configure-network" => s \in Networks
           /\ c = "configure-demo" => s \in {"on", "off"}
           /\ c = "configure-ipfs" => s \in {"filebase", "custom"}
           /\ c \notin {"configure-network", "configure-demo", "configure-ipfs"} =>
                s = "info"
           /\ cmd' = [cmd EXCEPT ![t] =
                  [NoCommand EXCEPT !.name = c, !.step = FirstStep(c), !.on = n, !.sets = s,
                               !.key = begun + 1, !.connect = connects]]
    /\ UNCHANGED kills /\ FilesStay

-----------------------------------------------------------------------------
(* config.json. *)

LoadConfig(t) ==
    /\ At(t, "load")
    /\ cmd' = [cmd EXCEPT ![t].data = load_config, ![t].step = "truncate"]
    /\ FilesStay /\ CountsStay

\* What each command changes in the configuration it loaded.
configure_network(d, s) == [d EXCEPT !.network = s]
configure_demo(d, s) == [d EXCEPT !.demo = (s = "on")]
configure_ipfs(d, s) == [d EXCEPT !.ipfs = s]
configure_logging(d) == d
connects_to(d, n) == [d EXCEPT !.wallet = n]

Changed(c) ==
    CASE c.name = "configure-network" -> configure_network(c.data, c.sets)
      [] c.name = "configure-demo" -> configure_demo(c.data, c.sets)
      [] c.name = "configure-ipfs" -> configure_ipfs(c.data, c.sets)
      [] c.name = "configure-logging" -> configure_logging(c.data)
      [] OTHER -> connects_to(c.data, c.on)

\* open(.., "w") truncates; a reader that comes now loads an empty configuration.
TruncateConfig(t) ==
    /\ At(t, "truncate")
    /\ config' = [config EXCEPT !.state = "empty"]
    /\ Goes(t, "save")
    /\ UNCHANGED <<wallet, tmp, overlapped>> /\ CountsStay

\* What is written after another command has written too may be undecodable;
\* what is written to a removed file is gone.
save_config(t) ==
    /\ At(t, "save")
    /\ CASE config.state = "absent" -> UNCHANGED config
         [] config.state = "empty" -> config' = [state |-> "whole", says |-> Changed(cmd[t])]
         [] OTHER -> \E s \in {"whole", "empty"} :
                         config' = [state |-> s, says |-> Changed(cmd[t])]
    /\ Ends(t)
    /\ UNCHANGED <<wallet, tmp, overlapped>> /\ CountsStay

\* init writes a configuration only where there is none.
Initialize(t) ==
    /\ At(t, "init")
    /\ config' = IF config.state = "absent" THEN [state |-> "whole", says |-> Empty]
                 ELSE config
    /\ Ends(t)
    /\ UNCHANGED <<wallet, tmp, overlapped>> /\ CountsStay

-----------------------------------------------------------------------------
(* Wallet files. *)

\* register-wallet refuses in demo mode, connect-demo-wallet out of it.
CheckDemoMode(t) ==
    /\ At(t, "mode")
    /\ IF load_config.demo = (cmd[t].name = "register")
       THEN Ends(t)
       ELSE Goes(t, IF cmd[t].name = "reconnect-demo" THEN "check" ELSE "guard")
    /\ FilesStay /\ CountsStay

\* Reconnecting by name refuses a real wallet before it looks at the mode.
IsExistingRealWallet(n) == wallet[n].lane = "real"
RefuseRealWallet(t) ==
    /\ At(t, "lane")
    /\ IF IsExistingRealWallet(cmd[t].on) THEN Ends(t) ELSE Goes(t, "mode")
    /\ FilesStay /\ CountsStay

\* Overwriting a wallet is confirmed, by the prompt or with --yes; what the user
\* types next (a passphrase, a key, a password) may also be refused.
OverwriteGuard(t) ==
    /\ At(t, "guard")
    /\ \/ Goes(t, "secret")
       \/ wallet[cmd[t].on] # NoFile /\ Ends(t)
    /\ FilesStay /\ CountsStay

ReadSecret(t) ==
    /\ At(t, "secret")
    /\ \/ Goes(t, "open")
       \/ Ends(t)
    /\ FilesStay /\ CountsStay

Contents(t) == Wallet(IF cmd[t].name = "register" THEN "real" ELSE "demo", cmd[t].key)

\* Terminals that are writing the wallet of a name.
Writing(n) == {t \in Terminals : cmd[t].on = n /\ cmd[t].step \in {"dump", "replace"}}

OpenInPlace(t) ==
    /\ At(t, "open")
    /\ wallet' = [wallet EXCEPT ![cmd[t].on] = Torn]
    /\ cmd' = [cmd EXCEPT ![t].step = "dump", ![t].fd = "final"]
    /\ overlapped' = IF Writing(cmd[t].on) = {} THEN overlapped
                     ELSE overlapped \cup {cmd[t].on}
    /\ UNCHANGED <<config, tmp>> /\ CountsStay

\* Opening the temporary file truncates it, also under another command's hands.
OpenTmp(t) ==
    LET n == cmd[t].on
    IN  /\ At(t, "open")
        /\ tmp' = [tmp EXCEPT ![n] = Torn]
        /\ cmd' = [cmd EXCEPT ![t].step = "dump", ![t].fd = "tmp"]
        /\ overlapped' = IF Writing(n) = {} THEN overlapped ELSE overlapped \cup {n}
        /\ UNCHANGED <<config, wallet>> /\ CountsStay

\* The descriptor follows the file: when another command's os.replace has put it
\* in place, this writes the wallet file itself, and what was removed is written
\* in vain.  Two texts in one file are torn unless one covers the other.
DumpWallet(t) ==
    LET n == cmd[t].on
        into == IF cmd[t].fd = "tmp" THEN tmp[n] ELSE wallet[n]
    IN  /\ At(t, "dump")
        /\ \E w \in IF into = Torn THEN {Contents(t)} ELSE {Contents(t), Torn} :
               /\ tmp' = IF cmd[t].fd = "tmp" THEN [tmp EXCEPT ![n] = w] ELSE tmp
               /\ wallet' = IF cmd[t].fd = "final" THEN [wallet EXCEPT ![n] = w] ELSE wallet
        /\ cmd' = [cmd EXCEPT ![t].step = "replace", ![t].fd = "none"]
        /\ UNCHANGED <<config, overlapped>> /\ CountsStay

\* The commands whose open descriptor is on the temporary file of a name.
Holding(n, fd) == {u \in Terminals : cmd[u].on = n /\ cmd[u].fd = fd}

\* os.replace: the temporary file becomes the wallet, with every descriptor on
\* it.  Another command may have moved it away: the write fails, and nothing is
\* connected.
ReplaceWallet(t) ==
    LET n == cmd[t].on
        there == tmp[n] # NoFile
    IN  /\ At(t, "replace")
        /\ wallet' = IF there THEN [wallet EXCEPT ![n] = tmp[n]] ELSE wallet
        /\ tmp' = [tmp EXCEPT ![n] = NoFile]
        /\ cmd' = [u \in Terminals |->
              CASE u = t -> [cmd[t] EXCEPT !.step = "clean up", !.connect = @ /\ there]
                [] u # t /\ there /\ u \in Holding(n, "tmp") -> [cmd[u] EXCEPT !.fd = "final"]
                [] u # t /\ there /\ u \in Holding(n, "final") -> [cmd[u] EXCEPT !.fd = "gone"]
                [] OTHER -> cmd[u]]
        /\ UNCHANGED <<config, overlapped>> /\ CountsStay

\* What follows a written wallet: the connection to it, if it was asked for.
AfterWrite(t) ==
    IF cmd[t].connect THEN [cmd[t] EXCEPT !.step = "check"] ELSE NoCommand

\* The temporary file that is there now is removed, whoever opened it.
RemoveTmp(t) ==
    LET n == cmd[t].on
    IN  /\ At(t, "clean up")
        /\ tmp' = [tmp EXCEPT ![n] = NoFile]
        /\ cmd' = [u \in Terminals |->
              CASE u = t -> AfterWrite(t)
                [] u # t /\ u \in Holding(n, "tmp") -> [cmd[u] EXCEPT !.fd = "gone"]
                [] OTHER -> cmd[u]]
        /\ UNCHANGED <<config, wallet, overlapped>> /\ CountsStay

\* The lane a command asks of the wallet it connects; register --connect asks
\* for none.
RightLane(t) ==
    CASE cmd[t].name \in {"connect", "set-wallet"} -> wallet[cmd[t].on].lane # "demo"
      [] cmd[t].name \in {"connect-demo", "reconnect-demo"} -> wallet[cmd[t].on].lane = "demo"
      [] OTHER -> TRUE

\* connect-wallet and the rest of connect-demo-wallet: the wallet must be there
\* and in the right lane, then the configuration is loaded and saved.
ConnectRegisteredWallet(t) ==
    /\ At(t, "check")
    /\ IF wallet[cmd[t].on] # NoFile /\ RightLane(t) THEN Goes(t, "load") ELSE Ends(t)
    /\ FilesStay /\ CountsStay

-----------------------------------------------------------------------------
(* A command that signs. *)

\* The name a command signs with: --wallet (here: on, when it is not connected
\* through the configuration), then the configuration, then "default".
get_active_account_name(t, overrides) ==
    IF overrides THEN cmd[t].on
    ELSE IF load_config.wallet # NoName THEN load_config.wallet
    ELSE "default"

\* The wallet is loaded once, decrypted if it is real, and kept for the run.
ResolveAccount(t) ==
    /\ At(t, "resolve")
    /\ \E overrides \in BOOLEAN :
          LET file == wallet[get_active_account_name(t, overrides)]
          IN  IF file.lane \in {"real", "demo"}
              THEN \/ cmd' = [cmd EXCEPT ![t].account = file, ![t].step = "network",
                                         ![t].sets = IF overrides THEN "override" ELSE ""]
                   \/ file.lane = "real" /\ Ends(t)   \* wrong password
              ELSE Ends(t)
    /\ FilesStay /\ CountsStay

\* The network is resolved once, and refused when its node is on another chain.
ResolveNetwork(t) ==
    /\ At(t, "network")
    /\ \/ cmd' = [cmd EXCEPT ![t].network = load_config.network, ![t].step = "sign"]
       \/ Ends(t)
    /\ FilesStay /\ CountsStay

\* The account and the network of a signature: the ones the context keeps, not
\* what the files say by now.
AccountAgain(t) ==
    LET file == wallet[get_active_account_name(t, cmd[t].sets = "override")]
    IN  IF file.lane \in {"real", "demo"} THEN file ELSE cmd[t].account
Account(t) == cmd[t].account

SignTransaction(t) ==
    /\ At(t, "sign")
    /\ \/ cmd' = [cmd EXCEPT ![t].signed = @ \cup {<<Account(t), cmd[t].network>>}]
       \/ Ends(t)
    /\ FilesStay /\ CountsStay

-----------------------------------------------------------------------------
\* reset-all --config removes the directory, unless the user says no.
ResetAll(t) ==
    /\ At(t, "remove")
    /\ \/ /\ config' = [state |-> "absent", says |-> Empty]
          /\ wallet' = [n \in Names |-> NoFile]
          /\ tmp' = [n \in Names |-> NoFile]
          /\ cmd' = [u \in Terminals |->
                IF u = t THEN NoCommand
                ELSE IF cmd[u].fd # "none" THEN [cmd[u] EXCEPT !.fd = "gone"] ELSE cmd[u]]
       \/ Ends(t) /\ UNCHANGED <<config, wallet, tmp>>
    /\ UNCHANGED overlapped /\ CountsStay

\* A killed command leaves its files as they are.
Kill(t) ==
    /\ cmd[t] # NoCommand /\ kills < MaxKills
    /\ kills' = kills + 1
    /\ Ends(t)
    /\ UNCHANGED begun /\ FilesStay

WorkStep(t) ==
    \/ LoadConfig(t) \/ TruncateConfig(t) \/ save_config(t) \/ Initialize(t)
    \/ CheckDemoMode(t) \/ RefuseRealWallet(t) \/ OverwriteGuard(t) \/ ReadSecret(t)
    \/ OpenTmp(t) \/ DumpWallet(t) \/ ReplaceWallet(t) \/ RemoveTmp(t)
    \/ ConnectRegisteredWallet(t)
    \/ ResolveAccount(t) \/ ResolveNetwork(t) \/ SignTransaction(t) \/ ResetAll(t)
    \/ Kill(t)

WorkNext == \E t \in Terminals : WorkStep(t) \/ \E c \in Commands : Begin(t, c)

WorkSpec == WorkInit /\ [][WorkNext]_workVars

-----------------------------------------------------------------------------
(* Properties. *)

\* One invocation signs with one wallet on one network, the ones it printed at
\* its start, whatever the other terminals connect, configure, overwrite or
\* remove while it runs.
OneInvocationOneWallet == \A t \in Terminals : Cardinality(cmd[t].signed) <= 1

\* A wallet file is never half written, wherever a command is killed: only two
\* commands that write the same name at a time can tear it.
TornOnlyByOverlap == \A n \in Names : wallet[n] = Torn => n \in overlapped

=============================================================================
