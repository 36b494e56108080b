----------------------------- MODULE VaultSetup -----------------------------
(***************************************************************************)
(* Setting up a vault with the tesaurus command line: init-config, keys    *)
(* generate, init-vault, address and import-watch (src/bin/tesaurus.rs),   *)
(* over the files they write (src/keys.rs, src/wallet.rs) and the watch    *)
(* wallet in Bitcoin Core (src/rpc.rs).                                    *)
(*                                                                         *)
(* Commands run as processes that share the files without a lock.  A step  *)
(* is one system call or RPC that another process, or a kill, can separate *)
(* from the next.  A command that returns an error ends; so does one that  *)
(* is killed or meets an I/O error, and both leave the files as they are.  *)
(* Every configuration names the same state_path; files are private to the *)
(* operator and no symlinks.                                               *)
(***************************************************************************)
EXTENDS Vault

CONSTANTS
    Procs,      \* command processes
    Configs,    \* configurations the operator may write
    Example,    \* the configuration that init-config writes
    CoreNetwork,\* the chain of the Bitcoin Core node
    MaxTrouble, \* bound on kills, Core restarts, edits and stray commands
    Absent,     \* no such file
    Torn,       \* a file that is empty or half written
    None        \* nothing in a process's memory

ConfigsAccepted == {c \in Configs : ConfigAccepted(c) /\ HasAuth(c.bitcoin)}

ASSUME ExampleAssumption ==
    /\ Example \in ConfigsAccepted
    /\ Example.bitcoin.network = CoreNetwork

\* A fresh random key, named by the directory it goes to and the process that
\* draws it.  Of all draws of a process for one file only the first is written.
Key == [dir : KeysDirs, by : Procs]
KeySet == [Roles -> Key]

VaultStates == [keys : KeySet, csv_blocks : CsvRange, network : Research]

ASSUME SetupSentinels ==
    /\ Absent # Torn
    /\ {Absent, Torn} \cap (Configs \cup Key \cup VaultStates) = {}
    /\ None \notin VaultStates \cup Configs
    /\ \A c \in Configs : c.keys_dir \in KeysDirs \cup {NoPath}
    /\ NoPath \notin KeysDirs
    /\ MaxTrouble \in Nat

VARIABLES
    config,     \* tesaurus.toml
    files,      \* the WIF files of each keys_dir, by role
    state,      \* vault.json
    wallet,     \* the watch wallet in Core: "absent", "unloaded" or "loaded"
    watched,    \* vaults whose descriptor is imported into it
    at,         \* the next step of each process, "idle" when it runs nothing
    cfg,        \* the configuration a process has loaded
    role,       \* the file that keys generate is about to write
    vault,      \* the vault a process has built or loaded
    announced,  \* history: keys that keys generate printed
    printed,    \* history: vaults whose address was printed
    trouble     \* kills, restarts, edits and stray commands so far

disk == <<config, files, state>>
core == <<wallet, watched>>
procs == <<at, cfg, role, vault>>
shown == <<announced, printed>>
vars == <<disk, core, procs, shown, trouble>>

Steps == {"createConfig", "truncateConfig", "writeConfig", "createKey", "writeKey",
          "loadKeys", "truncateState", "writeState",
          "loadWallet", "createWallet", "reloadWallet", "import"}

Init ==
    /\ config = Absent
    /\ files = [d \in KeysDirs |-> [r \in Roles |-> Absent]]
    /\ state = Absent
    /\ wallet = "absent" /\ watched = {}
    /\ at = [p \in Procs |-> "idle"]
    /\ cfg = [p \in Procs |-> None]
    /\ role = [p \in Procs |-> Primary]
    /\ vault = [p \in Procs |-> None]
    /\ announced = {} /\ printed = {}
    /\ trouble = 0

Goto(p, step) == at' = [at EXCEPT ![p] = step]

\* The process ends, with what it had in memory.
End(p) ==
    /\ Goto(p, "idle")
    /\ cfg' = [cfg EXCEPT ![p] = None]
    /\ role' = [role EXCEPT ![p] = Primary]
    /\ vault' = [vault EXCEPT ![p] = None]

Continue(p, step) == Goto(p, step) /\ UNCHANGED <<cfg, role, vault>>

\* Config::load: the file is whole and passes validate.
LoadConfig(p) ==
    /\ config \in Configs
    /\ ConfigAccepted(config)
    /\ cfg' = [cfg EXCEPT ![p] = config]

\* load_state: vault.json is whole and of the configured network.
StateLoads == state \in VaultStates /\ MeetsNetwork(state, config.bitcoin.network)

-----------------------------------------------------------------------------
(* init-config: write_private_file, without and with --force. *)

StartInitConfig(p, force) ==
    /\ at[p] = "idle"
    /\ config # Absent => force
    /\ Goto(p, IF force THEN "truncateConfig" ELSE "createConfig")
    /\ UNCHANGED <<disk, core, cfg, role, vault, shown>>

\* create_new fails if another process was first.
CreateConfig(p) ==
    /\ at[p] = "createConfig"
    /\ IF config = Absent THEN config' = Torn /\ Continue(p, "writeConfig")
                          ELSE UNCHANGED config /\ End(p)
    /\ UNCHANGED <<files, state, core, shown, trouble>>

TruncateConfig(p) ==
    /\ at[p] = "truncateConfig"
    /\ config' = Torn
    /\ Continue(p, "writeConfig")
    /\ UNCHANGED <<files, state, core, shown, trouble>>

WriteConfig(p) ==
    /\ at[p] = "writeConfig"
    /\ config' = Example
    /\ End(p)
    /\ UNCHANGED <<files, state, core, shown, trouble>>

-----------------------------------------------------------------------------
(* keys generate: generate_vault_keys and write_wif_file. *)

\* Every one of the three files must be absent.
StartGenerate(p) ==
    /\ at[p] = "idle"
    /\ LoadConfig(p)
    /\ \A r \in Roles : files[config.keys_dir][r] = Absent
    /\ Goto(p, "createKey")
    /\ UNCHANGED <<disk, core, role, vault, shown>>

OwnKey(p) == [dir |-> cfg[p].keys_dir, by |-> p]

WriteFile(p, content) == files' = [files EXCEPT ![cfg[p].keys_dir][role[p]] = content]

\* A plausible bug: the file is opened with truncate and not with create_new.
CreateKeyAlways(p) ==
    /\ at[p] = "createKey"
    /\ WriteFile(p, Torn)
    /\ Continue(p, "writeKey")
    /\ UNCHANGED <<config, state, core, shown, trouble>>

\* A plausible bug: a run resumes what an earlier one has left.
CreateKeyResumes(p) ==
    /\ at[p] = "createKey"
    /\ \/ /\ files[cfg[p].keys_dir][role[p]] \notin Key
          /\ WriteFile(p, Torn)
          /\ Continue(p, "writeKey")
       \/ /\ files[cfg[p].keys_dir][role[p]] \in Key
          /\ role[p] # Agent
          /\ role' = [role EXCEPT ![p] = @ + 1]
          /\ UNCHANGED <<files, at, cfg, vault>>
    /\ UNCHANGED <<config, state, core, shown, trouble>>

\* write_wif_file looks again, and create_new looks for a last time.
CreateKey(p) ==
    /\ at[p] = "createKey"
    /\ IF files[cfg[p].keys_dir][role[p]] = Absent
       THEN WriteFile(p, Torn) /\ Continue(p, "writeKey")
       ELSE UNCHANGED files /\ End(p)
    /\ UNCHANGED <<config, state, core, shown, trouble>>

WriteKey(p) ==
    /\ at[p] = "writeKey"
    /\ role[p] # Agent
    /\ WriteFile(p, OwnKey(p))
    /\ Goto(p, "createKey")
    /\ role' = [role EXCEPT ![p] = @ + 1]
    /\ UNCHANGED <<config, state, core, cfg, vault, shown, trouble>>

\* The public keys are printed once all three files are synced.
WriteLastKey(p) ==
    /\ at[p] = "writeKey"
    /\ role[p] = Agent
    /\ WriteFile(p, OwnKey(p))
    /\ announced' = announced \cup {OwnKey(p)}
    /\ End(p)
    /\ UNCHANGED <<config, state, core, printed, trouble>>

-----------------------------------------------------------------------------
(* init-vault: load_key, VaultDescriptor::build and VaultState::save. *)


StartInitVault(p, force) ==
    /\ at[p] = "idle"
    /\ LoadConfig(p)
    /\ state # Absent => force
    /\ Goto(p, "loadKeys")
    /\ UNCHANGED <<disk, core, role, vault, shown>>

Built(p) == build(files[cfg[p].keys_dir], cfg[p].csv_blocks, cfg[p].bitcoin.network)

\* A plausible bug: a key file that is there is taken to hold a key.
LoadKeysPresent(p) ==
    /\ at[p] = "loadKeys"
    /\ \A r \in Roles : files[cfg[p].keys_dir][r] # Absent
    /\ vault' = [vault EXCEPT ![p] = Built(p)]
    /\ Goto(p, "truncateState")
    /\ UNCHANGED <<disk, core, cfg, role, shown, trouble>>

\* The files are read in the order in which they are written, and a file that
\* holds a key never changes: one look at all three sees the same.
LoadKeys(p) ==
    /\ at[p] = "loadKeys"
    /\ IF /\ files[cfg[p].keys_dir] \in KeySet
          /\ DescriptorAccepted(cfg[p].csv_blocks, cfg[p].bitcoin.network)
       THEN /\ vault' = [vault EXCEPT ![p] = Built(p)]
            /\ Goto(p, "truncateState")
            /\ UNCHANGED <<cfg, role>>
       ELSE End(p)
    /\ UNCHANGED <<disk, core, shown, trouble>>

\* save opens the file in place, truncating what was there.
TruncateState(p) ==
    /\ at[p] = "truncateState"
    /\ state' = Torn
    /\ Continue(p, "writeState")
    /\ UNCHANGED <<config, files, core, shown, trouble>>

\* Two writers that both truncated write texts of one length from offset 0: the
\* later one stands.  The address is printed after the file is synced.
WriteState(p) ==
    /\ at[p] = "writeState"
    /\ state' = vault[p]
    /\ printed' = printed \cup {vault[p]}
    /\ End(p)
    /\ UNCHANGED <<config, files, core, announced, trouble>>

-----------------------------------------------------------------------------
(* address, and import-watch: connect, ensure_wallet and importdescriptors. *)

Address(p) ==
    /\ at[p] = "idle"
    /\ config \in Configs /\ ConfigAccepted(config)
    /\ StateLoads
    /\ printed' = printed \cup {state}
    /\ UNCHANGED <<disk, core, procs, announced>>

StartImport(p) ==
    /\ at[p] = "idle"
    /\ LoadConfig(p)
    /\ StateLoads
    /\ HasAuth(config.bitcoin) /\ config.bitcoin.network = CoreNetwork
    /\ vault' = [vault EXCEPT ![p] = state]
    /\ Goto(p, "loadWallet")
    /\ UNCHANGED <<disk, core, role, shown>>

\* loadwallet loads it, or says that it is loaded already.
LoadWallet(p) ==
    /\ at[p] = "loadWallet"
    /\ IF wallet = "absent" THEN UNCHANGED wallet /\ Continue(p, "createWallet")
                            ELSE wallet' = "loaded" /\ Continue(p, "import")
    /\ UNCHANGED <<disk, watched, shown, trouble>>

CreateWallet(p) ==
    /\ at[p] = "createWallet"
    /\ IF wallet = "absent" THEN wallet' = "loaded" /\ Continue(p, "import")
                            ELSE UNCHANGED wallet /\ Continue(p, "reloadWallet")
    /\ UNCHANGED <<disk, watched, shown, trouble>>

\* The second loadwallet does not accept "already loaded": connect fails.
ReloadWallet(p) ==
    /\ at[p] = "reloadWallet"
    /\ IF wallet = "unloaded" THEN wallet' = "loaded" /\ Continue(p, "import")
                              ELSE UNCHANGED wallet /\ End(p)
    /\ UNCHANGED <<disk, watched, shown, trouble>>

Import(p) ==
    /\ at[p] = "import"
    /\ watched' = IF wallet = "loaded" THEN watched \cup {vault[p]} ELSE watched
    /\ End(p)
    /\ UNCHANGED <<disk, wallet, shown, trouble>>

Step(p) ==
    \/ CreateConfig(p) \/ TruncateConfig(p) \/ WriteConfig(p)
    \/ CreateKey(p) \/ WriteKey(p) \/ WriteLastKey(p)
    \/ LoadKeys(p) \/ TruncateState(p) \/ WriteState(p)
    \/ LoadWallet(p) \/ CreateWallet(p) \/ ReloadWallet(p) \/ Import(p)

Start(p) ==
    \/ \E force \in BOOLEAN : StartInitConfig(p, force) \/ StartInitVault(p, force)
    \/ StartGenerate(p) \/ Address(p) \/ StartImport(p)

-----------------------------------------------------------------------------
(* The operator, who runs one command at a time and does what the error    *)
(* message of the last one says, and everything that troubles this.        *)

SetUp == state \in VaultStates /\ state \in watched

Ready == config \in ConfigsAccepted /\ config.bitcoin.network = CoreNetwork

Untouched(d) == \A r \in Roles : files[d][r] = Absent

\* Which command is next.  "refusing to replace existing key file ...; use a
\* new empty keys_dir"; "... exists (pass --force to overwrite)".
Operate(p) ==
    /\ \A q \in Procs : at[q] = "idle"
    /\ UNCHANGED trouble
    /\ \/ ~Ready /\ StartInitConfig(p, config # Absent)
       \/ /\ Ready
          /\ \/ Untouched(config.keys_dir) /\ StartGenerate(p)
             \/ /\ files[config.keys_dir] \in KeySet
                /\ ~StateLoads
                /\ StartInitVault(p, state # Absent)
             \/ state \notin watched /\ StartImport(p)

\* The keys_dir holds what an interrupted run has left: another one is named.
NewKeysDir ==
    /\ \A q \in Procs : at[q] = "idle"
    /\ Ready
    /\ files[config.keys_dir] \notin KeySet /\ ~Untouched(config.keys_dir)
    /\ \E c \in ConfigsAccepted : /\ Untouched(c.keys_dir)
                                  /\ c.bitcoin.network = CoreNetwork
                                  /\ config' = c
    /\ UNCHANGED <<files, state, core, procs, shown, trouble>>

Kill(p) ==
    /\ at[p] # "idle"
    /\ End(p)
    /\ UNCHANGED <<disk, core, shown>>

RestartCore ==
    /\ wallet = "loaded"
    /\ wallet' = "unloaded"
    /\ UNCHANGED <<disk, watched, procs, shown>>

EditConfig ==
    /\ config' \in Configs
    /\ UNCHANGED <<files, state, core, procs, shown>>

\* A stray command runs whenever it likes, next to any other.
Trouble ==
    /\ trouble < MaxTrouble
    /\ trouble' = trouble + 1
    /\ \/ \E p \in Procs : Kill(p) \/ Start(p)
       \/ RestartCore \/ EditConfig

Next ==
    \/ \E p \in Procs : Step(p) \/ Operate(p)
    \/ NewKeysDir
    \/ Trouble

Spec == Init /\ [][Next]_vars

\* Commands are scheduled and their calls return; the operator carries on.
FairSpec ==
    /\ Spec
    /\ \A p \in Procs : WF_vars(Step(p))
    /\ WF_vars(NewKeysDir \/ \E p \in Procs : Operate(p))

-----------------------------------------------------------------------------
(* Properties. *)

\* Type invariant.  Only a vault of three keys that were on disk is ever built.
TypeOK ==
    /\ config \in Configs \cup {Absent, Torn}
    /\ files \in [KeysDirs -> [Roles -> Key \cup {Absent, Torn}]]
    /\ state \in VaultStates \cup {Absent, Torn}
    /\ wallet \in {"absent", "unloaded", "loaded"}
    /\ watched \subseteq VaultStates
    /\ at \in [Procs -> Steps \cup {"idle"}]
    /\ cfg \in [Procs -> {c \in Configs : ConfigAccepted(c)} \cup {None}]
    /\ role \in [Procs -> Roles]
    /\ vault \in [Procs -> VaultStates \cup {None}]
    /\ announced \subseteq Key
    /\ printed \subseteq VaultStates
    /\ trouble \in 0..MaxTrouble

\* The keys in a directory were all drawn by one run of keys generate, however
\* many runs race for it and wherever they are killed: no two devices ever hold
\* halves of different vaults (keys.rs:186-202).
OneRunPerDirectory ==
    \A d \in KeysDirs : \A r, s \in Roles :
        files[d][r] \in Key /\ files[d][s] \in Key => files[d][r] = files[d][s]

\* Coins can be sent to every address that was ever printed, so the three keys
\* of its vault stay on disk: no later run, race, kill, --force or change of
\* keys_dir takes one away.  So do the keys that keys generate printed
\* (keys.rs:89-126, wallet.rs:64-91, bin/tesaurus.rs:125-145).
NothingPrintedIsLost ==
    /\ \A k \in announced : \A r \in Roles : files[k.dir][r] = k
    /\ \A v \in printed \cup watched : \E d \in KeysDirs : files[d] = v.keys

=============================================================================
