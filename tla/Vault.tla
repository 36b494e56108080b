------------------------------- MODULE Vault -------------------------------
(***************************************************************************)
(* The configuration and the vault descriptor of the coordinator           *)
(* (src/config.rs, src/descriptor.rs).                                     *)
(*                                                                         *)
(* A vault is what its descriptor fixes: the three keys, the CSV delay and *)
(* the network.  Its strings, and with them its scripts and its address,   *)
(* are functions of these, and the checksummed text that validate compares *)
(* with the canonical one is not repeated.                                 *)
(***************************************************************************)
EXTENDS Integers

CONSTANTS
    Networks,       \* every network the bitcoin crate can name
    KeysDirs,       \* directories a configuration can name
    LoopbackUrls,   \* plain HTTP URLs on 127.0.0.1 or [::1]
    WalletNames,    \* names of ASCII letters, digits, '.', '-' and '_'
    NoPath          \* the empty path

Research == {"regtest", "testnet", "signet"}

ASSUME NetworksAssumption == Research \cup {"bitcoin"} \subseteq Networks

CsvRange == 1..65535

\* Key roles in the order in which the files are written and listed.
Primary == 1
Override == 2
Agent == 3
Roles == {Primary, Override, Agent}

-----------------------------------------------------------------------------
(* Config::validate, and the network that init-config may write. *)

BitcoinConfigAccepted(b) ==
    /\ b.network \in Research
    /\ b.rpc_url \in LoopbackUrls
    /\ b.wallet_name \in WalletNames
    /\ b.rpc_user = b.rpc_password      \* both set, or neither

ConfigAccepted(cfg) ==
    /\ BitcoinConfigAccepted(cfg.bitcoin)
    /\ cfg.csv_blocks \in CsvRange
    /\ cfg.state_path # NoPath
    /\ cfg.keys_dir # NoPath

ExampleAccepted(network) == network \in Research

\* connect() needs a cookie file or a user with a password.
HasAuth(b) == b.cookie \/ b.rpc_user

-----------------------------------------------------------------------------
(* VaultDescriptor::build and VaultDescriptor::require_network.            *)

DescriptorAccepted(csv_blocks, network) ==
    /\ network \in Research
    /\ csv_blocks \in CsvRange

build(keys, csv_blocks, network) ==
    [keys |-> keys, csv_blocks |-> csv_blocks, network |-> network]

\* validate builds the vault again before it compares the networks.
MeetsNetwork(vault, network) ==
    /\ DescriptorAccepted(vault.csv_blocks, vault.network)
    /\ vault.network = network

\* thresh(2, pk(primary), pk(override), and(pk(agent), older(csv))): the
\* signatures at hand satisfy the descriptor.
Satisfied(vault, signers, older_ok) ==
    \/ vault.keys[Primary] \in signers /\ vault.keys[Override] \in signers
    \/ /\ older_ok
       /\ vault.keys[Agent] \in signers
       /\ vault.keys[Primary] \in signers \/ vault.keys[Override] \in signers
============================================================================
