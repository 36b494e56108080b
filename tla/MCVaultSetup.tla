---------------------------- MODULE MCVaultSetup ----------------------------
(***************************************************************************)
(* VaultSetup with two processes and four key directories on a regtest    *)
(* node, a configuration for another network and one that validate refuses.*)
(***************************************************************************)
EXTENDS VaultSetup

CONSTANTS d1, d2, d3, d4

MCNetworks == Research \cup {"bitcoin"}

Conf(network, csv, dir) ==
    [bitcoin |-> [network |-> network, rpc_url |-> "loopback", wallet_name |-> "tesaurus",
                  cookie |-> TRUE, rpc_user |-> FALSE, rpc_password |-> FALSE],
     csv_blocks |-> csv, state_path |-> "vault.json", keys_dir |-> dir]

MCExample == Conf("regtest", 10, d1)

MCConfigs ==
    {Conf("regtest", 10, d) : d \in KeysDirs}
        \cup {Conf("signet", 10, d1), Conf("regtest", 0, d2)}
=============================================================================
