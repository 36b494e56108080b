---------------------------- MODULE MCVaultSpend ----------------------------
(***************************************************************************)
(* VaultSpend with two processes and three coins, and requests at the edge *)
(* of each limit of the builder.                                           *)
(***************************************************************************)
EXTENDS VaultSpend

CONSTANTS payee, rival, primary, override, agent, e1, e2

MCNetworks == Research \cup {"bitcoin"}

MCVault == build(<<primary, override, agent>>, 2, "regtest")

To(script, networks) == [script |-> script, networks |-> networks]
Payee == To(payee, {"regtest"})
Rival == To(rival, {"regtest"})
Foreign == To(rival, {"testnet", "signet"})
MCAddresses == {Payee, Rival, Foreign}
MCDestinations == MCAddresses \cup {None}

MCDust(script) == IF script = MCVault THEN 3 ELSE 2
MCVSize(ins, outs) == ins + outs - 1

Deposit(from, outputs) ==
    [unsigned |-> [version |-> 2, lock_time |-> 0,
                   inputs |-> [o \in {[txid |-> from, vout |-> 0]} |-> RbfNoLocktime],
                   outputs |-> outputs],
     witness |-> {}]

MCDeposits == {Deposit(e1, <<Pay(9, MCVault), Pay(5, MCVault)>>),
               Deposit(e2, <<Pay(6, MCVault)>>)}

Ask(destination, amount, fee, path) ==
    [destination |-> destination, amount_sats |-> amount, fee_sats |-> fee, path |-> path]

MCRequests ==
    {Ask(Payee, 4, 2, "Primary"),       \* change at the dust threshold of the vault
     Ask(Rival, 5, 4, "Primary"),       \* at both fee caps; it can replace the first
     Ask(Payee, 11, 3, "Recovery")}     \* two coins, with change that is dust or none
=============================================================================
