----------------------------- MODULE LocalSpend -----------------------------
(***************************************************************************)
(* Building, signing and validating a spend of the vault with local keys   *)
(* (src/spend.rs), as pure operators over a listing of the vault's coins.  *)
(*                                                                         *)
(* A listing maps the outpoint of each coin to what the wallet says of it. *)
(* The inputs of a transaction map its outpoints to their nSequence: the   *)
(* builder takes every coin of a listing at most once.  A script is what   *)
(* fixes it, for the vault its descriptor.  Errors are not told apart: an  *)
(* operator says when there is none.  Amounts are as wide as U64Max says.  *)
(***************************************************************************)
EXTENDS Vault, FiniteSets, FiniteSetsExt, Functions, Sequences

CONSTANTS
    Destinations,       \* what a caller may name as one
    Addresses,          \* the destinations that parse: [networks, script]
    MinimalNonDust(_),  \* the dust threshold of a script
    VSize(_, _),        \* virtual size, by the number of inputs and outputs
    MaxFeeSats, MaxFeeRate, MaxSelectedInputs,
    U64Max

ASSUME SpendLimits ==
    /\ {MaxFeeSats, MaxFeeRate, MaxSelectedInputs, U64Max} \subseteq Nat
    /\ MaxSelectedInputs > 0

SpendRequest ==
    [destination : Destinations, amount_sats : 0..U64Max, fee_sats : 0..U64Max,
     path : {"Primary", "Recovery"}]

\* ENABLE_RBF_NO_LOCKTIME, 0xFFFFFFFD as a signed 32-bit number: the bit that
\* disables relative lock times is the sign.
RbfNoLocktime == -3

\* A plausible bug: every input has the sequence of the primary path.
SequenceRbf(vault, path) == RbfNoLocktime

SequenceOf(vault, path) ==
    IF path = "Primary" THEN RbfNoLocktime ELSE vault.csv_blocks % 65536

-----------------------------------------------------------------------------
(* The request and the choice of coins. *)

Need(req) == req.amount_sats + req.fee_sats

FeeWithinCaps(req) == req.fee_sats <= MaxFeeSats /\ req.fee_sats <= req.amount_sats

DestinationAccepted(network, req) ==
    /\ req.destination \in Addresses
    /\ network \in req.destination.networks
    /\ req.amount_sats >= MinimalNonDust(req.destination.script)

RequestAccepted(vault, network, req) ==
    /\ MeetsNetwork(vault, network)
    /\ req.amount_sats > 0
    /\ FeeWithinCaps(req)
    /\ Need(req) <= U64Max
    /\ DestinationAccepted(network, req)

Spendable(coin, path) ==
    IF path = "Primary" THEN coin.spendable_primary ELSE coin.spendable_recovery

Candidates(utxos, path) == {o \in DOMAIN utxos : Spendable(utxos[o], path)}

TotalIn(utxos, coins) == SumFunctionOnSet([o \in coins |-> utxos[o].value], coins)

\* A plausible bug: the coins are sorted the other way.
SmallestFirst(utxos, path, coins) ==
    \A o \in coins, rest \in Candidates(utxos, path) \ coins :
        utxos[o].value <= utxos[rest].value

LargestFirst(utxos, path, coins) ==
    \A o \in coins, rest \in Candidates(utxos, path) \ coins :
        utxos[o].value >= utxos[rest].value

\* The coins, largest first, up to the one that covers the need: every selection
\* that the order among equal coins allows, none if there are too few or too many.
select_coins(utxos, need, path) ==
    {coins \in SUBSET Candidates(utxos, path) :
        /\ Cardinality(coins) <= MaxSelectedInputs
        /\ LargestFirst(utxos, path, coins)
        /\ TotalIn(utxos, coins) \in need..U64Max
        /\ \E last \in coins : /\ LargestFirst(utxos, path, coins \ {last})
                               /\ TotalIn(utxos, coins \ {last}) < need}

-----------------------------------------------------------------------------
(* The transaction, its signatures and what is reported of it. *)

Change(utxos, coins, req) == TotalIn(utxos, coins) - Need(req)

Pay(value, script) == [value |-> value, script |-> script]

Outputs(vault, req, change) ==
    LET payment == Pay(req.amount_sats, req.destination.script)
    IN  IF change > 0 THEN <<payment, Pay(change, vault)>> ELSE <<payment>>

Unsigned(vault, utxos, coins, req) ==
    [version |-> 2, lock_time |-> 0,
     inputs |-> [o \in coins |-> SequenceOf(vault, req.path)],
     outputs |-> Outputs(vault, req, Change(utxos, coins, req))]

\* Every key signs every input for the value listed; the satisfier keeps the
\* signatures of the vault's keys.
Witness(vault, utxos, o, keys) ==
    [signers |-> keys \cap {vault.keys[r] : r \in Roles}, value |-> utxos[o].value]

Signed(tx, vault, utxos, keys) ==
    [unsigned |-> tx, witness |-> [o \in DOMAIN tx.inputs |-> Witness(vault, utxos, o, keys)]]

FeeWithinRate(tx, req) ==
    req.fee_sats <= VSize(Cardinality(DOMAIN tx.inputs), Len(tx.outputs)) * MaxFeeRate

BuiltSpend(vault, utxos, coins, req, keys) ==
    [tx |-> Signed(Unsigned(vault, utxos, coins, req), vault, utxos, keys),
     path |-> req.path, fee_sats |-> req.fee_sats, amount_sats |-> req.amount_sats,
     change_sats |-> Change(utxos, coins, req)]

\* A plausible bug: the change is not looked at here.
AnyChange(change, vault) == TRUE

NotDust(change, vault) == change > 0 => change >= MinimalNonDust(vault)

\* What build_and_sign can return, nothing when it returns an error.
build_and_sign(vault, network, utxos, req, keys) ==
    IF /\ RequestAccepted(vault, network, req)
       /\ Satisfied(vault, keys, req.path = "Recovery")
    THEN {BuiltSpend(vault, utxos, coins, req, keys) :
            coins \in {c \in select_coins(utxos, Need(req), req.path) :
                /\ NotDust(Change(utxos, c, req), vault)
                /\ FeeWithinRate(Unsigned(vault, utxos, c, req), req)}}
    ELSE {}

\* Whatever path the request names.
sign_recovery_with_keys(vault, network, utxos, req, keys) ==
    build_and_sign(vault, network, utxos, [req EXCEPT !.path = "Recovery"], keys)

-----------------------------------------------------------------------------
(* validate_built_spend, which takes nothing from the builder but the      *)
(* transaction and what it reports.                                        *)

MetadataMatches(built, vault, network, req) ==
    /\ MeetsNetwork(vault, network)
    /\ req.amount_sats # 0 /\ FeeWithinCaps(req)
    /\ built.path = req.path
    /\ built.amount_sats = req.amount_sats
    /\ built.fee_sats = req.fee_sats

TransactionMatches(tx, req) ==
    /\ DOMAIN tx.inputs # {}
    /\ Cardinality(DOMAIN tx.inputs) <= MaxSelectedInputs
    /\ tx.version = 2 /\ tx.lock_time = 0
    /\ FeeWithinRate(tx, req)

InputsMatch(signed, vault, available, req) ==
    LET tx == signed.unsigned IN
    /\ \A o \in DOMAIN tx.inputs :
           /\ o \in DOMAIN available
           /\ available[o].script = vault
           /\ Spendable(available[o], req.path)
           /\ tx.inputs[o] = SequenceOf(vault, req.path)
           /\ o \in DOMAIN signed.witness
    /\ TotalIn(available, DOMAIN tx.inputs) \in 0..U64Max

OutputsMatch(built, vault, network, req) ==
    LET outputs == built.tx.unsigned.outputs IN
    /\ DestinationAccepted(network, req)
    /\ Len(outputs) = IF built.change_sats > 0 THEN 2 ELSE 1
    /\ outputs[1] = Pay(req.amount_sats, req.destination.script)
    /\ built.change_sats > 0 =>
           /\ built.change_sats >= MinimalNonDust(vault)
           /\ outputs[2] = Pay(built.change_sats, vault)

TotalOut(tx) == tx.outputs[1].value + IF Len(tx.outputs) = 2 THEN tx.outputs[2].value ELSE 0

AmountsMatch(built, available, req) ==
    LET total == TotalIn(available, DOMAIN built.tx.unsigned.inputs) IN
    /\ TotalOut(built.tx.unsigned) <= U64Max
    /\ total - TotalOut(built.tx.unsigned) = req.fee_sats
    /\ Need(req) <= U64Max
    /\ total - Need(req) = built.change_sats

validate_built_spend(built, vault, network, available, req) ==
    /\ MetadataMatches(built, vault, network, req)
    /\ TransactionMatches(built.tx.unsigned, req)
    /\ InputsMatch(built.tx, vault, available, req)
    /\ OutputsMatch(built, vault, network, req)
    /\ AmountsMatch(built, available, req)
============================================================================
