----------------------------- MODULE VaultSpend -----------------------------
(***************************************************************************)
(* The spend command of the tesaurus CLI (src/bin/tesaurus.rs,             *)
(* src/wallet.rs, src/spend.rs) against a Bitcoin Core node.               *)
(*                                                                         *)
(* Commands run as processes.  Each lists the vault's coins, builds, signs *)
(* and validates a transaction, asks Core whether it would take it and     *)
(* sends it; nothing is locked in between.  The vault is set up and its    *)
(* files do not change, except that the override key may be lost.          *)
(*                                                                         *)
(* Core is external: the transactions that it knows, with the number of    *)
(* blocks on each, 0 in the mempool.  It relays and replaces like version  *)
(* 28.0 with its defaults, which docker-compose.yml names.                 *)
(***************************************************************************)
EXTENDS LocalSpend

CONSTANTS
    Procs,          \* command processes
    TheVault,       \* what vault.json holds
    Network,        \* the configured network
    Requests,       \* SpendRequests the operator may make
    Deposits,       \* transactions of others that pay the vault
    SweepFee,       \* the fee of a recovery of all there is
    Recipient,      \* and where it pays to
    MinRelayRate,   \* Core's minimum fee, per unit of virtual size
    MaxTrouble,     \* bound on kills, reorganisations, drops and stray spends
    None            \* nothing in a process's memory

ASSUME VaultAssumption == MeetsNetwork(TheVault, Network)

ASSUME RequestsAssumption ==
    /\ Requests \subseteq SpendRequest
    /\ Recipient \in Destinations
    /\ SweepFee \in Nat /\ MaxTrouble \in Nat

\* Deposits are told apart by their txids and pay amounts.  Positions of outputs
\* count from 1: a coin from outside the model has position 0.
ASSUME DepositsAssumption ==
    /\ IsFiniteSet(Deposits)
    /\ \A d, e \in Deposits : d.unsigned = e.unsigned => d = e
    /\ \A d \in Deposits :
           /\ \A o \in DOMAIN d.unsigned.inputs : o.vout = 0
           /\ IsFiniteSet(DOMAIN d.unsigned.outputs)
           /\ \A n \in DOMAIN d.unsigned.outputs :
                  n # 0 /\ d.unsigned.outputs[n].value \in 1..U64Max

\* Confirmations are counted as far as the reorganisations that are still allowed
\* could bring them below the CSV delay.
MaxDepth == TheVault.csv_blocks + MaxTrouble

VARIABLES
    depth,      \* confirmations of each transaction that Core knows
    present,    \* roles whose key file is on disk
    at,         \* "idle", or how far the spend of each process has come
    req,        \* its request
    utxos,      \* the coins it listed
    signed,     \* the transaction it has built and validated
    seen,       \* history: what Core knew when it listed
    trouble     \* kills, reorganisations, drops and stray spends so far

command == <<at, req, utxos, signed, seen>>
vars == <<depth, present, command, trouble>>

-----------------------------------------------------------------------------
(* Bitcoin Core. *)

Known == DOMAIN depth
Mempool == {t \in Known : depth[t] = 0}

Coin(t, n) == [txid |-> t.unsigned, vout |-> n]
Inputs(t) == DOMAIN t.unsigned.inputs
Creates(t) == {Coin(t, n) : n \in DOMAIN t.unsigned.outputs}

Coins == UNION {Creates(t) : t \in Known}

Creator(o) == CHOOSE t \in Known : t.unsigned = o.txid
Output(o) == o.txid.outputs[o.vout]

Children(t, known) == {u \in known : Inputs(u) \cap Creates(t) # {}}
Spenders(coins, known) == {u \in known : Inputs(u) \cap coins # {}}

\* Transactions in the mempool that spend what t spends, and all that build on
\* them.  A chain of spends is at most as long as the set is large.
Descendants(first, known) ==
    LET grow[n \in 0..Cardinality(known)] ==
            IF n = 0 THEN first
            ELSE LET before == grow[n - 1]
                 IN  before \cup UNION {Children(t, known) : t \in before}
    IN  grow[Cardinality(known)]

Evicted(t) == Descendants(Spenders(Inputs(t), Mempool \ {t}), Known)

InTotal(t) == SumFunctionOnSet([o \in Inputs(t) |-> Output(o).value], Inputs(t))
Fee(t) == InTotal(t) - TotalOut(t.unsigned)
Size(t) == VSize(Cardinality(Inputs(t)), Len(t.unsigned.outputs))

\* BIP 68, for a transaction in the next block.  Sequences with the sign bit
\* lock nothing.
LockMet(t, o, depths) == depths[Creator(o)] >= t.unsigned.inputs[o]

\* The witness satisfies the vault's script and was signed for the right value.
ScriptMet(t, o) ==
    /\ t.witness[o].value = Output(o).value
    /\ Satisfied(Output(o).script, t.witness[o].signers,
                 t.unsigned.inputs[o] >= Output(o).script.csv_blocks)

\* Replacement: more fee than all that goes, at a higher rate than what it replaces.
Replaces(t, evicted) ==
    /\ Fee(t) >= MapThenSumSet(Fee, evicted) + MinRelayRate * Size(t)
    /\ \A u \in Spenders(Inputs(t), evicted) : Fee(t) * Size(u) > Fee(u) * Size(t)

CoreAccepts(t) ==
    LET evicted == Evicted(t) IN
    /\ t \notin Known
    /\ Inputs(t) \subseteq UNION {Creates(u) : u \in Known \ evicted}
    /\ Spenders(Inputs(t), Known \ Mempool) = {}
    /\ \A o \in Inputs(t) : LockMet(t, o, depth) /\ ScriptMet(t, o)
    /\ Fee(t) >= MinRelayRate * Size(t)
    /\ evicted # {} => Replaces(t, evicted)

\* The vault's coins that no transaction spends, as listunspent reports them.
Unspent ==
    {o \in Coins \ UNION {Inputs(t) : t \in Known} : Output(o).script = TheVault}

-----------------------------------------------------------------------------
(* The spend command. *)

\* A plausible bug: maturity is counted to the next block.
ListedEarly(o, confirmations) ==
    [value |-> Output(o).value, script |-> TheVault,
     spendable_primary |-> TRUE,
     spendable_recovery |-> confirmations + 1 >= TheVault.csv_blocks]

Listed(o, confirmations) ==
    [value |-> Output(o).value, script |-> TheVault,
     spendable_primary |-> TRUE,
     spendable_recovery |-> confirmations >= TheVault.csv_blocks]

\* A plausible bug: coins that the mempool already spends are listed.
list_confirmed_unspent ==
    [o \in {c \in Coins \ UNION {Inputs(t) : t \in Known \ Mempool} :
               Output(c).script = TheVault} |-> Listed(o, depth[Creator(o)])]

\* minconf is 0: unconfirmed coins are listed too.
list_utxos == [o \in Unspent |-> Listed(o, depth[Creator(o)])]

Init ==
    /\ depth = [t \in Deposits |-> 0]
    /\ present = Roles
    /\ at = [p \in Procs |-> "idle"]
    /\ req = [p \in Procs |-> None]
    /\ utxos = [p \in Procs |-> None]
    /\ signed = [p \in Procs |-> None]
    /\ seen = [p \in Procs |-> {}]
    /\ trouble = 0

\* Processes are alike: which of those that are free runs a command makes no
\* difference.
Free == CHOOSE p \in Procs : at[p] = "idle"

\* A plausible bug: the transaction of a spend that ended is still there.
EndKeepsTransaction(p) ==
    /\ at' = [at EXCEPT ![p] = "idle"]
    /\ req' = [req EXCEPT ![p] = None]
    /\ utxos' = [utxos EXCEPT ![p] = None]
    /\ seen' = [seen EXCEPT ![p] = {}]
    /\ UNCHANGED signed

End(p) ==
    /\ at' = [at EXCEPT ![p] = "idle"]
    /\ req' = [req EXCEPT ![p] = None]
    /\ utxos' = [utxos EXCEPT ![p] = None]
    /\ signed' = [signed EXCEPT ![p] = None]
    /\ seen' = [seen EXCEPT ![p] = {}]

\* load_state, connect and list_utxos.
List(p, r) ==
    /\ at[p] = "idle"
    /\ p = Free
    /\ at' = [at EXCEPT ![p] = "listed"]
    /\ req' = [req EXCEPT ![p] = r]
    /\ utxos' = [utxos EXCEPT ![p] = list_utxos]
    /\ seen' = [seen EXCEPT ![p] = Known]
    /\ UNCHANGED <<depth, present, signed>>

\* load_key for the two keys of the path.
KeyRoles(path) == IF path = "Primary" THEN {Primary, Override} ELSE {Primary, Agent}
LoadedKeys(path) == {TheVault.keys[r] : r \in KeyRoles(path)}

Builds(p) ==
    IF req[p].path = "Recovery"
    THEN sign_recovery_with_keys(TheVault, Network, utxos[p], req[p], LoadedKeys("Recovery"))
    ELSE build_and_sign(TheVault, Network, utxos[p], req[p], LoadedKeys("Primary"))

Valid(p, built) == validate_built_spend(built, TheVault, Network, utxos[p], req[p])

\* From here on the command only needs the transaction.
Build(p) ==
    /\ at[p] = "listed"
    /\ at' = [at EXCEPT ![p] = "validated"]
    /\ KeyRoles(req[p].path) \subseteq present
    /\ \E built \in Builds(p) :
           /\ Valid(p, built)
           /\ signed' = [signed EXCEPT ![p] = built.tx]
    /\ req' = [req EXCEPT ![p] = None]
    /\ utxos' = [utxos EXCEPT ![p] = None]
    /\ UNCHANGED <<depth, present, seen, trouble>>

\* A key file is missing, or the builder or the validator returns an error.
BuildFails(p) ==
    /\ at[p] = "listed"
    /\ End(p)
    /\ \/ ~(KeyRoles(req[p].path) \subseteq present)
       \/ \A built \in Builds(p) : ~Valid(p, built)
    /\ UNCHANGED <<depth, present, trouble>>

\* Without --broadcast the command is done once it has printed the spend.
PrintOnly(p) ==
    /\ at[p] = "validated"
    /\ End(p)
    /\ UNCHANGED <<depth, present>>

\* testmempoolaccept.
TestAccept(p) ==
    /\ at[p] = "validated"
    /\ IF CoreAccepts(signed[p])
       THEN /\ at' = [at EXCEPT ![p] = "accepted"]
            /\ UNCHANGED <<req, utxos, signed, seen>>
       ELSE End(p)
    /\ UNCHANGED <<depth, present, trouble>>

\* sendrawtransaction checks again, and its answer ends the command.
Send(p) ==
    /\ at[p] = "accepted"
    /\ End(p)
    /\ depth' = IF CoreAccepts(signed[p])
                THEN [t \in (Known \ Evicted(signed[p])) \cup {signed[p]} |->
                         IF t \in Known THEN depth[t] ELSE 0]
                ELSE depth
    /\ UNCHANGED <<present, trouble>>

Step(p) == Build(p) \/ BuildFails(p) \/ TestAccept(p) \/ Send(p)

-----------------------------------------------------------------------------
(* Blocks, the operator who recovers what is mature, and the troubles. *)

\* Some of the mempool is mined, with what it builds on.
Mine(mined) ==
    /\ UNCHANGED <<present, command, trouble>>
    /\ \A t \in mined : \A o \in Inputs(t) \cap Coins :
           Creator(o) \in Mempool => Creator(o) \in mined
    /\ depth' = [t \in Known |->
                    IF depth[t] > 0
                    THEN IF depth[t] < MaxDepth - trouble THEN depth[t] + 1 ELSE depth[t]
                    ELSE IF t \in mined THEN 1 ELSE 0]

\* The total that status prints as recoverable, as far as one spend can take it,
\* is recovered once no other command runs.
Sweeps ==
    LET listing == list_utxos
        mature == Candidates(listing, "Recovery") IN
    {[destination |-> Recipient, path |-> "Recovery", fee_sats |-> SweepFee,
      amount_sats |-> TotalIn(listing, coins) - SweepFee] :
        coins \in {c \in SUBSET mature :
            /\ Cardinality(c) <= MaxSelectedInputs
            /\ c = mature \/ Cardinality(c) = MaxSelectedInputs
            /\ TotalIn(listing, c) \in SweepFee..U64Max
            /\ LargestFirst(listing, "Recovery", c)}}

Recover(p) ==
    /\ \A q \in Procs : at[q] = "idle"
    /\ UNCHANGED trouble
    /\ \E r \in Sweeps : /\ RequestAccepted(TheVault, Network, r)
                         /\ List(p, r)

LoseOverride ==
    /\ Override \in present
    /\ present' = present \ {Override}
    /\ UNCHANGED <<depth, command>>

Kill(p) ==
    /\ at[p] # "idle"
    /\ End(p)
    /\ UNCHANGED <<depth, present>>

Without(depths, gone) == [t \in DOMAIN depths \ gone |-> depths[t]]

\* A spend expires from the mempool, or Core restarts without it.
Drop(t) ==
    /\ depth' = Without(depth, Descendants({t}, Known))
    /\ UNCHANGED <<present, command>>

\* The last block is disconnected.  What it held returns to the mempool, and what
\* may not be in the next block is removed from there.
Disconnect ==
    LET depths == [t \in Known |-> IF depth[t] > 0 THEN depth[t] - 1 ELSE 0]
        early == {t \in Known : depths[t] = 0 /\ ~\A o \in Inputs(t) \cap Coins :
                                    LockMet(t, o, depths)}
    IN  /\ Known # Mempool
        /\ depth' = Without(depths, Descendants(early, Known))
        /\ UNCHANGED <<present, command>>

Trouble ==
    /\ trouble < MaxTrouble
    /\ trouble' = trouble + 1
    /\ \/ \E p \in Procs : \/ Kill(p) \/ PrintOnly(p)
                           \/ \E r \in Requests : List(p, r)
       \/ \E t \in Mempool \ Deposits : Drop(t)
       \/ Disconnect \/ LoseOverride

Next ==
    \/ \E p \in Procs : Step(p) \/ Recover(p)
    \/ \E mined \in SUBSET Mempool : Mine(mined)
    \/ Trouble

Spec == Init /\ [][Next]_vars

\* Some command always gets on, blocks are found and take in what pays for it, and the operator
\* keeps recovering what is mature.
FairSpec ==
    /\ Spec
    /\ WF_vars(\E p \in Procs : Step(p))
    /\ WF_vars(Mine(Mempool))
    /\ WF_vars(\E p \in Procs : Recover(p))

-----------------------------------------------------------------------------
(* Properties. *)

\* Type invariant.  A command has in memory what its step needs, and nothing else.
TypeOK ==
    /\ \A t \in Known : /\ depth[t] \in 0..MaxDepth
                        /\ \A n \in DOMAIN t.unsigned.outputs :
                               t.unsigned.outputs[n].value \in 1..U64Max
    /\ present \subseteq Roles
    /\ at \in [Procs -> {"idle", "listed", "validated", "accepted"}]
    /\ \A p \in Procs :
        /\ IF at[p] = "listed"
           THEN /\ req[p] \in SpendRequest
                /\ \A o \in DOMAIN utxos[p] :
                       utxos[p][o] \in [value : 1..U64Max, script : {TheVault},
                                        spendable_primary : {TRUE},
                                        spendable_recovery : BOOLEAN]
           ELSE req[p] = None /\ utxos[p] = None
        /\ IF at[p] \in {"validated", "accepted"}
           THEN DOMAIN signed[p].witness = Inputs(signed[p])
           ELSE signed[p] = None
        /\ seen[p] # {} => at[p] # "idle"
    /\ trouble \in 0..MaxTrouble

\* The builder and the independent validator agree: no spend that the builder
\* signs is then refused for its fee, its change, its inputs or what it reports
\* (spend.rs:81-248, spend.rs:295-447).
BuiltPassesValidation ==
    \A p \in Procs : at[p] = "listed" => \A built \in Builds(p) : Valid(p, built)

\* "insufficient mature coins" and "requires more than 100 inputs" are true: when
\* any choice of spendable coins covers the need within the input limit, and all
\* there are fit a u64, the largest-first choice does (spend.rs:250-280).
SelectionFindsFunds ==
    \A p \in Procs :
        /\ at[p] = "listed"
        /\ RequestAccepted(TheVault, Network, req[p])
        /\ TotalIn(utxos[p], DOMAIN utxos[p]) <= U64Max
        /\ \E coins \in SUBSET Candidates(utxos[p], req[p].path) :
               /\ Cardinality(coins) <= MaxSelectedInputs
               /\ TotalIn(utxos[p], coins) >= Need(req[p])
        => select_coins(utxos[p], Need(req[p]), req[p].path) # {}

\* While its coins are still there and still mature, Core takes a validated spend
\* that pays the relay fee: maturity as list_utxos counts it, the sequence, the
\* keys and the values are what consensus asks for.  Core refuses only what has
\* gone stale since the listing (wallet.rs:134-160, spend.rs:142-218, 449-473).
FreshSpendIsAccepted ==
    \A p \in Procs :
        /\ at[p] \in {"validated", "accepted"}
        /\ Fee(signed[p]) >= MinRelayRate * Size(signed[p])
        /\ \A o \in Inputs(signed[p]) :
               /\ o \in DOMAIN list_utxos
               /\ signed[p].unsigned.inputs[o] # RbfNoLocktime => list_utxos[o].spendable_recovery
        => CoreAccepts(signed[p])

\* A fee that is within the caps of the command and enough for Core, whatever the
\* number of inputs.
FeeFits(fee) ==
    \A n \in 1..MaxSelectedInputs :
        MinRelayRate * VSize(n, 1) <= fee /\ fee <= VSize(n, 1) * MaxFeeRate

\* The recovery path is never shut: in any state, after any replacements, drops and
\* reorganisations, a recovery of what status prints as recoverable is built from the
\* primary and the agent key alone, passes the validator and is one that Core takes
\* at once (wallet.rs:156, spend.rs:118-247).
RecoveryIsOpen ==
    \A r \in Sweeps :
        RequestAccepted(TheVault, Network, r) /\ FeeFits(SweepFee) =>
            \E built \in sign_recovery_with_keys(TheVault, Network, list_utxos, r,
                                                 LoadedKeys("Recovery")) :
                /\ validate_built_spend(built, TheVault, Network, list_utxos, r)
                /\ CoreAccepts(built.tx)

\* A spend in the mempool is only ever replaced by one that listed the coins before
\* it was sent: a command that starts later takes other coins, or the change, and
\* never undoes a payment that was reported (wallet.rs:134-160, spend.rs:449-473).
OnlyRacesReplace ==
    [][\A p \in Procs : Send(p) => seen[p] \cap (DOMAIN depth \ DOMAIN depth') = {}]_vars

\* What a recovery of everything could still move.
Sweepable(coins) ==
    \E c \in SUBSET coins :
        /\ Cardinality(c) <= MaxSelectedInputs
        /\ MapThenSumSet(LAMBDA o : Output(o).value, c) - SweepFee >=
               Max({SweepFee, MinimalNonDust(Recipient.script)})

\* With the primary and the agent key alone every coin leaves the vault in the end,
\* whatever other spends, replacements, reorganisations, kills and dropped
\* transactions came first: the recovery path stays open when the override key is
\* lost (README.md "Recovery: after csv confirmations", wallet.rs:156, spend.rs:142-175).
RecoveryCompletes == <>[]~Sweepable(Unspent)
=============================================================================
