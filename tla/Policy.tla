------------------------------- MODULE Policy -------------------------------
(***************************************************************************)
(* tesaurus-policy's evaluate(): the validation of one SignRequest against *)
(* the pin, Core B's facts, the replay store and the velocity samples, as  *)
(* a pure operator that answers the first reject code in code order.       *)
(*                                                                         *)
(* The tag `content` of a PSBT holds what evaluate reads of it besides     *)
(* outpoints and outputs: whether its bytes parse, its global fields, and  *)
(* one record of metadata per input.  Keys, scripts and signatures are     *)
(* names; amounts, heights and times are numbers bounded by the widths of  *)
(* the code's integers, which a model makes small.                         *)
(***************************************************************************)
EXTENDS ReplayRecords, Rejections, SequencesExt

CONSTANTS
    PinScript,          \* AgentPin::script_pubkey
    PinWitness,         \* AgentPin::witness_script
    Primary, Override, Agent,   \* the pinned public keys
    PinGenesis,         \* AgentPin::genesis_hash
    CsvBlocks, SafetyMargin, SecondsPerBlock,
    PerSig, PerWindow, WindowBlocks,
    ConfirmThreshold, MaxFee, MaxInputs, Dust,
    U32Max, U64Max,     \* largest u32 and u64
    None                \* Option::None

ASSUME PinAssumption ==
    /\ PinScript \in VaultScripts
    /\ {U32Max, U64Max, SafetyMargin, SecondsPerBlock, MaxInputs, Dust} \subseteq Nat
    /\ {PerSig, PerWindow, ConfirmThreshold, MaxFee} \subseteq 0..U64Max
    /\ {CsvBlocks, WindowBlocks} \subseteq Nat \ {0}

Total(values) == SumFunction(values)

-----------------------------------------------------------------------------
(* structure.rs *)

Inputs(p) == p.content.ins

\* Malformed bytes, a version other than 0, no input or no output.  That no coin
\* is spent twice is left to the parser and to consensus: nothing here checks it.
parse_psbt_v0(p) ==
    Reject(~p.content.parses \/ Inputs(p) = <<>> \/ p.outputs = <<>>, "PsbtParse")

require_no_unknown_psbt_fields(p) == Reject(p.content.unknown, "UnknownField")

SighashReject(in) == Reject(in.sighash # "all" \/ ~in.sigs_all, "Sighash")

require_sighash_all_on_psbt(p) == FirstReject(Inputs(p), SighashReject)

\* A plausible bug: a sequence of exactly the delay is not enough.
SequenceAboveCsv(sequence) == sequence # None /\ sequence > CsvBlocks

\* An nSequence is a block height, or None when it enables no height lock.
sequence_satisfies_older_csv(sequence) == sequence # None /\ sequence >= CsvBlocks

-----------------------------------------------------------------------------
(* evaluate.rs: amounts *)

\* What one input says it spends, or the code that says why it does not.
PrevTxReject(in) ==
    Reject(~in.prev_tx.txid_matches, "PrevoutMismatch")
    ?? Reject(in.prev_tx.output = None, "PrevoutMissing")

PrevoutReject(in) ==
    IF in.prev_tx # None
    THEN PrevTxReject(in)
         ?? Reject(in.witness_utxo # None /\ in.witness_utxo # in.prev_tx.output,
                   "PrevoutMismatch")
    ELSE Reject(in.witness_utxo = None, "PrevoutMissing")

collect_prevouts(p) == FirstReject(Inputs(p), PrevoutReject)

Prevout(in) == IF in.witness_utxo # None THEN in.witness_utxo ELSE in.prev_tx.output

InputSats(p) == Total([i \in DOMAIN Inputs(p) |-> Prevout(Inputs(p)[i]).value])
OutputSats(p) == Total([i \in DOMAIN p.outputs |-> p.outputs[i].value])
FeeSats(p) == InputSats(p) - OutputSats(p)

\* The positions that leave the pinned vault, and the single amount they carry.
Leaving(p) == {i \in DOMAIN p.outputs : p.outputs[i].script # PinScript}
Returning(p) == DOMAIN p.outputs \ Leaving(p)
ExternalOut(p) == p.outputs[CHOOSE i \in Leaving(p) : TRUE]
ExternalSats(p) == ExternalOut(p).value
ChangeOut(p) == p.outputs[CHOOSE i \in Returning(p) : TRUE]

classify_amounts(p) ==
    Reject(InputSats(p) > U64Max, "Fee")
    ?? Reject(OutputSats(p) > U64Max, "Fee")
    ?? Reject(Cardinality(Leaving(p)) # 1, "Change")
    ?? Reject(Cardinality(Returning(p)) > 1, "Change")
    ?? Reject(FeeSats(p) < 0, "Fee")

check_dust(p) ==
    Reject(ExternalSats(p) < Dust, "Dust")
    ?? Reject(\E i \in Returning(p) : p.outputs[i].value \in 1..(Dust - 1), "Dust")

-----------------------------------------------------------------------------
(* evaluate.rs: keys, Core B facts, recovery path *)

PinKeys == {Primary, Override, Agent}

PinReject(in) ==
    Reject(Prevout(in).script # PinScript, "ForeignInput")
    ?? Reject(in.witness_script # PinWitness, "DescriptorMismatch")
    ?? Reject(in.redeem_script, "DescriptorMismatch")
    ?? Reject(~(in.sigs \cup in.bip32 \subseteq PinKeys), "KeySubstitution")

check_inputs_against_pin(p) == FirstReject(Inputs(p), PinReject)

\* chain.facts maps the outpoints Core B was asked about to what it answered.
FactReject(chain, in) ==
    Reject(in.outpoint \notin DOMAIN chain.facts, "PrevoutMissing")
    ?? Reject(~chain.facts[in.outpoint].visible_unspent, "ForeignInput")
    ?? Reject(chain.facts[in.outpoint].txout # Prevout(in), "PrevoutMismatch")
    ?? Reject(chain.facts[in.outpoint].txout.script # PinScript, "ForeignInput")

check_chain_prevouts(chain, p) ==
    FirstReject(Inputs(p), LAMBDA in : FactReject(chain, in))

PathReject(in) ==
    Reject(in.finalized, "NotRecoveryPath")
    ?? Reject(~sequence_satisfies_older_csv(in.sequence), "NotRecoveryPath")
    ?? Reject({Primary, Override} \subseteq in.sigs, "NotRecoveryPath")

check_recovery_path(p) == FirstReject(Inputs(p), PathReject)

-----------------------------------------------------------------------------
(* csv.rs *)

csv_depth(tip, height) == (tip - height) + 1

\* A plausible bug: depth alone, so that fast blocks are enough.
MatureByDepthOnly(tip, height, now, confirmed) ==
    Reject(height > tip \/ csv_depth(tip, height) < CsvBlocks + SafetyMargin, "CsvImmatureDepth")

check_csv_maturity(tip, height, now, confirmed) ==
    Reject(height > tip \/ csv_depth(tip, height) > U32Max, "CsvImmatureDepth")
    ?? Reject(CsvBlocks + SafetyMargin > U32Max, "CsvImmatureDepth")
    ?? Reject(csv_depth(tip, height) < CsvBlocks + SafetyMargin, "CsvImmatureDepth")
    ?? Reject(confirmed + (CsvBlocks + SafetyMargin) * SecondsPerBlock > U64Max,
              "CsvImmatureWallclock")
    ?? Reject(now < confirmed + (CsvBlocks + SafetyMargin) * SecondsPerBlock,
              "CsvImmatureWallclock")

MaturityReject(chain, in) ==
    check_csv_maturity(chain.tip, chain.facts[in.outpoint].confirm_height,
                       chain.now, chain.facts[in.outpoint].header_time)

check_csv_for_inputs(chain, p) ==
    FirstReject(Inputs(p), LAMBDA in : MaturityReject(chain, in))

-----------------------------------------------------------------------------
(* velocity.rs and confirm.rs *)

\* A plausible bug: the window is one block short.
WindowStartTooLate(tip) == IF tip < WindowBlocks THEN 0 ELSE tip - (WindowBlocks - 2)

Sample == [tip_height : Nat, external_sats : Nat]

\* saturating_sub(143): the trailing window of heights that ends at the tip.
WindowStart(tip) == IF tip < WindowBlocks THEN 0 ELSE tip - (WindowBlocks - 1)

\* A plausible bug: what was signed at the tip itself is not counted.
InWindowBelowTip(sample, tip) == sample.tip_height >= WindowStart(tip) /\ sample.tip_height < tip

InWindow(sample, tip) == sample.tip_height >= WindowStart(tip) /\ sample.tip_height <= tip

WindowTotal(samples, tip) ==
    Total([i \in DOMAIN samples |->
              IF InWindow(samples[i], tip) THEN samples[i].external_sats ELSE 0])

check_velocity_window_capped(samples, tip, charged) ==
    Reject(charged > PerSig, "Velocity")
    ?? Reject(charged + WindowTotal(samples, tip) > U64Max, "Velocity")
    ?? Reject(charged + WindowTotal(samples, tip) > PerWindow, "Velocity")

\* What a txid commits to: everything of the transaction but its PSBT metadata.
txid(p) ==
    <<p.content.version, p.content.locktime,
      [i \in DOMAIN Inputs(p) |-> <<Inputs(p)[i].outpoint, Inputs(p)[i].sequence>>],
      p.outputs>>

\* What the override key signs.  A token is the binding it was signed over.
ConfirmBinding(id, p) ==
    [request_id |-> id, txid |-> txid(p),
     external_amount_sats |-> ExternalSats(p), genesis |-> PinGenesis]

\* A malformed token and a signature over anything else fail alike.
verify_confirm_token(token, binding) == Reject(token # binding, "ConfirmInvalid")

\* A plausible bug: a spend of exactly the threshold needs no token.
ConfirmAboveThreshold(request) ==
    IF ExternalSats(request.psbt) <= ConfirmThreshold THEN Ok
    ELSE Reject(request.confirm_token = None, "ConfirmRequired")
         ?? verify_confirm_token(request.confirm_token,
                                 ConfirmBinding(request.request_id, request.psbt))

check_confirm(request) ==
    IF ExternalSats(request.psbt) < ConfirmThreshold THEN Ok
    ELSE Reject(request.confirm_token = None, "ConfirmRequired")
         ?? verify_confirm_token(request.confirm_token,
                                 ConfirmBinding(request.request_id, request.psbt))

-----------------------------------------------------------------------------
(* The D5 rules that follow a FeeBump verdict, and the whole machine. *)

BumpReject(previous, c) ==
    IF ~outpoints_identical(previous, c)
    THEN Reject(outpoints_overlap(previous, c), "Replay")
    ELSE Reject(~is_vault_change_only(previous, c), "FeeBumpInvalid")
         ?? Reject(ExternalSats(c.psbt) > External(previous).value, "FeeBumpInvalid")

enforce_fee_bump_policy(log, c) ==
    FirstReject(log, LAMBDA previous : BumpReject(previous, c))
    ?? Reject(~\E i \in DOMAIN log : outpoints_identical(log[i], c), "FeeBumpInvalid")

Candidate(request) == from_pin(PinScript, request.request_id, request.psbt)

Verdict(log, request) == preflight(log, Candidate(request))

\* What a spend is charged in the window: a fee bump moves nothing new.
Charged(log, request) ==
    IF Verdict(log, request) = "FeeBump" THEN 0 ELSE ExternalSats(request.psbt)

\* Everything after the replay stage, for a Fresh or FeeBump verdict.
PolicyReject(request, chain, log, samples) ==
    LET p == request.psbt IN
    Reject(p.content.locktime # 0, "Locktime")
    ?? Reject(p.content.version # 2, "NotRecoveryPath")
    ?? Reject(Len(Inputs(p)) > MaxInputs, "Fee")
    ?? require_sighash_all_on_psbt(p)
    ?? collect_prevouts(p)
    ?? classify_amounts(p)
    ?? Reject(FeeSats(p) > MaxFee \/ FeeSats(p) = 0, "Fee")
    ?? check_inputs_against_pin(p)
    ?? check_chain_prevouts(chain, p)
    ?? check_recovery_path(p)
    ?? Reject(chain.genesis # PinGenesis, "WrongGenesis")
    ?? check_csv_for_inputs(chain, p)
    ?? Reject(request.claimed_external_sats # ExternalSats(p), "Fee")
    ?? check_dust(p)
    ?? (IF Verdict(log, request) = "FeeBump"
        THEN enforce_fee_bump_policy(log, Candidate(request)) ELSE Ok)
    ?? Reject(ExternalSats(p) > PerSig, "Velocity")
    ?? check_velocity_window_capped(samples, chain.tip, Charged(log, request))
    ?? check_confirm(request)

\* A reject code, "Idempotent", or "ValidatedUnsigned".
evaluate(request, auth, chain, log, samples) ==
    Reject(~auth, "Auth")
    ?? parse_psbt_v0(request.psbt)
    ?? require_no_unknown_psbt_fields(request.psbt)
    ?? Reject(Verdict(log, request) \notin {"Fresh", "FeeBump"}, Verdict(log, request))
    ?? PolicyReject(request, chain, log, samples)
    ?? "ValidatedUnsigned"
============================================================================
