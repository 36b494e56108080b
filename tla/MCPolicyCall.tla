---------------------------- MODULE MCPolicyCall ----------------------------
(***************************************************************************)
(* Calls of evaluate() on a vault with two coins: one admissible request,  *)
(* changed in up to MaxChanges of the ways listed below, each at the edge  *)
(* of one check of the code.                                               *)
(***************************************************************************)
EXTENDS PolicyCall

CONSTANTS c1, c2, c3, payee, rival, vault, MaxChanges

MCOutPoints == {c1, c2, c3}
MCScripts == {payee, rival, vault}
MCVaultScripts == {vault}

Out(s, v) == [script |-> s, value |-> v]

GoodInput(o) ==
    [outpoint |-> o, witness_utxo |-> Out(vault, 6), prev_tx |-> None,
     witness_script |-> PinWitness, redeem_script |-> FALSE,
     sighash |-> "all", sigs_all |-> TRUE, sigs |-> {Primary}, bip32 |-> {},
     finalized |-> FALSE, sequence |-> CsvBlocks]

PsbtOf(ins, outs) ==
    [inputs |-> {ins[i].outpoint : i \in DOMAIN ins}, outputs |-> outs,
     content |-> [parses |-> TRUE, unknown |-> FALSE, locktime |-> 0, version |-> 2,
                  ins |-> ins]]

GoodPsbt == PsbtOf(<<GoodInput(c1), GoodInput(c2)>>, <<Out(payee, 4), Out(vault, 6)>>)

Fact(h, t) ==
    [txout |-> Out(vault, 6), confirm_height |-> h, header_time |-> t,
     visible_unspent |-> TRUE]

SampleAt(h, v) == [tip_height |-> h, external_sats |-> v]

\* Depth, clock and window are met exactly; one more unit of anything is too much.
Fact2 == Fact(9, 18)

GoodCall ==
    [request |-> [request_id |-> "r1", psbt |-> GoodPsbt, confirm_token |-> None,
                  claimed_external_sats |-> 4],
     auth |-> TRUE,
     chain |-> [genesis |-> PinGenesis, tip |-> 12, now |-> 26,
                facts |-> (c1 :> Fact(10, 20) @@ c2 :> Fact2)],
     log |-> <<>>,
     samples |-> <<SampleAt(9, 3), SampleAt(10, 3), SampleAt(12, 3)>>]

WithPsbt(k, p) == [k EXCEPT !.request.psbt = p]
WithOutputs(k, outs) == [k EXCEPT !.request.psbt.outputs = outs]
WithInput(k, in) == WithPsbt(k, [k.request.psbt EXCEPT !.content.ins[2] = in])
WithFact(k, fact) == [k EXCEPT !.chain.facts = c2 :> fact @@ @]
OldPsbt(outs) == [GoodPsbt EXCEPT !.outputs = outs]

\* What the override key signs, when the PSBT has a payee at all.
Token(id, p) == IF Leaving(p) = {} THEN None ELSE ConfirmBinding(id, p)
Signed(id, p) == attach_signed(from_pin(PinScript, id, p), "s1")

\* The log holds only what the agent could have signed earlier.
Signable(p) ==
    /\ Cardinality(Leaving(p)) = 1
    /\ evaluate([request_id |-> "r2", psbt |-> p, confirm_token |-> Token("r2", p),
                 claimed_external_sats |-> ExternalSats(p)],
                TRUE, GoodCall.chain, <<>>, <<>>) = "ValidatedUnsigned"
WithLog(k, id, p) == IF Signable(p) THEN [k EXCEPT !.log = <<Signed(id, p)>>] ELSE k

ChangesOfCall ==
    {"auth", "parse", "unknown", "locktime", "version", "genesis", "claim",
     "thirdInput", "noTip", "earlyTip", "earlyClock", "lateHeight", "windowFull",
     "windowOld", "windowAhead", "windowOver", "windowEmpty", "confirmed",
     "misboundToken", "unseen", "spent", "liedValue", "foreignFact", "retry", "conflict", "bump", "sameSpend",
     "grownBump", "dropped"}

ChangesOfOutputs ==
    {"twoPayees", "twoChanges", "noPayee", "noChange", "large", "tooLarge", "dustChange",
     "dustPayee", "fee", "noFee", "overspent", "overflow"}

ChangesOfInput ==
    {"noUtxo", "prevTx", "wrongPrevTx", "prevTxShort", "prevTxDiffers", "foreign",
     "noWitness", "redeem", "strangeSig", "strangeBip32", "final", "sequence",
     "override", "sighash", "sigsNone"}

ApplyToCall(k, d) ==
    CASE d = "auth"          -> [k EXCEPT !.auth = FALSE]
      [] d = "parse"         -> [k EXCEPT !.request.psbt.content.parses = FALSE]
      [] d = "unknown"       -> [k EXCEPT !.request.psbt.content.unknown = TRUE]
      [] d = "locktime"      -> [k EXCEPT !.request.psbt.content.locktime = 1]
      [] d = "version"       -> [k EXCEPT !.request.psbt.content.version = 1]
      [] d = "genesis"       -> [k EXCEPT !.chain.genesis = "othernet"]
      [] d = "claim"         -> [k EXCEPT !.request.claimed_external_sats = 3]
      [] d = "thirdInput"    -> [k EXCEPT !.request.psbt.content.ins =
                                              SubSeq(@, 1, 2) \o <<GoodInput(c3)>>,
                                          !.request.psbt.inputs = {c1, c2, c3}]
      [] d = "noTip"         -> [k EXCEPT !.chain.tip = 9]
      [] d = "earlyTip"      -> [k EXCEPT !.chain.tip = 11]
      [] d = "earlyClock"    -> [k EXCEPT !.chain.now = 25]
      [] d = "lateHeight"    -> WithFact(k, [Fact2 EXCEPT !.confirm_height = 0])
      [] d = "windowFull"    -> [k EXCEPT !.samples = Append(@, SampleAt(11, 1))]
      [] d = "windowOld"     -> [k EXCEPT !.samples = Append(@, SampleAt(9, 9))]
      [] d = "windowAhead"   -> [k EXCEPT !.samples = Append(@, SampleAt(13, 9))]
      [] d = "windowOver"    -> [k EXCEPT !.samples = Append(@, SampleAt(10, 9))]
      [] d = "windowEmpty"   -> [k EXCEPT !.samples = <<>>]
      [] d = "confirmed"     -> [k EXCEPT !.request.confirm_token =
                                    Token("r1", k.request.psbt)]
      [] d = "misboundToken" -> [k EXCEPT !.request.confirm_token =
                                    Token("r2", k.request.psbt)]
      [] d = "unseen"        -> [k EXCEPT !.chain.facts = c1 :> Fact(10, 20)]
      [] d = "spent"         -> WithFact(k, [Fact2 EXCEPT !.visible_unspent = FALSE])
      [] d = "liedValue"     -> WithFact(k, [Fact2 EXCEPT !.txout.value = 5])
      [] d = "foreignFact"   -> WithFact(k, [Fact2 EXCEPT !.txout.script = rival])
      [] d = "retry"         -> WithLog(k, "r1", k.request.psbt)
      [] d = "conflict"      -> WithLog(k, "r1", OldPsbt(<<Out(rival, 4), Out(vault, 7)>>))
      [] d = "bump"          -> WithLog(k, "r2", OldPsbt(<<Out(payee, 4), Out(vault, 7)>>))
      [] d = "sameSpend"     -> WithLog(k, "r2", k.request.psbt)
      [] d = "grownBump"     -> WithLog(k, "r2", OldPsbt(<<Out(payee, 3), Out(vault, 7)>>))
      [] d = "dropped"       -> WithLog(k, "r2", PsbtOf(<<GoodInput(c1)>>, <<Out(payee, 4)>>))

ApplyToOutputs(k, d) ==
    CASE d = "twoPayees"  -> WithOutputs(k, <<Out(payee, 4), Out(rival, 1), Out(vault, 5)>>)
      [] d = "twoChanges" -> WithOutputs(k, <<Out(payee, 4), Out(vault, 3), Out(vault, 3)>>)
      [] d = "noPayee"    -> WithOutputs(k, <<Out(vault, 10)>>)
      [] d = "noChange"   -> WithOutputs(k, <<Out(payee, 4)>>)
      [] d = "large"      -> [WithOutputs(k, <<Out(payee, 5), Out(vault, 5)>>)
                                 EXCEPT !.request.claimed_external_sats = 5,
                                        !.samples = <<>>]
      [] d = "tooLarge"   -> [WithOutputs(k, <<Out(payee, 9), Out(vault, 2)>>)
                                 EXCEPT !.request.claimed_external_sats = 9]
      [] d = "dustChange" -> [WithOutputs(k, <<Out(payee, 9), Out(vault, 1)>>)
                                 EXCEPT !.request.claimed_external_sats = 9]
      [] d = "dustPayee"  -> [WithOutputs(k, <<Out(payee, 1), Out(vault, 9)>>)
                                 EXCEPT !.request.claimed_external_sats = 1]
      [] d = "fee"        -> WithOutputs(k, <<Out(payee, 4), Out(vault, 5)>>)
      [] d = "noFee"      -> WithOutputs(k, <<Out(payee, 4), Out(vault, 8)>>)
      [] d = "overspent"  -> WithOutputs(k, <<Out(payee, 4), Out(vault, 9)>>)
      [] d = "overflow"   -> WithOutputs(k, <<Out(payee, 4), Out(vault, U64Max)>>)

ApplyToInput(k, d) ==
    LET in == Inputs(k.request.psbt)[2] IN
    CASE d = "noUtxo"        -> WithInput(k, [in EXCEPT !.witness_utxo = None])
      [] d = "prevTx"        -> WithInput(k, [in EXCEPT !.witness_utxo = None,
                 !.prev_tx = [txid_matches |-> TRUE, output |-> Out(vault, 6)]])
      [] d = "wrongPrevTx"   -> WithInput(k, [in EXCEPT
                 !.prev_tx = [txid_matches |-> FALSE, output |-> Out(vault, 6)]])
      [] d = "prevTxShort"   -> WithInput(k, [in EXCEPT
                 !.prev_tx = [txid_matches |-> TRUE, output |-> None]])
      [] d = "prevTxDiffers" -> WithInput(k, [in EXCEPT
                 !.prev_tx = [txid_matches |-> TRUE, output |-> Out(vault, 5)]])
      [] d = "foreign"       -> WithInput(k, [in EXCEPT !.witness_utxo = Out(rival, 6)])
      [] d = "noWitness"     -> WithInput(k, [in EXCEPT !.witness_script = None])
      [] d = "redeem"        -> WithInput(k, [in EXCEPT !.redeem_script = TRUE])
      [] d = "strangeSig"    -> WithInput(k, [in EXCEPT !.sigs = {"mallory"}])
      [] d = "strangeBip32"  -> WithInput(k, [in EXCEPT !.bip32 = {"mallory"}])
      [] d = "final"         -> WithInput(k, [in EXCEPT !.finalized = TRUE])
      [] d = "sequence"      -> WithInput(k, [in EXCEPT !.sequence = CsvBlocks - 1])
      [] d = "override"      -> WithInput(k, [in EXCEPT !.sigs = {Primary, Override}])
      [] d = "sighash"       -> WithInput(k, [in EXCEPT !.sighash = "none"])
      [] d = "sigsNone"      -> WithInput(k, [in EXCEPT !.sigs_all = FALSE])

Edits == ChangesOfCall \cup ChangesOfOutputs \cup ChangesOfInput

Apply(k, d) ==
    CASE d \in ChangesOfOutputs -> ApplyToOutputs(k, d)
      [] d \in ChangesOfInput   -> ApplyToInput(k, d)
      [] d \in ChangesOfCall    -> ApplyToCall(k, d)

\* Edits in every order: a token or a log entry is made from the PSBT it meets.
MCCalls ==
    FoldLeft(LAMBDA calls, n : calls \cup {Apply(k, d) : k \in calls, d \in Edits},
             {GoodCall}, [n \in 1..MaxChanges |-> n])

\* What they present, now or earlier: a log here has at most one record.
MCPsbts ==
    {(IF now \/ k.log = <<>> THEN k.request ELSE k.log[1]).psbt : k \in MCCalls, now \in BOOLEAN}
============================================================================
