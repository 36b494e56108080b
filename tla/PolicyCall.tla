----------------------------- MODULE PolicyCall -----------------------------
(***************************************************************************)
(* One call of evaluate() on any of a set of calls, and the policy it is   *)
(* meant to enforce, stated from the rules of the threat model rather than *)
(* from the checks: what an approved spend does to the coins that Core B   *)
(* knows, and what a reject code says about the request.                   *)
(***************************************************************************)
EXTENDS Policy

CONSTANT Calls  \* records [request, auth, chain, log, samples]

\* A request: a PSBT whose inputs are told apart by their coins, and a token that is
\* none or has the fields that are signed.
RequestOk(q) ==
    LET ins == Inputs(q.psbt)
        token == q.confirm_token
    IN  /\ q.request_id \in RequestIds
        /\ ins \in Seq(ToSet(ins))
        /\ q.psbt.inputs = {in.outpoint : in \in ToSet(ins)}
        /\ \A i, j \in DOMAIN ins : ins[i].outpoint = ins[j].outpoint => i = j
        /\ \A in \in ToSet(ins) : in.sequence \in Nat \cup {None}
        /\ token # None =>
               token = [request_id |-> token.request_id, txid |-> token.txid,
                        external_amount_sats |-> token.external_amount_sats,
                        genesis |-> token.genesis]

\* A view of Core B: heights, and times and amounts within a u64.
ViewOk(view) ==
    /\ view.tip \in Nat /\ view.now \in 0..U64Max
    /\ \A o \in DOMAIN view.facts :
           /\ view.facts[o].txout \in TxOut
           /\ {view.facts[o].confirm_height, view.facts[o].header_time} \subseteq Nat

\* A store content that the agent's own commits lead to.
LogOk(log) ==
    /\ log \in Seq(Record) /\ Consistent(log)
    /\ \A i \in DOMAIN log : Classifiable(log[i])

ASSUME CallsAssumption ==
    /\ {k.request.psbt : k \in Calls} \subseteq Psbts
    /\ \A k \in Calls : /\ RequestOk(k.request)
                        /\ ViewOk(k.chain)
                        /\ LogOk(k.log)
                        /\ k.samples \in Seq(Sample)

VARIABLES call, answer

vars == <<call, answer>>

NoAnswer == "no answer yet"

Init == call \in Calls /\ answer = NoAnswer

Next ==
    /\ answer = NoAnswer
    /\ answer' = evaluate(call.request, call.auth, call.chain, call.log, call.samples)
    /\ UNCHANGED call

Spec == Init /\ [][Next]_vars

-----------------------------------------------------------------------------
(* The rules, over the coins as Core B reports them. *)

psbt == call.request.psbt
chain == call.chain
coins == {Inputs(psbt)[i].outpoint : i \in DOMAIN Inputs(psbt)}
KnownCoins == coins \cap DOMAIN chain.facts

SumOf(S, Value(_)) == SumFunction([s \in S |-> Value(s)])

CoinSats(o) == chain.facts[o].txout.value
PaidSats(i) == psbt.outputs[i].value

\* What leaves the vault when the transaction is mined.
SpentSats == SumOf(KnownCoins, CoinSats)
PaidOut == SumOf(Leaving(psbt), PaidSats)
PaidBack == SumOf(Returning(psbt), PaidSats)

CoinIsOurs(o) ==
    /\ o \in DOMAIN chain.facts
    /\ chain.facts[o].visible_unspent
    /\ chain.facts[o].txout.script = PinScript

CoinIsMature(o) ==
    LET units == CsvBlocks + SafetyMargin IN
    /\ chain.facts[o].confirm_height + units <= chain.tip + 1
    /\ chain.facts[o].header_time + units * SecondsPerBlock <= chain.now

\* A bump of something already signed moves no new money out of the vault.
IsBump == \E i \in DOMAIN call.log : call.log[i].psbt.inputs = psbt.inputs

OutputShapeBroken == Cardinality(Leaving(psbt)) # 1 \/ Cardinality(Returning(psbt)) > 1

RecentSats ==
    SumOf({i \in DOMAIN call.samples :
              call.samples[i].tip_height \in (chain.tip - WindowBlocks + 1)..chain.tip},
          LAMBDA i : call.samples[i].external_sats)

\* The override key signed for this request, transaction, amount and chain.
Confirmed ==
    LET token == call.request.confirm_token IN
    /\ token # None
    /\ token.request_id = call.request.request_id
    /\ token.txid = txid(psbt)
    /\ token.external_amount_sats = PaidOut
    /\ token.genesis = chain.genesis

-----------------------------------------------------------------------------
(* What a request has to break for each reject code. *)

\* What the PSBT says of the output that an input spends, in two places, and what
\* Core B says of it.
Told(in) ==
    {in.witness_utxo, IF in.prev_tx = None THEN None ELSE in.prev_tx.output} \ {None}

Accounts(in) ==
    Told(in) \cup {chain.facts[o].txout : o \in {in.outpoint} \cap DOMAIN chain.facts}

ToldSats ==
    LET said == [i \in DOMAIN Inputs(psbt) |-> (CHOOSE out \in Told(Inputs(psbt)[i]) : TRUE).value]
    IN  SumFunction(said)

\* A bump is charged nothing, yet it is rejected too when a reorganisation has left
\* the window over its cap (evaluate.rs:182-196).
OverVelocity ==
    \/ PaidOut > PerSig
    \/ PaidOut + RecentSats > PerWindow /\ ~IsBump
    \/ RecentSats > PerWindow

\* "Fee" is also the code of a wrong claim, of too many inputs and of amounts that
\* do not fit the code's integers.
FeeBroken ==
    \/ Len(Inputs(psbt)) > MaxInputs
    \/ ToldSats > U64Max
    \/ PaidOut + PaidBack > U64Max
    \/ ToldSats - (PaidOut + PaidBack) \notin 1..MaxFee
    \/ call.request.claimed_external_sats # PaidOut

Dusty(i) == psbt.outputs[i].value < Dust /\ (i \in Leaving(psbt) \/ psbt.outputs[i].value # 0)

OffRecoveryPath(in) ==
    \/ in.finalized
    \/ in.sequence = None
    \/ in.sequence < CsvBlocks
    \/ {Primary, Override} \subseteq in.sigs

TooYoung(o) ==
    \/ chain.facts[o].confirm_height + CsvBlocks + SafetyMargin > chain.tip + 1
    \/ chain.tip - chain.facts[o].confirm_height >= U32Max

TooRecent(o) ==
    chain.facts[o].header_time + (CsvBlocks + SafetyMargin) * SecondsPerBlock > chain.now

Breaks(code) ==
    LET ins == ToSet(Inputs(psbt))
        token == call.request.confirm_token
    IN
    CASE code = "Auth" -> ~call.auth
      [] code = "PsbtParse" ->
             ~psbt.content.parses \/ Inputs(psbt) = <<>> \/ psbt.outputs = <<>>
      [] code = "UnknownField" -> psbt.content.unknown
      [] code = "Locktime" -> psbt.content.locktime # 0
      [] code = "Sighash" -> \E in \in ins : in.sighash # "all" \/ ~in.sigs_all
      [] code = "PrevoutMissing" ->
             \E in \in ins : \/ Told(in) = {}
                             \/ in.prev_tx # None /\ in.prev_tx.output = None
                             \/ in.outpoint \notin DOMAIN chain.facts
      [] code = "PrevoutMismatch" ->
             \E in \in ins : \/ in.prev_tx # None /\ ~in.prev_tx.txid_matches
                             \/ \E a, b \in Accounts(in) : a # b
      [] code = "Fee" -> FeeBroken
      [] code = "Dust" -> \E i \in DOMAIN psbt.outputs : Dusty(i)
      [] code = "Change" -> OutputShapeBroken
      [] code = "ForeignInput" ->
             \E in \in ins : \/ ~CoinIsOurs(in.outpoint)
                             \/ \E out \in Told(in) : out.script # PinScript
      [] code = "DescriptorMismatch" ->
             \E in \in ins : in.witness_script # PinWitness \/ in.redeem_script
      [] code = "KeySubstitution" ->
             \E in \in ins : ~(in.sigs \cup in.bip32 \subseteq {Primary, Override, Agent})
      [] code = "NotRecoveryPath" ->
             psbt.content.version # 2 \/ \E in \in ins : OffRecoveryPath(in)
      [] code = "WrongGenesis" -> chain.genesis # PinGenesis
      [] code = "CsvImmatureDepth" -> \E o \in coins : TooYoung(o)
      [] code = "CsvImmatureWallclock" -> \E o \in coins : TooRecent(o)
      [] code = "Velocity" -> OverVelocity
      [] code = "ConfirmRequired" -> PaidOut >= ConfirmThreshold /\ token = None
      [] code = "ConfirmInvalid" -> PaidOut >= ConfirmThreshold /\ token # None /\ ~Confirmed
      [] code = "ReplayConflict" ->
             \E r \in RecordsIn(call.log) : /\ r.request_id = call.request.request_id
                                            /\ r.psbt # psbt
      [] code = "Replay" ->
             \E r \in RecordsIn(call.log) :
                 /\ r.psbt.inputs \cap psbt.inputs # {}
                 /\ OutputShapeBroken \/ ~MayFollow(r, Candidate(call.request))
      [] OTHER -> FALSE

-----------------------------------------------------------------------------
(* Properties. *)

\* An approved request spends only coins of the vault that Core B sees unspent
\* and mature by blocks and by clock, pays exactly one payee, returns the rest to
\* the vault but for a bounded fee, and stays inside the velocity window
\* (THREAT_MODEL.md invariants 5-10; evaluate.rs:79-205).
ApprovedMovesOnlyWhatPolicyAllows ==
    answer = "ValidatedUnsigned" =>
        /\ \A o \in coins : CoinIsOurs(o) /\ CoinIsMature(o)
        /\ Cardinality(Leaving(psbt)) = 1
        /\ SpentSats - (PaidOut + PaidBack) \in 1..MaxFee
        /\ PaidOut = call.request.claimed_external_sats
        /\ PaidOut <= PerSig
        /\ PaidOut + RecentSats <= PerWindow \/ IsBump

\* An approval or a cached answer never contradicts what was signed before:
\* an approval may follow every record of the store, and a cached answer is for
\* the very same PSBT (replay.rs:293-340).
ApprovedFollowsTheLog ==
    /\ answer = "ValidatedUnsigned" =>
           \A i \in DOMAIN call.log : MayFollow(call.log[i], Candidate(call.request))
    /\ answer = "Idempotent" =>
           \E i \in DOMAIN call.log : /\ call.log[i].request_id = call.request.request_id
                                      /\ call.log[i].psbt = psbt

\* From the threshold on, an approval carries a token that the override key
\* signed for this request and this transaction (confirm.rs, invariant 11).
LargeSpendIsConfirmed ==
    answer = "ValidatedUnsigned" /\ PaidOut >= ConfirmThreshold => Confirmed

\* A reject code is never a pretext: the request breaks the rule that the code names,
\* so no admissible spend is turned away, and none for another's fault (every code of
\* error.rs that evaluate answers).  The D5 rules and the consistency check of the
\* store add nothing to its verdict: FeeBumpInvalid and Internal are never answered
\* (evaluate.rs:512-559, replay.rs:293-340).
RejectedForCause ==
    answer \in {NoAnswer, "Idempotent", "ValidatedUnsigned"} \/ Breaks(answer)

-----------------------------------------------------------------------------
(* The order of the stages. *)

\* "observe first matching reject code only" (PSBT_AGENT_PROTOCOL.md, 11.8): a
\* request that fails the pin/witness match is rejected for that, not for the
\* foreign input that the next stage looks for.
FirstStageReports ==
    answer = "ForeignInput" =>
        \A i \in DOMAIN Inputs(psbt) : Inputs(psbt)[i].witness_script = PinWitness
============================================================================
