-------------------------- MODULE PolicyCallProofs --------------------------
(***************************************************************************)
(* What evaluate() enforces, for every pin, policy, view, store content    *)
(* and list of samples: the rules of PolicyCall follow from the checks.    *)
(*                                                                         *)
(* A call has one step, so the invariant says only what the answer is.     *)
(* The work is in reading the rules off an answer: sums over inputs are    *)
(* sums over coins, the outputs that leave are one, and the codes that     *)
(* each check can answer with are told apart.                              *)
(***************************************************************************)
EXTENDS PolicyCall, PolicyProofs

Answer == evaluate(call.request, call.auth, chain, call.log, call.samples)

CallInv == call \in Calls /\ answer \in {NoAnswer, Answer}

\* The answer, once there is one, is that of evaluate on the call.
THEOREM CallInvariant == Spec => []CallInv
<1>1. Init => CallInv
    BY DEF Init, CallInv
<1>2. CallInv /\ [Next]_vars => CallInv'
    BY DEF CallInv, Next, vars, Answer, chain
<1> QED
    BY <1>1, <1>2, PTL DEF Spec

\* What a call is made of.
LEMMA CallIsTyped ==
    ASSUME CallInv
    PROVE  /\ psbt \in Psbts
           /\ RequestOk(call.request)
           /\ ViewOk(chain)
           /\ LogOk(call.log)
           /\ call.samples \in Seq(Sample)
BY CallsAssumption DEF CallInv, psbt, chain

\* Positions of inputs and outputs are finitely many numbers.
LEMMA PositionsAreFinite ==
    ASSUME CallInv
    PROVE  /\ psbt.outputs \in Seq(TxOut)
           /\ IsFiniteSet(DOMAIN psbt.outputs)
           /\ IsFiniteSet(DOMAIN Inputs(psbt))
           /\ DOMAIN Inputs(psbt) \subseteq Nat
           /\ DOMAIN call.log \subseteq Nat
           /\ psbt.inputs = coins
<1>1. psbt.outputs \in Seq(TxOut)
    BY CallIsTyped, PsbtsAssumption
<1>2. Inputs(psbt) \in Seq(ToSet(Inputs(psbt))) /\ call.log \in Seq(Record)
    BY CallIsTyped DEF RequestOk, LogOk, psbt
<1>3. /\ IsFiniteSet(DOMAIN psbt.outputs)
      /\ IsFiniteSet(DOMAIN Inputs(psbt))
      /\ DOMAIN Inputs(psbt) \subseteq Nat
      /\ DOMAIN call.log \subseteq Nat
    <2>1. /\ DOMAIN psbt.outputs = 1..Len(psbt.outputs) /\ Len(psbt.outputs) \in Nat
          /\ DOMAIN Inputs(psbt) = 1..Len(Inputs(psbt)) /\ Len(Inputs(psbt)) \in Nat
          /\ DOMAIN call.log = 1..Len(call.log) /\ Len(call.log) \in Nat
        BY <1>1, <1>2
    <2>2. \A n \in Nat : IsFiniteSet(1..n) /\ 1..n \subseteq Nat
        BY FS_Interval
    <2> QED
        BY <2>1, <2>2
<1>4. psbt.inputs = {in.outpoint : in \in ToSet(Inputs(psbt))}
    BY CallIsTyped DEF RequestOk, psbt
<1>5. psbt.inputs = coins
    BY <1>4 DEF coins, ToSet
<1> QED
    BY <1>1, <1>3, <1>5

-----------------------------------------------------------------------------
(* Amounts. *)

OutputSat == [i \in DOMAIN psbt.outputs |-> psbt.outputs[i].value]

\* What is paid out and what returns add up to the outputs.
LEMMA PaidIsOutput ==
    ASSUME CallInv
    PROVE  /\ PaidOut \in Nat /\ PaidBack \in Nat
           /\ OutputSats(psbt) = PaidOut + PaidBack
<1> DEFINE out == DOMAIN psbt.outputs
           left == Leaving(psbt)
           back == Returning(psbt)
<1>1. IsFiniteSet(out) /\ psbt.outputs \in Seq(TxOut)
    BY PositionsAreFinite
<1>2. /\ left \subseteq out /\ back \subseteq out /\ left \cap back = {}
      /\ left \cup back = out
    BY DEF Leaving, Returning
<1>3. IsFiniteSet(left) /\ IsFiniteSet(back)
    BY <1>1, <1>2, FS_Subset
<1>4. \A i \in out : OutputSat[i] \in Nat /\ OutputSat[i] = PaidSats(i)
    <2> SUFFICES ASSUME NEW i \in out PROVE OutputSat[i] \in Nat /\ OutputSat[i] = PaidSats(i)
        OBVIOUS
    <2>1. psbt.outputs[i] \in TxOut
        BY <1>1
    <2> QED
        BY <2>1 DEF OutputSat, PaidSats, TxOut
<1>5. OutputSats(psbt) = SumFunctionOnSet(OutputSat, out)
    BY DEF OutputSats, Total, SumFunction, OutputSat
<1>6. ASSUME NEW S \in SUBSET out
      PROVE  SumOf(S, PaidSats) = SumFunctionOnSet(OutputSat, S)
    <2> DEFINE paid == [i \in S |-> PaidSats(i)]
    <2>1. SumOf(S, PaidSats) = SumFunctionOnSet(paid, S)
        BY DEF SumOf, SumFunction
    <2>2. \A i \in S : OutputSat[i] \in Nat /\ OutputSat[i] = paid[i]
        BY <1>4
    <2>3. IsFiniteSet(S)
        BY <1>1, FS_Subset
    <2> HIDE DEF paid
    <2>4. SumFunctionOnSet(OutputSat, S) = SumFunctionOnSet(paid, S)
        BY <2>2, <2>3, SumSame
    <2> QED
        BY <2>1, <2>4
<1>7. PaidOut = SumFunctionOnSet(OutputSat, left) /\ PaidBack = SumFunctionOnSet(OutputSat, back)
    BY <1>2, <1>6 DEF PaidOut, PaidBack
<1> HIDE DEF out, left, back
<1>8. /\ SumFunctionOnSet(OutputSat, left) \in Nat
      /\ SumFunctionOnSet(OutputSat, back) \in Nat
    BY <1>2, <1>3, <1>4, SumStep
<1>9. SumFunctionOnSet(OutputSat, left \cup back)
      = SumFunctionOnSet(OutputSat, left) + SumFunctionOnSet(OutputSat, back)
    BY <1>2, <1>3, <1>4, SumDisjoint
<1>10. SumFunctionOnSet(OutputSat, left \cup back) = SumFunctionOnSet(OutputSat, out)
    BY <1>2
<1> QED
    BY <1>5, <1>7, <1>8, <1>9, <1>10

\* When one output leaves, it is what is paid out.
LEMMA PaidIsExternal ==
    ASSUME CallInv, Cardinality(Leaving(psbt)) = 1
    PROVE  PaidOut = ExternalSats(psbt)
<1>1. IsFiniteSet(Leaving(psbt))
    BY PositionsAreFinite, FS_Subset DEF Leaving
<1>2. PICK i : Leaving(psbt) = {i}
    BY <1>1, FS_Singleton
<1> DEFINE paid == [j \in {i} |-> PaidSats(j)]
<1>3. PaidOut = SumFunctionOnSet(paid, {i})
    BY <1>2 DEF PaidOut, SumOf, SumFunction
<1>4. ExternalSats(psbt) = PaidSats(i)
    BY <1>2 DEF ExternalSats, ExternalOut, PaidSats
<1>5. i \in DOMAIN psbt.outputs
    BY <1>2 DEF Leaving
<1>6. psbt.outputs[i] \in TxOut
    BY <1>5, PositionsAreFinite
<1>7. paid[i] \in Nat /\ paid[i] = PaidSats(i)
    BY <1>6 DEF PaidSats, TxOut
<1> HIDE DEF paid
<1>8. SumFunctionOnSet(paid, {i}) = paid[i]
    <2>1. SumFunctionOnSet(paid, {}) = 0 /\ IsFiniteSet({})
        BY SumUnfolds, FS_EmptySet
    <2>2. SumFunctionOnSet(paid, {} \cup {i}) = SumFunctionOnSet(paid, {}) + paid[i]
        BY <1>7, <2>1, SumAdd
    <2>3. {} \cup {i} = {i}
        OBVIOUS
    <2>4. SumFunctionOnSet(paid, {i}) = SumFunctionOnSet(paid, {}) + paid[i]
        BY <2>2, <2>3, Zenon
    <2> QED
        BY <1>7, <2>1, <2>4
<1> QED
    BY <1>3, <1>4, <1>7, <1>8

\* Core B reports for every input what the input says it spends, so that the sum
\* over the inputs is the sum over the coins.
LEMMA SpentIsInput ==
    ASSUME CallInv, \A i \in DOMAIN Inputs(psbt) : FactReject(chain, Inputs(psbt)[i]) = Ok
    PROVE  InputSats(psbt) = SpentSats /\ SpentSats \in Nat
<1> DEFINE ins == DOMAIN Inputs(psbt)
           value == [i \in ins |-> Prevout(Inputs(psbt)[i]).value]
           coin == [i \in ins |-> Inputs(psbt)[i].outpoint]
           sats == [o \in KnownCoins |-> CoinSats(o)]
<1>1. IsFiniteSet(ins)
    BY PositionsAreFinite
<1>2. \A i \in ins : /\ coin[i] \in DOMAIN chain.facts
                     /\ chain.facts[coin[i]].txout = Prevout(Inputs(psbt)[i])
    BY EitherRejects DEF FactReject, Reject, Ok
<1>3. KnownCoins = {coin[i] : i \in ins}
    BY <1>2 DEF KnownCoins, coins
<1>4. \A i, j \in ins : coin[i] = coin[j] => i = j
    BY CallIsTyped DEF RequestOk, psbt
<1>5. \A i \in ins : value[i] \in Nat /\ sats[coin[i]] = value[i]
    <2> SUFFICES ASSUME NEW i \in ins PROVE value[i] \in Nat /\ sats[coin[i]] = value[i]
        OBVIOUS
    <2>1. chain.facts[coin[i]].txout \in TxOut
        BY <1>2, CallIsTyped DEF ViewOk
    <2>2. chain.facts[coin[i]].txout.value \in Nat
        BY <2>1 DEF TxOut
    <2>3. coin[i] \in KnownCoins
        BY <1>3
    <2>4. sats[coin[i]] = chain.facts[coin[i]].txout.value
        BY <2>3 DEF CoinSats
    <2>5. value[i] = chain.facts[coin[i]].txout.value
        BY <1>2
    <2> QED
        BY <2>2, <2>4, <2>5
<1>6. InputSats(psbt) = SumFunctionOnSet(value, ins)
    BY DEF InputSats, Total, SumFunction
<1>7. SpentSats = SumFunctionOnSet(sats, {coin[i] : i \in ins})
    BY <1>3 DEF SpentSats, SumOf, SumFunction
<1> HIDE DEF ins, value, coin, sats
<1>8. SumFunctionOnSet(value, ins) \in Nat
    BY <1>1, <1>5, SumStep
<1>9. \A i \in ins : sats[coin[i]] \in Nat /\ value[i] <= sats[coin[i]]
    BY <1>5
<1>10. SumFunctionOnSet(value, ins) = SumFunctionOnSet(sats, {coin[i] : i \in ins})
    BY <1>1, <1>4, <1>5, <1>9, SumInjective
<1> QED
    BY <1>6, <1>7, <1>8, <1>10

-----------------------------------------------------------------------------
(* Samples. *)

RecentSamples ==
    {i \in DOMAIN call.samples :
        call.samples[i].tip_height \in (chain.tip - WindowBlocks + 1)..chain.tip}

\* The window that the code sums is the last WindowBlocks heights up to the tip.
LEMMA WindowIsRecent ==
    ASSUME CallInv
    PROVE  RecentSats = WindowTotal(call.samples, chain.tip) /\ RecentSats \in Nat
<1> DEFINE all == DOMAIN call.samples
           sats == [i \in RecentSamples |-> call.samples[i].external_sats]
           windowed == [i \in all |-> IF InWindow(call.samples[i], chain.tip)
                                      THEN call.samples[i].external_sats ELSE 0]
<1>1. call.samples \in Seq(Sample) /\ chain.tip \in Nat
    BY CallIsTyped DEF ViewOk
<1>2. IsFiniteSet(all)
    <2>1. all = 1..Len(call.samples) /\ Len(call.samples) \in Nat
        BY <1>1
    <2>2. \A n \in Nat : IsFiniteSet(1..n)
        BY FS_Interval
    <2> QED
        BY <2>1, <2>2
<1>3. \A i \in all : InWindow(call.samples[i], chain.tip) <=> i \in RecentSamples
    <2> SUFFICES ASSUME NEW i \in all
                 PROVE  InWindow(call.samples[i], chain.tip) <=> i \in RecentSamples
        OBVIOUS
    <2> DEFINE h == call.samples[i].tip_height
               t == chain.tip
    <2>1. h \in Nat /\ t \in Nat /\ WindowBlocks \in Nat \ {0}
        BY <1>1, SamplesAreAmounts, PinAssumption
    <2>2. i \in RecentSamples <=> h \in (t - WindowBlocks + 1)..t
        BY DEF RecentSamples
    <2>3. InWindow(call.samples[i], t)
          <=> h >= (IF t < WindowBlocks THEN 0 ELSE t - (WindowBlocks - 1)) /\ h <= t
        BY DEF InWindow, WindowStart
    <2> HIDE DEF h, t
    <2>4. h \in (t - WindowBlocks + 1)..t
          <=> h >= (IF t < WindowBlocks THEN 0 ELSE t - (WindowBlocks - 1)) /\ h <= t
        BY <2>1
    <2> QED
        BY <2>2, <2>3, <2>4 DEF t
<1>4. \A i \in RecentSamples : sats[i] \in Nat /\ windowed[i] = sats[i]
    BY <1>1, <1>3, SamplesAreAmounts DEF RecentSamples
<1>5. \A i \in all \ RecentSamples : windowed[i] = 0
    BY <1>3
<1>6. RecentSamples \in SUBSET all
    BY DEF RecentSamples
<1>7. RecentSats = SumFunctionOnSet(sats, RecentSamples)
    BY DEF RecentSats, SumOf, SumFunction, RecentSamples
<1>8. WindowTotal(call.samples, chain.tip) = SumFunctionOnSet(windowed, all)
    BY DEF WindowTotal, Total, SumFunction
<1> HIDE DEF all, sats, windowed
<1>9. SumFunctionOnSet(windowed, all) = SumFunctionOnSet(sats, RecentSamples)
    BY <1>2, <1>4, <1>5, <1>6, SumOfPart
<1>10. WindowTotal(call.samples, chain.tip) \in Nat
    BY <1>1, WindowIsNat
<1> QED
    BY <1>7, <1>8, <1>9, <1>10

-----------------------------------------------------------------------------
(* The store. *)

\* The verdict that lets evaluate go on, and the record it may rest on.
LEMMA CandidateIsRecord ==
    ASSUME CallInv
    PROVE  /\ Candidate(call.request) \in Record
           /\ Candidate(call.request).psbt = psbt
           /\ Candidate(call.request).request_id = call.request.request_id
           /\ Candidate(call.request).vault_script = PinScript
BY CallIsTyped, PinAssumption DEF RequestOk, Candidate, from_pin, Record, psbt

\* A request that parses spends a coin.
LEMMA ParsedSpends ==
    ASSUME CallInv, parse_psbt_v0(psbt) = Ok
    PROVE  psbt.inputs # {}
<1>1. Inputs(psbt) # <<>>
    BY EitherRejects DEF parse_psbt_v0, Reject, Ok
<1>2. Inputs(psbt) \in Seq(ToSet(Inputs(psbt)))
    BY CallIsTyped DEF RequestOk, psbt
<1>3. 1 \in DOMAIN Inputs(psbt)
    BY <1>1, <1>2
<1> QED
    BY <1>3, PositionsAreFinite DEF coins

\* Only a spend that repeats the coins of a record is a bump.
LEMMA FreshIsNoBump ==
    ASSUME CallInv, psbt.inputs # {}, Verdict(call.log, call.request) = "Fresh"
    PROVE  ~IsBump
<1>1. Overlapping(call.log, Candidate(call.request)) = {}
    BY DEF Verdict, preflight, RetryVerdict, SpendVerdict
<1>2. ASSUME NEW i \in DOMAIN call.log, call.log[i].psbt.inputs = psbt.inputs PROVE FALSE
    <2>1. outpoints_overlap(call.log[i], Candidate(call.request))
        BY <1>2, CandidateIsRecord DEF outpoints_overlap
    <2> QED
        BY <1>1, <2>1 DEF Overlapping
<1> QED
    BY <1>2 DEF IsBump

-----------------------------------------------------------------------------
(* What an approval says. *)

\* Every check found nothing.
LEMMA ApprovedPassed ==
    ASSUME CallInv, answer = "ValidatedUnsigned"
    PROVE  /\ psbt.inputs # {}
           /\ Verdict(call.log, call.request) \in {"Fresh", "FeeBump"}
           /\ PolicyReject(call.request, chain, call.log, call.samples) = Ok
           /\ \A i \in DOMAIN Inputs(psbt) : /\ FactReject(chain, Inputs(psbt)[i]) = Ok
                                             /\ MaturityReject(chain, Inputs(psbt)[i]) = Ok
<1>1. answer = Answer
    BY DEF CallInv, NoAnswer
<1>2. /\ parse_psbt_v0(psbt) = Ok
      /\ Verdict(call.log, call.request) \in {"Fresh", "FeeBump"}
      /\ PolicyReject(call.request, chain, call.log, call.samples) = Ok
    BY <1>1, EvaluateSays DEF Answer, psbt
<1>3. check_chain_prevouts(chain, psbt) = Ok /\ check_csv_for_inputs(chain, psbt) = Ok
    BY <1>2, EitherRejects DEF PolicyReject, psbt
<1> QED
    BY <1>2, <1>3, ParsedSpends, EveryInputPasses, PositionsAreFinite

\* The coins of an approved request are the vault's own, unspent and mature.
LEMMA ApprovedCoins ==
    ASSUME CallInv, answer = "ValidatedUnsigned", NEW o \in coins
    PROVE  CoinIsOurs(o) /\ CoinIsMature(o)
<1>1. PICK i \in DOMAIN Inputs(psbt) : o = Inputs(psbt)[i].outpoint
    BY DEF coins
<1>2. /\ o \in DOMAIN chain.facts /\ chain.facts[o].visible_unspent
      /\ chain.facts[o].txout.script = PinScript
    BY <1>1, ApprovedPassed, EitherRejects DEF FactReject, Reject, Ok
<1>3. /\ chain.facts[o].confirm_height \in Nat /\ chain.facts[o].header_time \in Nat
      /\ chain.tip \in Nat /\ chain.now \in Nat
    BY <1>2, CallIsTyped, PinAssumption DEF ViewOk
<1>4. check_csv_maturity(chain.tip, chain.facts[o].confirm_height,
                         chain.now, chain.facts[o].header_time) = Ok
    BY <1>1, ApprovedPassed DEF MaturityReject
<1>5. /\ chain.tip + 1 >= chain.facts[o].confirm_height + Units
      /\ chain.now >= chain.facts[o].header_time + Units * SecondsPerBlock
    BY <1>3, <1>4, DepthAndClock
<1>6. Units = CsvBlocks + SafetyMargin /\ Units \in Nat /\ Units * SecondsPerBlock \in Nat
    BY PinAssumption DEF Units
<1>7. CoinIsMature(o)
    BY <1>3, <1>5, <1>6 DEF CoinIsMature
<1> QED
    BY <1>2, <1>7 DEF CoinIsOurs

\* An approved request balances: what it spends is what it pays, what it returns
\* and a fee within the limit.
LEMMA ApprovedAmounts ==
    ASSUME CallInv, answer = "ValidatedUnsigned"
    PROVE  /\ Cardinality(Leaving(psbt)) = 1
           /\ SpentSats - (PaidOut + PaidBack) \in 1..MaxFee
           /\ PaidOut = ExternalSats(psbt)
           /\ PaidOut = call.request.claimed_external_sats
<1>1. /\ classify_amounts(psbt) = Ok
      /\ Reject(FeeSats(psbt) > MaxFee \/ FeeSats(psbt) = 0, "Fee") = Ok
      /\ Reject(call.request.claimed_external_sats # ExternalSats(psbt), "Fee") = Ok
    BY ApprovedPassed, EitherRejects DEF PolicyReject, psbt
<1>2. /\ Reject(Cardinality(Leaving(psbt)) # 1, "Change") = Ok
      /\ Reject(FeeSats(psbt) < 0, "Fee") = Ok
    BY <1>1, EitherRejects DEF classify_amounts
<1>3. Cardinality(Leaving(psbt)) = 1
    BY <1>2 DEF Reject, Ok
<1>4. ~(FeeSats(psbt) > MaxFee) /\ FeeSats(psbt) # 0 /\ ~(FeeSats(psbt) < 0)
    BY <1>1, <1>2 DEF Reject, Ok
<1>5. FeeSats(psbt) = SpentSats - (PaidOut + PaidBack)
    BY ApprovedPassed, SpentIsInput, PaidIsOutput DEF FeeSats
<1>6. SpentSats \in Nat /\ PaidOut \in Nat /\ PaidBack \in Nat /\ MaxFee \in Nat
    BY ApprovedPassed, SpentIsInput, PaidIsOutput, PinAssumption
<1>7. SpentSats - (PaidOut + PaidBack) \in 1..MaxFee
    BY <1>4, <1>5, <1>6
<1>8. call.request.claimed_external_sats = ExternalSats(psbt)
    BY <1>1 DEF Reject, Ok
<1> QED
    BY <1>3, <1>7, <1>8, PaidIsExternal

\* It is charged within the window, unless it repeats the coins of a record.
LEMMA ApprovedCharge ==
    ASSUME CallInv, answer = "ValidatedUnsigned"
    PROVE  /\ PaidOut <= PerSig
           /\ PaidOut + RecentSats <= PerWindow \/ IsBump
<1>1. /\ ExternalSats(psbt) \in 0..PerSig
      /\ Charged(call.log, call.request) + WindowTotal(call.samples, chain.tip) <= PerWindow
    BY ApprovedPassed, CallIsTyped, WindowIsRecent, ChargeWithinCaps DEF psbt
<1>2. PaidOut <= PerSig
    BY <1>1, ApprovedAmounts, PinAssumption
<1>3. CASE Verdict(call.log, call.request) = "FeeBump"
    BY <1>2, <1>3, BumpRepeatsCoins, CandidateIsRecord DEF IsBump
<1>4. CASE Verdict(call.log, call.request) = "Fresh"
    <2>1. Charged(call.log, call.request) = PaidOut
        BY <1>4, ApprovedAmounts DEF Charged, psbt
    <2> QED
        BY <1>1, <1>2, <2>1, WindowIsRecent
<1> QED
    BY <1>3, <1>4, ApprovedPassed

\* An approved request spends only mature coins of the vault, pays one payee what it
\* claims, returns the rest but a bounded fee, and stays inside the velocity window.
THEOREM ApprovedIsPolicy == Spec => []ApprovedMovesOnlyWhatPolicyAllows
<1>1. CallInv => ApprovedMovesOnlyWhatPolicyAllows
    BY ApprovedCoins, ApprovedAmounts, ApprovedCharge DEF ApprovedMovesOnlyWhatPolicyAllows
<1> QED
    BY <1>1, CallInvariant, PTL

\* An approval may follow every record of the store, and a cached answer is for the
\* very PSBT that was signed.
THEOREM ApprovedFollows == Spec => []ApprovedFollowsTheLog
<1> DEFINE c == Candidate(call.request)
<1>1. ASSUME CallInv, answer = "ValidatedUnsigned", NEW i \in DOMAIN call.log
      PROVE  MayFollow(call.log[i], c)
    <2>1. Accepted(call.log, c)
        BY <1>1, ApprovedPassed DEF Accepted, Verdict
    <2> QED
        BY <1>1, <2>1, CandidateIsRecord, CallIsTyped, AcceptedMayFollow DEF LogOk
<1>2. ASSUME CallInv, answer = "Idempotent"
      PROVE  \E i \in DOMAIN call.log : /\ call.log[i].request_id = call.request.request_id
                                        /\ call.log[i].psbt = psbt
    <2>1. answer = Answer
        BY <1>2 DEF CallInv, NoAnswer
    <2>2. preflight(call.log, c) = "Idempotent"
        BY <1>2, <2>1, EvaluateSays DEF Answer, Verdict
    <2>3. Original(call.log, c) \in RecordsIn(call.log)
        BY <1>2, <2>2, CallIsTyped, OriginalIsStored DEF LogOk
    <2>4. replay_id(Original(call.log, c)) = replay_id(c)
        BY <2>2 DEF preflight, RetryVerdict, SpendVerdict
    <2> QED
        BY <1>2, <2>3, <2>4, CandidateIsRecord DEF RecordsIn, replay_id
<1>3. CallInv => ApprovedFollowsTheLog
    BY <1>1, <1>2 DEF ApprovedFollowsTheLog
<1> QED
    BY <1>3, CallInvariant, PTL

\* From the threshold on, an approval carries the token that the override key signed
\* for this request, transaction, amount and chain.
THEOREM LargeIsConfirmed == Spec => []LargeSpendIsConfirmed
<1>1. ASSUME CallInv, answer = "ValidatedUnsigned", PaidOut >= ConfirmThreshold
      PROVE  Confirmed
    <2>1. /\ check_confirm(call.request) = Ok
          /\ Reject(chain.genesis # PinGenesis, "WrongGenesis") = Ok
        BY <1>1, ApprovedPassed, EitherRejects DEF PolicyReject
    <2>2. PaidOut = ExternalSats(psbt) /\ PaidOut \in Nat /\ ConfirmThreshold \in Nat
        BY <1>1, ApprovedAmounts, PaidIsOutput, PinAssumption
    <2>3. ~(ExternalSats(psbt) < ConfirmThreshold)
        BY <1>1, <2>2
    <2>4. /\ call.request.confirm_token # None
          /\ call.request.confirm_token = ConfirmBinding(call.request.request_id, psbt)
        BY <2>1, <2>3, EitherRejects DEF check_confirm, verify_confirm_token, Reject, Ok, psbt
    <2>5. chain.genesis = PinGenesis
        BY <2>1 DEF Reject, Ok
    <2> QED
        BY <2>2, <2>4, <2>5 DEF Confirmed, ConfirmBinding
<1>2. CallInv => LargeSpendIsConfirmed
    BY <1>1 DEF LargeSpendIsConfirmed
<1> QED
    BY <1>2, CallInvariant, PTL

-----------------------------------------------------------------------------
(* What a reject code says. *)

\* The codes that each check can answer with.
LEMMA OneCode ==
    ASSUME NEW in, NEW view, NEW c
    PROVE  /\ SighashReject(in) \in {Ok, "Sighash"}
           /\ PrevoutReject(in) \in {Ok, "PrevoutMismatch", "PrevoutMissing"}
           /\ PinReject(in) \in {Ok, "ForeignInput", "DescriptorMismatch", "KeySubstitution"}
           /\ FactReject(view, in) \in {Ok, "PrevoutMissing", "ForeignInput", "PrevoutMismatch"}
           /\ PathReject(in) \in {Ok, "NotRecoveryPath"}
           /\ MaturityReject(view, in) \in {Ok, "CsvImmatureDepth", "CsvImmatureWallclock"}
           /\ BumpReject(in, c) \in {Ok, "Replay", "FeeBumpInvalid"}
BY EitherRejects DEF SighashReject, PrevoutReject, PrevTxReject, PinReject, FactReject, PathReject,
       MaturityReject, check_csv_maturity, BumpReject, Reject, Ok

\* A loop over inputs or records answers with the code of one of them.
LEMMA EachCode ==
    ASSUME NEW p, NEW view, NEW records, NEW c
    PROVE  /\ require_sighash_all_on_psbt(p) \in {Ok, "Sighash"}
           /\ collect_prevouts(p) \in {Ok, "PrevoutMismatch", "PrevoutMissing"}
           /\ check_inputs_against_pin(p)
                  \in {Ok, "ForeignInput", "DescriptorMismatch", "KeySubstitution"}
           /\ check_chain_prevouts(view, p)
                  \in {Ok, "PrevoutMissing", "ForeignInput", "PrevoutMismatch"}
           /\ check_recovery_path(p) \in {Ok, "NotRecoveryPath"}
           /\ check_csv_for_inputs(view, p) \in {Ok, "CsvImmatureDepth", "CsvImmatureWallclock"}
           /\ enforce_fee_bump_policy(records, c) \in {Ok, "Replay", "FeeBumpInvalid"}
<1>1. require_sighash_all_on_psbt(p) \in {Ok, "Sighash"}
    BY OneCode DEF require_sighash_all_on_psbt, FirstReject
<1>2. collect_prevouts(p) \in {Ok, "PrevoutMismatch", "PrevoutMissing"}
    BY OneCode DEF collect_prevouts, FirstReject
<1>3. check_inputs_against_pin(p)
          \in {Ok, "ForeignInput", "DescriptorMismatch", "KeySubstitution"}
    BY OneCode DEF check_inputs_against_pin, FirstReject
<1>4. check_chain_prevouts(view, p) \in {Ok, "PrevoutMissing", "ForeignInput", "PrevoutMismatch"}
    BY OneCode DEF check_chain_prevouts, FirstReject
<1>5. check_recovery_path(p) \in {Ok, "NotRecoveryPath"}
    BY OneCode DEF check_recovery_path, FirstReject
<1>6. check_csv_for_inputs(view, p) \in {Ok, "CsvImmatureDepth", "CsvImmatureWallclock"}
    BY OneCode DEF check_csv_for_inputs, FirstReject
<1>7. enforce_fee_bump_policy(records, c) \in {Ok, "Replay", "FeeBumpInvalid"}
    <2>1. FirstReject(records, LAMBDA previous : BumpReject(previous, c))
              \in {Ok, "Replay", "FeeBumpInvalid"}
        BY OneCode DEF FirstReject
    <2> QED
        BY <2>1, EitherRejects DEF enforce_fee_bump_policy, Reject, Ok
<1> QED
    BY <1>1, <1>2, <1>3, <1>4, <1>5, <1>6, <1>7

\* The checks that are not loops.
LEMMA OtherCode ==
    ASSUME NEW request, NEW list, NEW t, NEW charged
    PROVE  /\ parse_psbt_v0(request.psbt) \in {Ok, "PsbtParse"}
           /\ require_no_unknown_psbt_fields(request.psbt) \in {Ok, "UnknownField"}
           /\ classify_amounts(request.psbt) \in {Ok, "Fee", "Change"}
           /\ check_dust(request.psbt) \in {Ok, "Dust"}
           /\ check_velocity_window_capped(list, t, charged) \in {Ok, "Velocity"}
           /\ check_confirm(request) \in {Ok, "ConfirmRequired", "ConfirmInvalid"}
BY EitherRejects DEF parse_psbt_v0, require_no_unknown_psbt_fields, classify_amounts, check_dust,
       check_velocity_window_capped, check_confirm, verify_confirm_token, Reject, Ok

\* The verdict of the store that lets evaluate go on to the policy.
GoesOn == Verdict(call.log, call.request) \in {"Fresh", "FeeBump"}

BumpCheck ==
    IF Verdict(call.log, call.request) = "FeeBump"
    THEN enforce_fee_bump_policy(call.log, Candidate(call.request)) ELSE Ok

WindowCheck ==
    check_velocity_window_capped(call.samples, chain.tip, Charged(call.log, call.request))

FeeCheck == Reject(FeeSats(psbt) > MaxFee \/ FeeSats(psbt) = 0, "Fee")

ClaimCheck == Reject(call.request.claimed_external_sats # ExternalSats(psbt), "Fee")

\* The answer is the first code that a check answers with.
LEMMA AnswerIsFirst ==
    ASSUME CallInv, answer # NoAnswer
    PROVE  /\ answer = (Reject(~call.auth, "Auth")
                        ?? parse_psbt_v0(psbt)
                        ?? require_no_unknown_psbt_fields(psbt)
                        ?? Reject(~GoesOn, Verdict(call.log, call.request))
                        ?? PolicyReject(call.request, chain, call.log, call.samples)
                        ?? "ValidatedUnsigned")
           /\ PolicyReject(call.request, chain, call.log, call.samples) =
                  (Reject(psbt.content.locktime # 0, "Locktime")
                   ?? Reject(psbt.content.version # 2, "NotRecoveryPath")
                   ?? Reject(Len(Inputs(psbt)) > MaxInputs, "Fee")
                   ?? require_sighash_all_on_psbt(psbt)
                   ?? collect_prevouts(psbt)
                   ?? classify_amounts(psbt)
                   ?? FeeCheck
                   ?? check_inputs_against_pin(psbt)
                   ?? check_chain_prevouts(chain, psbt)
                   ?? check_recovery_path(psbt)
                   ?? Reject(chain.genesis # PinGenesis, "WrongGenesis")
                   ?? check_csv_for_inputs(chain, psbt)
                   ?? ClaimCheck
                   ?? check_dust(psbt)
                   ?? BumpCheck
                   ?? Reject(ExternalSats(psbt) > PerSig, "Velocity")
                   ?? WindowCheck
                   ?? check_confirm(call.request))
           /\ Verdict(call.log, call.request)
                  \in {"ReplayConflict", "Internal", "Idempotent", "Replay", "FeeBump", "Fresh"}
           /\ BumpCheck \in {Ok, "Replay", "FeeBumpInvalid"}
           /\ FeeCheck \in {Ok, "Fee"} /\ ClaimCheck \in {Ok, "Fee"}
<1>1. answer = (Reject(~call.auth, "Auth")
                ?? parse_psbt_v0(psbt)
                ?? require_no_unknown_psbt_fields(psbt)
                ?? Reject(~GoesOn, Verdict(call.log, call.request))
                ?? PolicyReject(call.request, chain, call.log, call.samples)
                ?? "ValidatedUnsigned")
    BY DEF CallInv, Answer, evaluate, GoesOn, psbt
<1>2. Verdict(call.log, call.request) \in {"ReplayConflict", "Internal", "Idempotent", "Replay",
                                           "FeeBump", "Fresh"}
    BY DEF Verdict, preflight, RetryVerdict, SpendVerdict
<1>3. BumpCheck \in {Ok, "Replay", "FeeBumpInvalid"}
    BY EachCode DEF BumpCheck
<1>4. FeeCheck \in {Ok, "Fee"} /\ ClaimCheck \in {Ok, "Fee"}
    BY DEF FeeCheck, ClaimCheck, Reject
<1> QED
    BY <1>1, <1>2, <1>3, <1>4
    DEF PolicyReject, FeeCheck, ClaimCheck, BumpCheck, WindowCheck, psbt

\* Which stage a code comes from: the checks of the request itself, the store, or the
\* policy.
LEMMA WhichStage ==
    ASSUME CallInv, answer # NoAnswer
    PROVE  LET policy == PolicyReject(call.request, chain, call.log, call.samples) IN
           \/ ~call.auth /\ answer = "Auth"
           \/ parse_psbt_v0(psbt) = answer /\ answer = "PsbtParse"
           \/ require_no_unknown_psbt_fields(psbt) = answer /\ answer = "UnknownField"
           \/ ~GoesOn /\ answer = Verdict(call.log, call.request)
           \/ parse_psbt_v0(psbt) = Ok /\ GoesOn /\ policy = answer /\ answer # Ok
           \/ answer = "ValidatedUnsigned"
<1> DEFINE policy == PolicyReject(call.request, chain, call.log, call.samples)
           verdict == Verdict(call.log, call.request)
<1>1. /\ answer = (Reject(~call.auth, "Auth")
                   ?? parse_psbt_v0(psbt)
                   ?? require_no_unknown_psbt_fields(psbt)
                   ?? Reject(~GoesOn, verdict)
                   ?? policy
                   ?? "ValidatedUnsigned")
      /\ verdict # Ok
    BY AnswerIsFirst DEF Ok
<1>2. /\ parse_psbt_v0(psbt) \in {Ok, "PsbtParse"}
      /\ require_no_unknown_psbt_fields(psbt) \in {Ok, "UnknownField"}
    BY OtherCode DEF psbt
<1> HIDE DEF policy, verdict
<1>3. \/ ~call.auth /\ answer = "Auth"
      \/ parse_psbt_v0(psbt) = answer /\ answer = "PsbtParse"
      \/ require_no_unknown_psbt_fields(psbt) = answer /\ answer = "UnknownField"
      \/ ~GoesOn /\ answer = verdict
      \/ parse_psbt_v0(psbt) = Ok /\ GoesOn /\ policy = answer /\ answer # Ok
      \/ answer = "ValidatedUnsigned"
    BY <1>1, <1>2, EitherRejects DEF Reject, Ok
<1> QED
    BY <1>3 DEF policy, verdict

\* Which check of the policy a code comes from, and what the checks before it have let
\* pass.
LEMMA WhichCheck ==
    ASSUME CallInv, answer # NoAnswer,
           PolicyReject(call.request, chain, call.log, call.samples) = answer, answer # Ok
    PROVE  \/ psbt.content.locktime # 0 /\ answer = "Locktime"
           \/ psbt.content.version # 2 /\ answer = "NotRecoveryPath"
           \/ Len(Inputs(psbt)) > MaxInputs /\ answer = "Fee"
           \/ require_sighash_all_on_psbt(psbt) = answer
           \/ collect_prevouts(psbt) = answer
           \/ /\ collect_prevouts(psbt) = Ok
              /\ \/ classify_amounts(psbt) = answer
                 \/ /\ classify_amounts(psbt) = Ok
                    /\ \/ FeeCheck = answer
                       \/ check_inputs_against_pin(psbt) = answer
                       \/ check_chain_prevouts(chain, psbt) = answer
                       \/ check_recovery_path(psbt) = answer
                       \/ chain.genesis # PinGenesis /\ answer = "WrongGenesis"
                       \/ /\ check_chain_prevouts(chain, psbt) = Ok
                          /\ check_csv_for_inputs(chain, psbt) = answer
                       \/ ClaimCheck = answer
                       \/ check_dust(psbt) = answer
                       \/ BumpCheck = answer
                       \/ Reject(ExternalSats(psbt) > PerSig, "Velocity") = answer
                       \/ WindowCheck = answer
                       \/ chain.genesis = PinGenesis /\ check_confirm(call.request) = answer
<1> DEFINE policy == PolicyReject(call.request, chain, call.log, call.samples)
           structure == Reject(psbt.content.locktime # 0, "Locktime")
                        ?? Reject(psbt.content.version # 2, "NotRecoveryPath")
                        ?? Reject(Len(Inputs(psbt)) > MaxInputs, "Fee")
                        ?? require_sighash_all_on_psbt(psbt)
                        ?? collect_prevouts(psbt)
           inputs == structure
                     ?? classify_amounts(psbt)
                     ?? FeeCheck
                     ?? check_inputs_against_pin(psbt)
                     ?? check_chain_prevouts(chain, psbt)
                     ?? check_recovery_path(psbt)
           genesis == Reject(chain.genesis # PinGenesis, "WrongGenesis")
           spend == inputs
                    ?? genesis
                    ?? check_csv_for_inputs(chain, psbt)
                    ?? ClaimCheck
                    ?? check_dust(psbt)
                    ?? BumpCheck
           cap == Reject(ExternalSats(psbt) > PerSig, "Velocity")
<1>1. policy = (spend ?? cap ?? WindowCheck ?? check_confirm(call.request))
    BY AnswerIsFirst
<1>2. structure = answer => \/ psbt.content.locktime # 0 /\ answer = "Locktime"
                            \/ psbt.content.version # 2 /\ answer = "NotRecoveryPath"
                            \/ Len(Inputs(psbt)) > MaxInputs /\ answer = "Fee"
                            \/ require_sighash_all_on_psbt(psbt) = answer
                            \/ collect_prevouts(psbt) = answer
    BY EitherRejects DEF Reject
<1>3. structure = Ok => collect_prevouts(psbt) = Ok
    BY EitherRejects
<1> HIDE DEF structure
<1>4. inputs = answer =>
          \/ structure = answer
          \/ structure = Ok /\ classify_amounts(psbt) = answer
          \/ /\ structure = Ok /\ classify_amounts(psbt) = Ok
             /\ \/ FeeCheck = answer
                \/ check_inputs_against_pin(psbt) = answer
                \/ check_chain_prevouts(chain, psbt) = answer
                \/ check_recovery_path(psbt) = answer
    BY EitherRejects
<1>5. inputs = Ok => /\ structure = Ok /\ classify_amounts(psbt) = Ok
                     /\ check_chain_prevouts(chain, psbt) = Ok
    BY EitherRejects
<1> HIDE DEF inputs
<1>6. spend = answer => \/ inputs = answer
                        \/ /\ inputs = Ok
                           /\ \/ chain.genesis # PinGenesis /\ answer = "WrongGenesis"
                              \/ check_csv_for_inputs(chain, psbt) = answer
                              \/ ClaimCheck = answer
                              \/ check_dust(psbt) = answer
                              \/ BumpCheck = answer
    BY EitherRejects DEF Reject
<1>7. spend = Ok => inputs = Ok /\ chain.genesis = PinGenesis
    BY EitherRejects DEF Reject, Ok
<1> HIDE DEF spend, cap, genesis
<1>8. \/ spend = answer
      \/ spend = Ok /\ cap = answer
      \/ spend = Ok /\ WindowCheck = answer
      \/ spend = Ok /\ check_confirm(call.request) = answer
    BY <1>1, EitherRejects
<1> QED
    BY <1>2, <1>3, <1>4, <1>5, <1>6, <1>7, <1>8 DEF cap

\* A code tells the checks that it can come from.
LEMMA WhereCodesComeFrom ==
    ASSUME CallInv, answer # NoAnswer
    PROVE  /\ answer \in {"Auth", "PsbtParse", "UnknownField", "Locktime", "Sighash",
                          "PrevoutMissing", "PrevoutMismatch", "Fee", "Dust", "Change",
                          "ForeignInput", "DescriptorMismatch", "KeySubstitution",
                          "NotRecoveryPath", "WrongGenesis", "CsvImmatureDepth",
                          "CsvImmatureWallclock", "Velocity", "ConfirmRequired",
                          "ConfirmInvalid", "Replay", "ReplayConflict", "Internal",
                          "FeeBumpInvalid", "Idempotent", "ValidatedUnsigned"}
           /\ answer = "Auth" => ~call.auth
           /\ answer = "PsbtParse" => parse_psbt_v0(psbt) = answer
           /\ answer = "UnknownField" => require_no_unknown_psbt_fields(psbt) = answer
           /\ answer = "Locktime" => psbt.content.locktime # 0
           /\ answer = "Sighash" => require_sighash_all_on_psbt(psbt) = answer
           /\ answer \in {"PrevoutMissing", "PrevoutMismatch"} =>
                  \/ collect_prevouts(psbt) = answer
                  \/ collect_prevouts(psbt) = Ok /\ check_chain_prevouts(chain, psbt) = answer
           /\ answer = "Fee" =>
                  \/ Len(Inputs(psbt)) > MaxInputs
                  \/ /\ collect_prevouts(psbt) = Ok
                     /\ \/ classify_amounts(psbt) = answer
                        \/ FeeCheck = answer
                        \/ classify_amounts(psbt) = Ok /\ ClaimCheck = answer
           /\ answer = "Change" => classify_amounts(psbt) = answer
           /\ answer = "Dust" => classify_amounts(psbt) = Ok /\ check_dust(psbt) = answer
           /\ answer \in {"DescriptorMismatch", "KeySubstitution"} =>
                  check_inputs_against_pin(psbt) = answer
           /\ answer = "ForeignInput" =>
                  /\ collect_prevouts(psbt) = Ok
                  /\ \/ check_inputs_against_pin(psbt) = answer
                     \/ check_chain_prevouts(chain, psbt) = answer
           /\ answer = "NotRecoveryPath" =>
                  psbt.content.version # 2 \/ check_recovery_path(psbt) = answer
           /\ answer = "WrongGenesis" => chain.genesis # PinGenesis
           /\ answer \in {"CsvImmatureDepth", "CsvImmatureWallclock"} =>
                  /\ check_chain_prevouts(chain, psbt) = Ok
                  /\ check_csv_for_inputs(chain, psbt) = answer
           /\ answer = "Velocity" =>
                  /\ parse_psbt_v0(psbt) = Ok /\ GoesOn /\ classify_amounts(psbt) = Ok
                  /\ \/ Reject(ExternalSats(psbt) > PerSig, "Velocity") = "Velocity"
                     \/ WindowCheck = "Velocity"
           /\ answer \in {"ConfirmRequired", "ConfirmInvalid"} =>
                  /\ classify_amounts(psbt) = Ok /\ chain.genesis = PinGenesis
                  /\ check_confirm(call.request) = answer
           /\ answer \in {"Replay", "ReplayConflict", "Internal", "FeeBumpInvalid"} =>
                  \/ ~GoesOn /\ answer = Verdict(call.log, call.request)
                  \/ BumpCheck = answer
<1> DEFINE policy == PolicyReject(call.request, chain, call.log, call.samples)
           verdict == Verdict(call.log, call.request)
           cap == Reject(ExternalSats(psbt) > PerSig, "Velocity")
<1>1. /\ verdict \in {"ReplayConflict", "Internal", "Idempotent", "Replay", "FeeBump", "Fresh"}
      /\ GoesOn <=> verdict \in {"Fresh", "FeeBump"}
      /\ BumpCheck \in {Ok, "Replay", "FeeBumpInvalid"}
      /\ FeeCheck \in {Ok, "Fee"} /\ ClaimCheck \in {Ok, "Fee"} /\ cap \in {Ok, "Velocity"}
    BY AnswerIsFirst DEF GoesOn, Reject
<1>2. /\ require_sighash_all_on_psbt(psbt) \in {Ok, "Sighash"}
      /\ collect_prevouts(psbt) \in {Ok, "PrevoutMismatch", "PrevoutMissing"}
      /\ check_inputs_against_pin(psbt)
             \in {Ok, "ForeignInput", "DescriptorMismatch", "KeySubstitution"}
      /\ check_chain_prevouts(chain, psbt)
             \in {Ok, "PrevoutMissing", "ForeignInput", "PrevoutMismatch"}
      /\ check_recovery_path(psbt) \in {Ok, "NotRecoveryPath"}
      /\ check_csv_for_inputs(chain, psbt) \in {Ok, "CsvImmatureDepth", "CsvImmatureWallclock"}
    BY EachCode
<1>3. /\ classify_amounts(psbt) \in {Ok, "Fee", "Change"}
      /\ check_dust(psbt) \in {Ok, "Dust"}
      /\ WindowCheck \in {Ok, "Velocity"}
      /\ check_confirm(call.request) \in {Ok, "ConfirmRequired", "ConfirmInvalid"}
    BY OtherCode DEF WindowCheck, psbt
<1> HIDE DEF policy, verdict, cap
<1>4. \/ ~call.auth /\ answer = "Auth"
      \/ parse_psbt_v0(psbt) = answer /\ answer = "PsbtParse"
      \/ require_no_unknown_psbt_fields(psbt) = answer /\ answer = "UnknownField"
      \/ ~GoesOn /\ answer = verdict
      \/ parse_psbt_v0(psbt) = Ok /\ GoesOn /\ policy = answer /\ answer # Ok
      \/ answer = "ValidatedUnsigned"
    BY WhichStage DEF policy, verdict
<1>5. CASE ~(parse_psbt_v0(psbt) = Ok /\ GoesOn /\ policy = answer /\ answer # Ok)
    BY <1>1, <1>4, <1>5 DEF verdict
<1>6. CASE parse_psbt_v0(psbt) = Ok /\ GoesOn /\ policy = answer /\ answer # Ok
    <2>1. \/ psbt.content.locktime # 0 /\ answer = "Locktime"
          \/ psbt.content.version # 2 /\ answer = "NotRecoveryPath"
          \/ Len(Inputs(psbt)) > MaxInputs /\ answer = "Fee"
          \/ require_sighash_all_on_psbt(psbt) = answer
          \/ collect_prevouts(psbt) = answer
          \/ /\ collect_prevouts(psbt) = Ok
             /\ \/ classify_amounts(psbt) = answer
                \/ /\ classify_amounts(psbt) = Ok
                   /\ \/ FeeCheck = answer
                      \/ check_inputs_against_pin(psbt) = answer
                      \/ check_chain_prevouts(chain, psbt) = answer
                      \/ check_recovery_path(psbt) = answer
                      \/ chain.genesis # PinGenesis /\ answer = "WrongGenesis"
                      \/ /\ check_chain_prevouts(chain, psbt) = Ok
                         /\ check_csv_for_inputs(chain, psbt) = answer
                      \/ ClaimCheck = answer
                      \/ check_dust(psbt) = answer
                      \/ BumpCheck = answer
                      \/ cap = answer
                      \/ WindowCheck = answer
                      \/ chain.genesis = PinGenesis /\ check_confirm(call.request) = answer
        BY <1>6, WhichCheck DEF policy, cap
    <2> QED
        BY <1>1, <1>2, <1>3, <1>6, <2>1 DEF cap
<1> QED
    BY <1>5, <1>6

\* A loop that rejects has found an input to reject.
LEMMA RejectedInput ==
    ASSUME NEW view, NEW p, DOMAIN Inputs(p) \subseteq Nat
    PROVE  /\ require_sighash_all_on_psbt(p) # Ok =>
                  \E i \in DOMAIN Inputs(p) :
                      SighashReject(Inputs(p)[i]) = require_sighash_all_on_psbt(p)
           /\ collect_prevouts(p) # Ok =>
                  \E i \in DOMAIN Inputs(p) : PrevoutReject(Inputs(p)[i]) = collect_prevouts(p)
           /\ check_inputs_against_pin(p) # Ok =>
                  \E i \in DOMAIN Inputs(p) : PinReject(Inputs(p)[i]) = check_inputs_against_pin(p)
           /\ check_chain_prevouts(view, p) # Ok =>
                  \E i \in DOMAIN Inputs(p) :
                      FactReject(view, Inputs(p)[i]) = check_chain_prevouts(view, p)
           /\ check_recovery_path(p) # Ok =>
                  \E i \in DOMAIN Inputs(p) : PathReject(Inputs(p)[i]) = check_recovery_path(p)
           /\ check_csv_for_inputs(view, p) # Ok =>
                  \E i \in DOMAIN Inputs(p) :
                      MaturityReject(view, Inputs(p)[i]) = check_csv_for_inputs(view, p)
<1> DEFINE unsigned == {i \in DOMAIN Inputs(p) : SighashReject(Inputs(p)[i]) # Ok}
           untold == {i \in DOMAIN Inputs(p) : PrevoutReject(Inputs(p)[i]) # Ok}
           unpinned == {i \in DOMAIN Inputs(p) : PinReject(Inputs(p)[i]) # Ok}
           unseen == {i \in DOMAIN Inputs(p) : FactReject(view, Inputs(p)[i]) # Ok}
           astray == {i \in DOMAIN Inputs(p) : PathReject(Inputs(p)[i]) # Ok}
           immature == {i \in DOMAIN Inputs(p) : MaturityReject(view, Inputs(p)[i]) # Ok}
<1>1. \A bad \in {unsigned, untold, unpinned, unseen, astray, immature} :
          bad # {} => \E n \in bad : \A m \in bad : n <= m
    BY LeastExists
<1>2. ASSUME require_sighash_all_on_psbt(p) # Ok
      PROVE  \E i \in DOMAIN Inputs(p) :
                 SighashReject(Inputs(p)[i]) = require_sighash_all_on_psbt(p)
    BY <1>1, <1>2 DEF require_sighash_all_on_psbt, FirstReject
<1>3. ASSUME collect_prevouts(p) # Ok
      PROVE  \E i \in DOMAIN Inputs(p) : PrevoutReject(Inputs(p)[i]) = collect_prevouts(p)
    BY <1>1, <1>3 DEF collect_prevouts, FirstReject
<1>4. ASSUME check_inputs_against_pin(p) # Ok
      PROVE  \E i \in DOMAIN Inputs(p) : PinReject(Inputs(p)[i]) = check_inputs_against_pin(p)
    BY <1>1, <1>4 DEF check_inputs_against_pin, FirstReject
<1>5. ASSUME check_chain_prevouts(view, p) # Ok
      PROVE  \E i \in DOMAIN Inputs(p) :
                 FactReject(view, Inputs(p)[i]) = check_chain_prevouts(view, p)
    BY <1>1, <1>5 DEF check_chain_prevouts, FirstReject
<1>6. ASSUME check_recovery_path(p) # Ok
      PROVE  \E i \in DOMAIN Inputs(p) : PathReject(Inputs(p)[i]) = check_recovery_path(p)
    BY <1>1, <1>6 DEF check_recovery_path, FirstReject
<1>7. ASSUME check_csv_for_inputs(view, p) # Ok
      PROVE  \E i \in DOMAIN Inputs(p) :
                 MaturityReject(view, Inputs(p)[i]) = check_csv_for_inputs(view, p)
    BY <1>1, <1>7 DEF check_csv_for_inputs, FirstReject
<1> QED
    BY <1>2, <1>3, <1>4, <1>5, <1>6, <1>7

\* When the PSBT says one thing of every input, that is what the code takes it to spend.
LEMMA ToldIsPrevout ==
    ASSUME CallInv, collect_prevouts(psbt) = Ok
    PROVE  /\ \A i \in DOMAIN Inputs(psbt) : Told(Inputs(psbt)[i]) = {Prevout(Inputs(psbt)[i])}
           /\ ToldSats = InputSats(psbt)
<1>1. ASSUME NEW i \in DOMAIN Inputs(psbt) PROVE PrevoutReject(Inputs(psbt)[i]) = Ok
    <2> DEFINE bad == {j \in DOMAIN Inputs(psbt) : PrevoutReject(Inputs(psbt)[j]) # Ok}
    <2>1. bad # {} => \E n \in bad : \A m \in bad : n <= m
        BY PositionsAreFinite, LeastExists
    <2> QED
        BY <2>1 DEF collect_prevouts, FirstReject
<1>2. ASSUME NEW i \in DOMAIN Inputs(psbt)
      PROVE  Told(Inputs(psbt)[i]) = {Prevout(Inputs(psbt)[i])}
    <2> DEFINE in == Inputs(psbt)[i]
    <2>1. /\ in.prev_tx # None => /\ in.prev_tx.output # None
                                  /\ in.witness_utxo \in {None, in.prev_tx.output}
          /\ in.prev_tx = None => in.witness_utxo # None
        BY <1>1, EitherRejects DEF PrevoutReject, PrevTxReject, Reject, Ok
    <2> QED
        BY <2>1 DEF Told, Prevout
<1>3. [i \in DOMAIN Inputs(psbt) |-> (CHOOSE out \in Told(Inputs(psbt)[i]) : TRUE).value]
      = [i \in DOMAIN Inputs(psbt) |-> Prevout(Inputs(psbt)[i]).value]
    BY <1>2
<1> QED
    BY <1>2, <1>3 DEF ToldSats, InputSats, Total

\* What the checks of one input turn away.
LEMMA InputForCause ==
    ASSUME CallInv,
           answer \in {"Sighash", "DescriptorMismatch", "KeySubstitution", "NotRecoveryPath"}
    PROVE  Breaks(answer)
<1> DEFINE ins == ToSet(Inputs(psbt))
<1>1. answer # NoAnswer /\ answer # Ok
    BY DEF NoAnswer, Ok
<1>2. \A i \in DOMAIN Inputs(psbt) : Inputs(psbt)[i] \in ins
    BY DEF ToSet
<1>3. CASE answer = "Sighash"
    <2>1. PICK i \in DOMAIN Inputs(psbt) : SighashReject(Inputs(psbt)[i]) = answer
        BY <1>1, <1>3, WhereCodesComeFrom, RejectedInput, PositionsAreFinite
    <2>2. Inputs(psbt)[i].sighash # "all" \/ ~Inputs(psbt)[i].sigs_all
        BY <1>1, <2>1 DEF SighashReject, Reject
    <2> QED
        BY <1>2, <1>3, <2>2 DEF Breaks
<1>4. CASE answer \in {"DescriptorMismatch", "KeySubstitution"}
    <2>1. PICK i \in DOMAIN Inputs(psbt) : PinReject(Inputs(psbt)[i]) = answer
        BY <1>1, <1>4, WhereCodesComeFrom, RejectedInput, PositionsAreFinite
    <2> DEFINE in == Inputs(psbt)[i]
    <2>2. /\ answer = "DescriptorMismatch" => in.witness_script # PinWitness \/ in.redeem_script
          /\ answer = "KeySubstitution" => ~(in.sigs \cup in.bip32 \subseteq PinKeys)
        BY <1>4, <2>1, EitherRejects DEF PinReject, Reject, Ok
    <2> QED
        BY <1>2, <1>4, <2>2 DEF Breaks, PinKeys
<1>5. CASE answer = "NotRecoveryPath"
    <2>1. CASE psbt.content.version # 2
        BY <1>5, <2>1 DEF Breaks
    <2>2. CASE check_recovery_path(psbt) = answer
        <3>1. PICK i \in DOMAIN Inputs(psbt) : PathReject(Inputs(psbt)[i]) = answer
            BY <1>1, <2>2, RejectedInput, PositionsAreFinite
        <3> DEFINE in == Inputs(psbt)[i]
        <3>2. \/ in.finalized
              \/ ~sequence_satisfies_older_csv(in.sequence)
              \/ {Primary, Override} \subseteq in.sigs
            BY <1>1, <3>1, EitherRejects DEF PathReject, Reject, Ok
        <3>3. in.sequence = None \/ in.sequence \in Nat
            BY <1>2, CallIsTyped DEF RequestOk, psbt
        <3>4. OffRecoveryPath(in)
            BY <3>2, <3>3, PinAssumption DEF OffRecoveryPath, sequence_satisfies_older_csv
        <3> QED
            BY <1>2, <1>5, <3>4 DEF Breaks
    <2> QED
        BY <1>1, <1>5, <2>1, <2>2, WhereCodesComeFrom
<1> QED
    BY <1>3, <1>4, <1>5

\* What the PSBT and Core B say of a coin is missing, or does not agree.
LEMMA PrevoutForCause ==
    ASSUME CallInv, answer \in {"PrevoutMissing", "PrevoutMismatch"}
    PROVE  Breaks(answer)
<1> DEFINE ins == ToSet(Inputs(psbt))
<1>1. answer # NoAnswer /\ answer # Ok
    BY DEF NoAnswer, Ok
<1>2. \A i \in DOMAIN Inputs(psbt) : Inputs(psbt)[i] \in ins
    BY DEF ToSet
<1>3. CASE collect_prevouts(psbt) = answer
    <2>1. PICK i \in DOMAIN Inputs(psbt) : PrevoutReject(Inputs(psbt)[i]) = answer
        BY <1>1, <1>3, RejectedInput, PositionsAreFinite
    <2> DEFINE in == Inputs(psbt)[i]
    <2>2. CASE answer = "PrevoutMissing"
        <3>1. \/ in.prev_tx # None /\ in.prev_tx.output = None
              \/ in.prev_tx = None /\ in.witness_utxo = None
            BY <2>1, <2>2, EitherRejects DEF PrevoutReject, PrevTxReject, Reject, Ok
        <3>2. \/ Told(in) = {}
              \/ in.prev_tx # None /\ in.prev_tx.output = None
            BY <3>1 DEF Told
        <3> QED
            BY <1>2, <2>2, <3>2 DEF Breaks
    <2>3. CASE answer = "PrevoutMismatch"
        <3>1. /\ in.prev_tx # None
              /\ \/ ~in.prev_tx.txid_matches
                 \/ /\ in.prev_tx.output # None
                    /\ in.witness_utxo # None /\ in.witness_utxo # in.prev_tx.output
            BY <2>1, <2>3, EitherRejects DEF PrevoutReject, PrevTxReject, Reject, Ok
        <3>2. \/ in.prev_tx # None /\ ~in.prev_tx.txid_matches
              \/ \E a, b \in Accounts(in) : a # b
            BY <3>1 DEF Told, Accounts
        <3>3. \E x \in ToSet(Inputs(psbt)) :
                  \/ x.prev_tx # None /\ ~x.prev_tx.txid_matches
                  \/ \E a, b \in Accounts(x) : a # b
            BY <1>2, <3>2
        <3> QED
            BY <2>3, <3>3 DEF Breaks
    <2> QED
        BY <2>2, <2>3
<1>4. CASE collect_prevouts(psbt) = Ok /\ check_chain_prevouts(chain, psbt) = answer
    <2>1. PICK i \in DOMAIN Inputs(psbt) : FactReject(chain, Inputs(psbt)[i]) = answer
        BY <1>1, <1>4, RejectedInput, PositionsAreFinite
    <2> DEFINE in == Inputs(psbt)[i]
    <2>2. CASE answer = "PrevoutMissing"
        <3>1. in.outpoint \notin DOMAIN chain.facts
            BY <2>1, <2>2, EitherRejects DEF FactReject, Reject, Ok
        <3> QED
            BY <1>2, <2>2, <3>1 DEF Breaks
    <2>3. CASE answer = "PrevoutMismatch"
        <3>1. in.outpoint \in DOMAIN chain.facts /\ chain.facts[in.outpoint].txout # Prevout(in)
            BY <2>1, <2>3, EitherRejects DEF FactReject, Reject, Ok
        <3>2. Prevout(in) \in Accounts(in) /\ chain.facts[in.outpoint].txout \in Accounts(in)
            BY <1>4, <3>1, ToldIsPrevout DEF Accounts
        <3>3. \E x \in ToSet(Inputs(psbt)) : \E a, b \in Accounts(x) : a # b
            BY <1>2, <3>1, <3>2
        <3> QED
            BY <2>3, <3>3 DEF Breaks
    <2> QED
        BY <2>2, <2>3
<1> QED
    BY <1>1, <1>3, <1>4, WhereCodesComeFrom

\* The fee or one of the other amounts is out of bounds.
LEMMA FeeForCause ==
    ASSUME CallInv, answer = "Fee"
    PROVE  FeeBroken
<1>1. CASE Len(Inputs(psbt)) > MaxInputs
    BY <1>1 DEF FeeBroken
<1>2. CASE collect_prevouts(psbt) = Ok /\ (classify_amounts(psbt) = answer \/ FeeCheck = answer)
    <2>1. \/ InputSats(psbt) > U64Max \/ OutputSats(psbt) > U64Max
          \/ FeeSats(psbt) < 0 \/ FeeSats(psbt) = 0 \/ FeeSats(psbt) > MaxFee
        BY <1>2, EitherRejects DEF classify_amounts, FeeCheck, Reject, Ok
    <2>2. ToldSats = InputSats(psbt) /\ OutputSats(psbt) = PaidOut + PaidBack
        BY <1>2, ToldIsPrevout, PaidIsOutput
    <2>3. MaxFee \in Nat
        BY PinAssumption
    <2>4. FeeSats(psbt) = ToldSats - (PaidOut + PaidBack)
        BY <2>2 DEF FeeSats
    <2>5. FeeSats(psbt) \in 1..MaxFee =>
              ~(FeeSats(psbt) < 0 \/ FeeSats(psbt) = 0 \/ FeeSats(psbt) > MaxFee)
        BY <2>3
    <2> QED
        BY <2>1, <2>2, <2>4, <2>5 DEF FeeBroken
<1>3. CASE classify_amounts(psbt) = Ok /\ ClaimCheck = answer
    <2>1. Cardinality(Leaving(psbt)) = 1
        BY <1>3, EitherRejects DEF classify_amounts, Reject, Ok
    <2>2. call.request.claimed_external_sats # ExternalSats(psbt)
        BY <1>3 DEF ClaimCheck, Reject, Ok
    <2> QED
        BY <2>1, <2>2, PaidIsExternal DEF FeeBroken
<1>4. answer # NoAnswer
    BY DEF NoAnswer
<1> QED
    BY <1>1, <1>2, <1>3, <1>4, WhereCodesComeFrom

\* An output is dust.
LEMMA DustForCause ==
    ASSUME CallInv, answer = "Dust"
    PROVE  \E i \in DOMAIN psbt.outputs : Dusty(i)
<1>1. classify_amounts(psbt) = Ok /\ check_dust(psbt) = "Dust"
    BY WhereCodesComeFrom DEF NoAnswer
<1>2. Cardinality(Leaving(psbt)) = 1
    BY <1>1, EitherRejects DEF classify_amounts, Reject, Ok
<1>3. \/ ExternalSats(psbt) < Dust
      \/ \E i \in Returning(psbt) : psbt.outputs[i].value \in 1..(Dust - 1)
    BY <1>1, EitherRejects DEF check_dust, Reject, Ok
<1>4. CASE ExternalSats(psbt) < Dust
    <2>1. Leaving(psbt) # {}
        BY <1>2, FS_EmptySet
    <2>2. PICK i \in Leaving(psbt) : ExternalSats(psbt) = psbt.outputs[i].value
        BY <2>1 DEF ExternalSats, ExternalOut
    <2> QED
        BY <1>4, <2>2 DEF Dusty, Leaving
<1>5. CASE \E i \in Returning(psbt) : psbt.outputs[i].value \in 1..(Dust - 1)
    <2>1. PICK i \in Returning(psbt) : psbt.outputs[i].value \in 1..(Dust - 1)
        BY <1>5
    <2>2. Dust \in Nat /\ i \in DOMAIN psbt.outputs
        BY <2>1, PinAssumption DEF Returning
    <2>3. psbt.outputs[i].value < Dust /\ psbt.outputs[i].value # 0
        BY <2>1, <2>2
    <2> QED
        BY <2>2, <2>3 DEF Dusty
<1> QED
    BY <1>3, <1>4, <1>5

\* What the inputs and the chain are turned away for.
LEMMA ForeignForCause ==
    ASSUME CallInv, answer = "ForeignInput"
    PROVE  \E in \in ToSet(Inputs(psbt)) : \/ ~CoinIsOurs(in.outpoint)
                                            \/ \E out \in Told(in) : out.script # PinScript
<1>1. /\ collect_prevouts(psbt) = Ok
      /\ \/ check_inputs_against_pin(psbt) = "ForeignInput"
         \/ check_chain_prevouts(chain, psbt) = "ForeignInput"
    BY WhereCodesComeFrom DEF NoAnswer
<1>2. CASE check_inputs_against_pin(psbt) = "ForeignInput"
    <2>1. PICK i \in DOMAIN Inputs(psbt) : PinReject(Inputs(psbt)[i]) = "ForeignInput"
        BY <1>2, RejectedInput, PositionsAreFinite DEF Ok
    <2>2. Prevout(Inputs(psbt)[i]).script # PinScript
        BY <2>1, EitherRejects DEF PinReject, Reject, Ok
    <2>3. Prevout(Inputs(psbt)[i]) \in Told(Inputs(psbt)[i])
        BY <1>1, ToldIsPrevout
    <2> QED
        BY <2>2, <2>3 DEF ToSet
<1>3. CASE check_chain_prevouts(chain, psbt) = "ForeignInput"
    <2>1. PICK i \in DOMAIN Inputs(psbt) : FactReject(chain, Inputs(psbt)[i]) = "ForeignInput"
        BY <1>3, RejectedInput, PositionsAreFinite DEF Ok
    <2>2. ~CoinIsOurs(Inputs(psbt)[i].outpoint)
        BY <2>1, EitherRejects DEF FactReject, Reject, Ok, CoinIsOurs
    <2> QED
        BY <2>2 DEF ToSet
<1> QED
    BY <1>1, <1>2, <1>3

\* A coin is called immature because its depth or its age falls short, or because its
\* depth exceeds the code's u32.
LEMMA ImmatureForCause ==
    ASSUME CallInv, answer \in {"CsvImmatureDepth", "CsvImmatureWallclock"}
    PROVE  \E o \in coins : /\ answer = "CsvImmatureDepth" => TooYoung(o)
                            /\ answer = "CsvImmatureWallclock" => TooRecent(o)
<1>1. check_chain_prevouts(chain, psbt) = Ok /\ check_csv_for_inputs(chain, psbt) = answer
    BY WhereCodesComeFrom DEF NoAnswer
<1>2. PICK i \in DOMAIN Inputs(psbt) : MaturityReject(chain, Inputs(psbt)[i]) = answer
    BY <1>1, RejectedInput, PositionsAreFinite DEF Ok
<1> DEFINE o == Inputs(psbt)[i].outpoint
           height == chain.facts[o].confirm_height
           time == chain.facts[o].header_time
           t == chain.tip
           n == chain.now
<1>3. o \in coins
    BY DEF coins
<1>4. o \in DOMAIN chain.facts
    BY <1>1, EveryInputPasses, PositionsAreFinite, EitherRejects DEF FactReject, Reject, Ok
<1>5. height \in Nat /\ time \in Nat /\ t \in Nat /\ n \in 0..U64Max
    BY <1>4, CallIsTyped DEF ViewOk
<1>6. /\ CsvBlocks \in Nat \ {0} /\ SafetyMargin \in Nat /\ SecondsPerBlock \in Nat
      /\ U32Max \in Nat /\ U64Max \in Nat
    BY PinAssumption
<1>7. check_csv_maturity(t, height, n, time) = answer
    BY <1>2 DEF MaturityReject
<1>8. /\ TooYoung(o) <=> \/ height + CsvBlocks + SafetyMargin > t + 1
                          \/ t - height >= U32Max
      /\ TooRecent(o) <=> time + (CsvBlocks + SafetyMargin) * SecondsPerBlock > n
    BY DEF TooYoung, TooRecent
<1> HIDE DEF o, height, time, t, n
<1>9. CASE answer = "CsvImmatureDepth"
    <2>1. \/ height > t \/ csv_depth(t, height) > U32Max
          \/ CsvBlocks + SafetyMargin > U32Max
          \/ csv_depth(t, height) < CsvBlocks + SafetyMargin
        BY <1>7, <1>9, EitherRejects DEF check_csv_maturity, Reject, Ok
    <2>2. height + CsvBlocks + SafetyMargin > t + 1 \/ t - height >= U32Max
        BY <2>1, <1>5, <1>6 DEF csv_depth
    <2> QED
        BY <1>3, <1>8, <1>9, <2>2
<1>10. CASE answer = "CsvImmatureWallclock"
    <2> DEFINE age == (CsvBlocks + SafetyMargin) * SecondsPerBlock
    <2>1. time + age > U64Max \/ n < time + age
        BY <1>7, <1>10, EitherRejects DEF check_csv_maturity, Reject, Ok
    <2>2. age \in Nat
        BY <1>6
    <2> HIDE DEF age
    <2>3. time + age > n
        BY <1>5, <1>6, <2>1, <2>2
    <2>4. TooRecent(o)
        BY <1>8, <2>3 DEF age
    <2> QED
        BY <1>3, <1>10, <2>4
<1> QED
    BY <1>9, <1>10

\* What the velocity window turns away.
LEMMA VelocityForCause ==
    ASSUME CallInv, answer = "Velocity"
    PROVE  OverVelocity
<1>1. /\ parse_psbt_v0(psbt) = Ok /\ GoesOn /\ classify_amounts(psbt) = Ok
      /\ \/ Reject(ExternalSats(psbt) > PerSig, "Velocity") = "Velocity"
         \/ WindowCheck = "Velocity"
    BY WhereCodesComeFrom DEF NoAnswer
<1>2. Cardinality(Leaving(psbt)) = 1
    BY <1>1, EitherRejects DEF classify_amounts, Reject, Ok
<1>3. PaidOut = ExternalSats(psbt) /\ PaidOut \in Nat
    BY <1>2, PaidIsExternal, PaidIsOutput
<1> DEFINE charged == Charged(call.log, call.request)
           total == WindowTotal(call.samples, chain.tip)
<1>4. \/ PaidOut > PerSig \/ charged > PerSig
      \/ charged + total > U64Max \/ charged + total > PerWindow
    BY <1>1, <1>3, EitherRejects DEF WindowCheck, check_velocity_window_capped, Reject, Ok
<1>5. total = RecentSats /\ RecentSats \in Nat
    BY WindowIsRecent
<1>6. PerSig \in Nat /\ PerWindow \in 0..U64Max /\ U64Max \in Nat
    BY PinAssumption
<1>7. CASE Verdict(call.log, call.request) = "FeeBump"
    <2>1. charged = 0
        BY <1>7 DEF Charged
    <2> HIDE DEF charged, total
    <2> QED
        BY <1>4, <1>5, <1>6, <2>1 DEF OverVelocity
<1>8. CASE Verdict(call.log, call.request) = "Fresh"
    <2>1. charged = PaidOut
        BY <1>3, <1>8 DEF Charged, psbt
    <2>2. ~IsBump
        BY <1>1, <1>8, ParsedSpends, FreshIsNoBump
    <2> HIDE DEF charged, total
    <2> QED
        BY <1>3, <1>4, <1>5, <1>6, <2>1, <2>2 DEF OverVelocity
<1> QED
    BY <1>1, <1>7, <1>8 DEF GoesOn

\* A token is asked for, or refused, only from the threshold on and when it is not
\* the one that the override key signs for this request.
LEMMA ConfirmForCause ==
    ASSUME CallInv, answer \in {"ConfirmRequired", "ConfirmInvalid"}
    PROVE  /\ PaidOut >= ConfirmThreshold /\ ~Confirmed
           /\ answer = "ConfirmRequired" <=> call.request.confirm_token = None
<1>1. /\ classify_amounts(psbt) = Ok /\ chain.genesis = PinGenesis
      /\ check_confirm(call.request) = answer
    BY WhereCodesComeFrom DEF NoAnswer
<1>2. Cardinality(Leaving(psbt)) = 1 /\ chain.genesis = PinGenesis
    BY <1>1, EitherRejects DEF classify_amounts, Reject, Ok
<1>3. PaidOut = ExternalSats(psbt) /\ PaidOut \in Nat /\ ConfirmThreshold \in Nat
    BY <1>2, PaidIsExternal, PaidIsOutput, PinAssumption
<1> DEFINE token == call.request.confirm_token
           binding == ConfirmBinding(call.request.request_id, psbt)
<1>4. /\ ~(ExternalSats(psbt) < ConfirmThreshold)
      /\ token = None \/ token # binding
      /\ answer = "ConfirmRequired" <=> token = None
    BY <1>1, EitherRejects DEF check_confirm, verify_confirm_token, Reject, Ok, psbt
<1>5. PaidOut >= ConfirmThreshold
    BY <1>3, <1>4
<1>6. ASSUME Confirmed PROVE FALSE
    <2>1. /\ token # None
          /\ token.request_id = call.request.request_id /\ token.txid = txid(psbt)
          /\ token.external_amount_sats = ExternalSats(psbt) /\ token.genesis = PinGenesis
        BY <1>2, <1>3, <1>6 DEF Confirmed
    <2>2. token = [request_id |-> token.request_id, txid |-> token.txid,
                   external_amount_sats |-> token.external_amount_sats,
                   genesis |-> token.genesis]
        BY <2>1, CallIsTyped DEF RequestOk
    <2>3. token = binding
        BY <2>1, <2>2 DEF ConfirmBinding
    <2> QED
        BY <1>4, <2>1, <2>3
<1> QED
    BY <1>4, <1>5, <1>6

\* What a record returns to the vault is an amount.
LEMMA ChangeIsAmount ==
    ASSUME NEW r \in Record
    PROVE  ChangeSats(r) \in Nat
<1>1. r.psbt.outputs \in Seq(TxOut)
    BY PsbtsAssumption DEF Record
<1>2. CASE Changes(r) = {}
    BY <1>2 DEF ChangeSats
<1>3. CASE Changes(r) # {}
    <2>1. (CHOOSE i \in Changes(r) : TRUE) \in DOMAIN r.psbt.outputs
        BY <1>3 DEF Changes
    <2>2. r.psbt.outputs[CHOOSE i \in Changes(r) : TRUE] \in TxOut
        BY <1>1, <2>1
    <2> QED
        BY <1>3, <2>2 DEF ChangeSats, TxOut
<1> QED
    BY <1>2, <1>3

\* The one output of a payment is the one that the store compares.
LEMMA PaysOnlyIsExternal ==
    ASSUME NEW r, NEW o, PaysOnly(r, o)
    PROVE  External(r) = o
<1>1. PICK i \in DOMAIN r.psbt.outputs :
          /\ r.psbt.outputs[i] = o /\ o.script # r.vault_script
          /\ \A j \in DOMAIN r.psbt.outputs \ {i} : r.psbt.outputs[j].script = r.vault_script
    BY DEF PaysOnly
<1>2. Externals(r) = {i}
    BY <1>1 DEF Externals
<1> QED
    BY <1>1, <1>2 DEF External

\* A request of admissible shape has outputs that the store can classify.
LEMMA ShapeIsClassifiable ==
    ASSUME CallInv, ~OutputShapeBroken
    PROVE  Classifiable(Candidate(call.request))
<1> DEFINE c == Candidate(call.request)
<1>1. Externals(c) = Leaving(psbt) /\ Changes(c) = Returning(psbt)
    BY CandidateIsRecord DEF Externals, Changes, Leaving, Returning
<1>2. IsFiniteSet(Leaving(psbt)) /\ IsFiniteSet(Returning(psbt))
    BY PositionsAreFinite, FS_Subset DEF Leaving, Returning
<1>3. \E i : Leaving(psbt) = {i}
    BY <1>2, FS_Singleton DEF OutputShapeBroken
<1>4. Returning(psbt) = {} \/ \E i : Returning(psbt) = {i}
    <2>1. Cardinality(Returning(psbt)) \in Nat /\ ~(Cardinality(Returning(psbt)) > 1)
        BY <1>2, FS_CardinalityType DEF OutputShapeBroken
    <2>2. Cardinality(Returning(psbt)) \in {0, 1}
        BY <2>1
    <2> QED
        BY <1>2, <2>2, FS_EmptySet, FS_Singleton
<1> QED
    BY <1>1, <1>3, <1>4 DEF Classifiable

\* A request of admissible shape that may follow a record is not blocked by it.
LEMMA MayFollowIsNotBlocked ==
    ASSUME CallInv, ~OutputShapeBroken, NEW i \in DOMAIN call.log,
           MayFollow(call.log[i], Candidate(call.request)),
           outpoints_overlap(call.log[i], Candidate(call.request))
    PROVE  ~Blocks(call.log[i], Candidate(call.request))
<1> DEFINE a == call.log[i]
           c == Candidate(call.request)
<1>1. a \in Record /\ c \in Record /\ Classifiable(a) /\ Classifiable(c)
    BY CallIsTyped, CandidateIsRecord, ShapeIsClassifiable DEF LogOk
<1>2. SamePayment(a, c) /\ ChangeSats(c) < ChangeSats(a)
    BY DEF MayFollow, outpoints_overlap
<1>3. External(a) = External(c)
    BY <1>2, PaysOnlyIsExternal DEF SamePayment
<1>4. is_vault_change_only(a, c)
    BY <1>1, <1>2, <1>3
    DEF is_vault_change_only, SamePayment, outpoints_identical, outpoints_overlap
<1>5. ASSUME outputs_commitment(a) = outputs_commitment(c) PROVE FALSE
    <2>1. a.vault_script = c.vault_script /\ a.psbt.outputs = c.psbt.outputs
        BY <1>2, <1>5 DEF SamePayment, outputs_commitment
    <2>2. Changes(a) = Changes(c)
        BY <2>1 DEF Changes
    <2>3. ChangeSats(a) = ChangeSats(c)
        BY <2>1, <2>2 DEF ChangeSats
    <2>4. ChangeSats(a) \in Nat
        BY <1>1, ChangeIsAmount
    <2> QED
        BY <1>2, <2>3, <2>4
<1> QED
    BY <1>4, <1>5 DEF Blocks

\* After a bump verdict the explicit D5 rules find nothing: every record that shares
\* a coin is the same payment, and there is one.
LEMMA BumpPasses ==
    ASSUME CallInv, Verdict(call.log, call.request) = "FeeBump"
    PROVE  enforce_fee_bump_policy(call.log, Candidate(call.request)) = Ok
<1> DEFINE c == Candidate(call.request)
<1>1. /\ Overlapping(call.log, c) # {}
      /\ \A i \in Overlapping(call.log, c) : is_vault_change_only(call.log[i], c)
    BY DEF Verdict, preflight, RetryVerdict, SpendVerdict, Blocks
<1>2. \A i \in Overlapping(call.log, c) : outpoints_identical(call.log[i], c)
    BY <1>1 DEF is_vault_change_only
<1>3. Reject(~\E i \in DOMAIN call.log : outpoints_identical(call.log[i], c),
             "FeeBumpInvalid") = Ok
    BY <1>1, <1>2 DEF Overlapping, Reject
<1>4. ASSUME NEW i \in DOMAIN call.log PROVE BumpReject(call.log[i], c) = Ok
    <2>1. CASE ~outpoints_overlap(call.log[i], c)
        <3>1. ~outpoints_identical(call.log[i], c)
            BY <2>1 DEF outpoints_overlap, outpoints_identical
        <3> QED
            BY <2>1, <3>1 DEF BumpReject, Reject
    <2>2. CASE outpoints_overlap(call.log[i], c)
        <3>1. /\ is_vault_change_only(call.log[i], c)
              /\ outpoints_identical(call.log[i], c)
            BY <1>1, <1>2, <2>2 DEF Overlapping
        <3>2. Externals(c) = Leaving(psbt) /\ c.psbt = psbt
            BY CandidateIsRecord DEF Externals, Leaving
        <3>3. ExternalSats(psbt) = External(c).value
            BY <3>2 DEF ExternalSats, ExternalOut, External
        <3>4. ExternalSats(psbt) = External(call.log[i]).value
            BY <3>1, <3>3 DEF is_vault_change_only
        <3>5. ExternalSats(psbt) \in Nat
            <4>1. Leaving(psbt) # {}
                BY <3>1, <3>2 DEF is_vault_change_only, Classifiable
            <4>2. (CHOOSE j \in Leaving(psbt) : TRUE) \in DOMAIN psbt.outputs
                BY <4>1 DEF Leaving
            <4>3. ExternalOut(psbt) \in TxOut
                BY <4>2, PositionsAreFinite DEF ExternalOut
            <4> QED
                BY <4>3 DEF ExternalSats, TxOut
        <3>6. ~(ExternalSats(psbt) > External(call.log[i]).value)
            BY <3>4, <3>5
        <3> QED
            BY <3>1, <3>2, <3>6, EitherRejects DEF BumpReject, Reject
    <2> QED
        BY <2>1, <2>2
<1>5. FirstReject(call.log, LAMBDA previous : BumpReject(previous, c)) = Ok
    BY <1>4 DEF FirstReject
<1> QED
    BY <1>3, <1>5, EitherRejects DEF enforce_fee_bump_policy

\* The store turns a request away only for a record with the same id or with a coin in
\* common that it may not follow; and it never finds itself inconsistent.
LEMMA ReplayForCause ==
    ASSUME CallInv, answer \in {"Replay", "ReplayConflict", "Internal", "FeeBumpInvalid"}
    PROVE  Breaks(answer)
<1> DEFINE c == Candidate(call.request)
<1>1. answer = preflight(call.log, c)
    <2>1. BumpCheck = Ok
        BY BumpPasses DEF BumpCheck
    <2> QED
        BY <2>1, WhereCodesComeFrom DEF Ok, Verdict, NoAnswer
<1>2. c.psbt = psbt /\ c.request_id = call.request.request_id
    BY CandidateIsRecord
<1>3. CASE SameRequest(call.log, c) # {}
    <2>1. \E n \in SameRequest(call.log, c) : \A m \in SameRequest(call.log, c) : n <= m
        <3>1. SameRequest(call.log, c) \subseteq Nat
            BY PositionsAreFinite DEF SameRequest
        <3> QED
            BY <1>3, <3>1, LeastExists
    <2>2. PICK n \in SameRequest(call.log, c) : Original(call.log, c) = call.log[n]
        BY <2>1 DEF Original
    <2>3. n \in DOMAIN call.log /\ call.log[n].request_id = c.request_id
        BY <2>2 DEF SameRequest
    <2>4. call.log[n].payload # Unsigned
        BY <2>3, CallIsTyped DEF LogOk, Consistent
    <2>5. answer = "ReplayConflict" /\ replay_id(call.log[n]) # replay_id(c)
        BY <1>1, <1>3, <2>2, <2>4 DEF preflight, RetryVerdict
    <2>6. call.log[n].psbt # psbt
        BY <1>2, <2>3, <2>5 DEF replay_id
    <2>7. \E r \in RecordsIn(call.log) : r.request_id = call.request.request_id /\ r.psbt # psbt
        BY <1>2, <2>3, <2>6 DEF RecordsIn
    <2> QED
        BY <2>5, <2>7 DEF Breaks
<1>4. CASE SameRequest(call.log, c) = {}
    <2>1. answer = "Replay" /\ \E i \in Overlapping(call.log, c) : Blocks(call.log[i], c)
        BY <1>1, <1>4 DEF preflight, SpendVerdict
    <2>2. PICK i \in Overlapping(call.log, c) : Blocks(call.log[i], c)
        BY <2>1
    <2>3. i \in DOMAIN call.log /\ outpoints_overlap(call.log[i], c)
        BY <2>2 DEF Overlapping
    <2>4. OutputShapeBroken \/ ~MayFollow(call.log[i], c)
        BY <2>2, <2>3, MayFollowIsNotBlocked
    <2>5. call.log[i].psbt.inputs \cap psbt.inputs # {}
        BY <1>2, <2>3 DEF outpoints_overlap
    <2>6. \E r \in RecordsIn(call.log) : /\ r.psbt.inputs \cap psbt.inputs # {}
                                         /\ OutputShapeBroken \/ ~MayFollow(r, c)
        BY <2>3, <2>4, <2>5 DEF RecordsIn
    <2> QED
        BY <2>1, <2>6 DEF Breaks
<1> QED
    BY <1>3, <1>4

\* What the checks that look at the request alone turn away.
LEMMA RequestForCause ==
    ASSUME CallInv,
           answer \in {"Auth", "PsbtParse", "UnknownField", "Locktime", "Change", "WrongGenesis"}
    PROVE  Breaks(answer)
<1>1. answer # NoAnswer
    BY DEF NoAnswer
<1>2. CASE answer \in {"Auth", "Locktime", "WrongGenesis"}
    BY <1>1, <1>2, WhereCodesComeFrom DEF Breaks
<1>3. CASE answer = "PsbtParse"
    <2>1. ~psbt.content.parses \/ Inputs(psbt) = <<>> \/ psbt.outputs = <<>>
        BY <1>1, <1>3, WhereCodesComeFrom DEF parse_psbt_v0, Reject, Ok
    <2> QED
        BY <1>3, <2>1 DEF Breaks
<1>4. CASE answer = "UnknownField"
    <2>1. psbt.content.unknown
        BY <1>1, <1>4, WhereCodesComeFrom DEF require_no_unknown_psbt_fields, Reject, Ok
    <2> QED
        BY <1>4, <2>1 DEF Breaks
<1>5. CASE answer = "Change"
    <2>1. classify_amounts(psbt) = "Change"
        BY <1>1, <1>5, WhereCodesComeFrom
    <2>2. OutputShapeBroken
        BY <2>1, EitherRejects DEF classify_amounts, Reject, Ok, OutputShapeBroken
    <2> QED
        BY <1>5, <2>2 DEF Breaks
<1> QED
    BY <1>2, <1>3, <1>4, <1>5

\* A reject code is never a pretext: whatever the code, the request breaks the rule that
\* it names, and the D5 rules and the consistency check of the store never reject.
THEOREM RejectedIsForCause == Spec => []RejectedForCause
<1>1. ASSUME CallInv, answer \in {"Fee", "Dust"} PROVE Breaks(answer)
    BY <1>1, FeeForCause, DustForCause DEF Breaks
<1>2. ASSUME CallInv, answer = "ForeignInput" PROVE Breaks(answer)
    BY <1>2, ForeignForCause DEF Breaks
<1>3. ASSUME CallInv, answer \in {"CsvImmatureDepth", "CsvImmatureWallclock"}
      PROVE  Breaks(answer)
    <2>1. /\ answer = "CsvImmatureDepth" => \E o \in coins : TooYoung(o)
          /\ answer = "CsvImmatureWallclock" => \E o \in coins : TooRecent(o)
        BY <1>3, ImmatureForCause
    <2> QED
        BY <1>3, <2>1 DEF Breaks
<1>4. ASSUME CallInv, answer = "Velocity" PROVE Breaks(answer)
    BY <1>4, VelocityForCause DEF Breaks
<1>5. ASSUME CallInv, answer \in {"ConfirmRequired", "ConfirmInvalid"} PROVE Breaks(answer)
    BY <1>5, ConfirmForCause DEF Breaks
<1>6. CallInv => RejectedForCause
    BY <1>1, <1>2, <1>3, <1>4, <1>5, WhereCodesComeFrom, RequestForCause, InputForCause,
       PrevoutForCause, ReplayForCause
    DEF RejectedForCause
<1> QED
    BY <1>6, CallInvariant, PTL
=============================================================================
