---------------------------- MODULE PolicyProofs ----------------------------
(***************************************************************************)
(* Lemmas about evaluate() and the checks that it is put together from,    *)
(* for every pin, policy, request, view, store and list of samples.        *)
(***************************************************************************)
EXTENDS Policy, ReplayRecordsProofs, FoundationProofs

-----------------------------------------------------------------------------
(* What a verdict of evaluate says about the request.  No check answers with *)
(* the code of a success.                                                    *)

\* The stages before the replay store.
LEMMA StructureRejects ==
    ASSUME NEW p
    PROVE  /\ parse_psbt_v0(p) \notin Success
           /\ require_no_unknown_psbt_fields(p) \notin Success
BY DEF Reject, parse_psbt_v0, require_no_unknown_psbt_fields, Success, Ok

\* One input, or one record of the store, at a time.
LEMMA OneRejects ==
    ASSUME NEW in, NEW view, NEW c
    PROVE  /\ SighashReject(in) \notin Success
           /\ PrevoutReject(in) \notin Success
           /\ PinReject(in) \notin Success
           /\ FactReject(view, in) \notin Success
           /\ PathReject(in) \notin Success
           /\ MaturityReject(view, in) \notin Success
           /\ BumpReject(in, c) \notin Success
BY EitherRejects DEF SighashReject, PrevoutReject, PrevTxReject, PinReject, FactReject, PathReject,
       MaturityReject, check_csv_maturity, BumpReject, Reject, Ok, Success

\* All of them: the verdict is that of one of them, or Ok.
LEMMA EachRejects ==
    ASSUME NEW p, NEW view, NEW records, NEW c
    PROVE  /\ require_sighash_all_on_psbt(p) \notin Success
           /\ collect_prevouts(p) \notin Success
           /\ check_inputs_against_pin(p) \notin Success
           /\ check_chain_prevouts(view, p) \notin Success
           /\ check_recovery_path(p) \notin Success
           /\ check_csv_for_inputs(view, p) \notin Success
           /\ enforce_fee_bump_policy(records, c) \notin Success
<1>0. Ok \notin Success
    BY DEF Ok, Success
<1>1. require_sighash_all_on_psbt(p) \notin Success
    BY <1>0, OneRejects DEF require_sighash_all_on_psbt, FirstReject
<1>2. collect_prevouts(p) \notin Success
    BY <1>0, OneRejects DEF collect_prevouts, FirstReject
<1>3. check_inputs_against_pin(p) \notin Success
    BY <1>0, OneRejects DEF check_inputs_against_pin, FirstReject
<1>4. check_chain_prevouts(view, p) \notin Success
    BY <1>0, OneRejects DEF check_chain_prevouts, FirstReject
<1>5. check_recovery_path(p) \notin Success
    BY <1>0, OneRejects DEF check_recovery_path, FirstReject
<1>6. check_csv_for_inputs(view, p) \notin Success
    BY <1>0, OneRejects DEF check_csv_for_inputs, FirstReject
<1>7. enforce_fee_bump_policy(records, c) \notin Success
    <2>1. FirstReject(records, LAMBDA previous : BumpReject(previous, c)) \notin Success
        BY <1>0, OneRejects DEF FirstReject
    <2> QED
        BY <2>1, EitherRejects DEF enforce_fee_bump_policy, Reject, Ok, Success
<1> QED
    BY <1>1, <1>2, <1>3, <1>4, <1>5, <1>6, <1>7

\* The checks that follow the replay store.
LEMMA PolicyRejects ==
    ASSUME NEW request, NEW view, NEW records, NEW spent
    PROVE  PolicyReject(request, view, records, spent) \notin Success
<1>1. /\ classify_amounts(request.psbt) \notin Success
      /\ check_dust(request.psbt) \notin Success
    BY EitherRejects DEF classify_amounts, check_dust, Reject, Ok, Success
<1>2. /\ check_velocity_window_capped(spent, view.tip, Charged(records, request)) \notin Success
      /\ check_confirm(request) \notin Success
    BY EitherRejects DEF check_velocity_window_capped, check_confirm,
           verify_confirm_token, Reject, Ok, Success
<1> QED
    BY <1>1, <1>2, EachRejects, EitherRejects DEF PolicyReject, Reject, Ok, Success

\* evaluate says what the replay store says of a known request, and validates
\* only a new one that nothing rejects.
LEMMA EvaluateSays ==
    ASSUME NEW request, NEW auth, NEW view, NEW records, NEW spent
    PROVE  LET answer == evaluate(request, auth, view, records, spent) IN
           /\ answer = "Idempotent" => Verdict(records, request) = "Idempotent"
           /\ answer = "ValidatedUnsigned" =>
                  /\ parse_psbt_v0(request.psbt) = Ok
                  /\ Verdict(records, request) \in {"Fresh", "FeeBump"}
                  /\ PolicyReject(request, view, records, spent) = Ok
<1>1. Verdict(records, request) \in {"ReplayConflict", "Internal", "Idempotent", "Replay",
                                     "FeeBump", "Fresh"}
    BY DEF Verdict, preflight, RetryVerdict, SpendVerdict
<1> QED
    BY <1>1, StructureRejects, PolicyRejects, EitherRejects DEF evaluate, Reject, Ok, Success

\* The one amount that leaves the vault is a number.
LEMMA ExternalIsAmount ==
    ASSUME NEW p \in Psbts, classify_amounts(p) = Ok
    PROVE  ExternalSats(p) \in Nat
<1>1. Cardinality(Leaving(p)) = 1
    BY EitherRejects DEF classify_amounts, Reject, Ok
<1>2. Leaving(p) # {}
    BY <1>1, FS_EmptySet
<1>3. (CHOOSE i \in Leaving(p) : TRUE) \in DOMAIN p.outputs
    BY <1>2 DEF Leaving
<1>4. p.outputs \in Seq(TxOut)
    BY PsbtsAssumption
<1>5. ExternalOut(p) \in TxOut
    BY <1>3, <1>4 DEF ExternalOut
<1> QED
    BY <1>5 DEF ExternalSats, TxOut

-----------------------------------------------------------------------------
(* Maturity on one view. *)

Units == CsvBlocks + SafetyMargin

\* When the checks of the chain find nothing, they have looked at every input.
LEMMA EveryInputPasses ==
    ASSUME NEW view, NEW p, DOMAIN Inputs(p) \subseteq Nat, NEW i \in DOMAIN Inputs(p)
    PROVE  /\ check_csv_for_inputs(view, p) = Ok => MaturityReject(view, Inputs(p)[i]) = Ok
           /\ check_chain_prevouts(view, p) = Ok => FactReject(view, Inputs(p)[i]) = Ok
<1>1. ASSUME check_csv_for_inputs(view, p) = Ok, MaturityReject(view, Inputs(p)[i]) # Ok
      PROVE  FALSE
    <2> DEFINE bad == {j \in DOMAIN Inputs(p) : MaturityReject(view, Inputs(p)[j]) # Ok}
    <2>1. \E n \in bad : \A m \in bad : n <= m
        BY <1>1, LeastExists
    <2> QED
        BY <1>1, <2>1 DEF check_csv_for_inputs, FirstReject
<1>2. ASSUME check_chain_prevouts(view, p) = Ok, FactReject(view, Inputs(p)[i]) # Ok
      PROVE  FALSE
    <2> DEFINE bad == {j \in DOMAIN Inputs(p) : FactReject(view, Inputs(p)[j]) # Ok}
    <2>1. \E n \in bad : \A m \in bad : n <= m
        BY <1>2, LeastExists
    <2> QED
        BY <1>2, <2>1 DEF check_chain_prevouts, FirstReject
<1> QED
    BY <1>1, <1>2

\* The depth counts the confirming block, and both clocks must agree (csv.rs:26-95).
LEMMA DepthAndClock ==
    ASSUME NEW t \in Nat, NEW height \in Nat, NEW n \in Nat, NEW confirmed \in Nat,
           check_csv_maturity(t, height, n, confirmed) = Ok
    PROVE  /\ t + 1 >= height + Units
           /\ n >= confirmed + Units * SecondsPerBlock
<1>1. /\ Reject(csv_depth(t, height) < Units, "CsvImmatureDepth") = Ok
      /\ Reject(n < confirmed + Units * SecondsPerBlock, "CsvImmatureWallclock") = Ok
    BY EitherRejects DEF check_csv_maturity, Units
<1>2. ~((t - height) + 1 < Units) /\ ~(n < confirmed + Units * SecondsPerBlock)
    BY <1>1 DEF Reject, Ok, csv_depth
<1>3. Units \in Nat /\ SecondsPerBlock \in Nat
    BY PinAssumption DEF Units
<1>4. Units * SecondsPerBlock \in Nat
    BY <1>3
<1> HIDE DEF Units
<1> QED
    BY <1>2, <1>3, <1>4

-----------------------------------------------------------------------------
(* What a spend is charged, and what it moves. *)

\* A validated spend is charged within both caps, on the samples it was given.
LEMMA ChargeWithinCaps ==
    ASSUME NEW request, request.psbt \in Psbts, NEW view, NEW records, NEW spent,
           WindowTotal(spent, view.tip) \in Nat,
           PolicyReject(request, view, records, spent) = Ok
    PROVE  /\ ExternalSats(request.psbt) \in 0..PerSig
           /\ Charged(records, request) \in {0, ExternalSats(request.psbt)}
           /\ Charged(records, request) + WindowTotal(spent, view.tip) <= PerWindow
<1> DEFINE sats == ExternalSats(request.psbt)
           charged == Charged(records, request)
           total == WindowTotal(spent, view.tip)
<1>1. classify_amounts(request.psbt) = Ok
    BY EitherRejects DEF PolicyReject
<1>2. sats \in Nat
    BY <1>1, ExternalIsAmount
<1>3. charged \in {0, sats}
    BY DEF Charged
<1>4. /\ Reject(sats > PerSig, "Velocity") = Ok
      /\ check_velocity_window_capped(spent, view.tip, charged) = Ok
    BY EitherRejects DEF PolicyReject
<1>5. Reject(charged + total > PerWindow, "Velocity") = Ok
    BY <1>4, EitherRejects DEF check_velocity_window_capped
<1> HIDE DEF sats, charged, total
<1>6. ~(sats > PerSig) /\ ~(charged + total > PerWindow)
    BY <1>4, <1>5 DEF Reject, Ok
<1>7. PerSig \in Nat /\ PerWindow \in Nat
    BY PinAssumption
<1>8. sats \in 0..PerSig /\ charged + total <= PerWindow
    BY <1>2, <1>3, <1>6, <1>7 DEF total
<1> QED
    BY <1>3, <1>8 DEF sats, charged, total

\* Two records of one vault that are the same payment move the same amount.
LEMMA SamePaymentSameSats ==
    ASSUME NEW a, NEW b, a.vault_script = PinScript, SamePayment(a, b)
    PROVE  ExternalSats(a.psbt) = ExternalSats(b.psbt)
<1>1. b.vault_script = PinScript
    BY DEF SamePayment
<1>2. PICK o : PaysOnly(a, o) /\ PaysOnly(b, o)
    BY DEF SamePayment
<1>3. ASSUME NEW r, r.vault_script = PinScript, PaysOnly(r, o)
      PROVE  ExternalSats(r.psbt) = o.value
    <2>1. PICK i \in DOMAIN r.psbt.outputs :
              /\ r.psbt.outputs[i] = o
              /\ o.script # r.vault_script
              /\ \A j \in DOMAIN r.psbt.outputs \ {i} :
                     r.psbt.outputs[j].script = r.vault_script
        BY <1>3 DEF PaysOnly
    <2>2. Leaving(r.psbt) = {i}
        BY <1>3, <2>1 DEF Leaving
    <2> QED
        BY <2>1, <2>2 DEF ExternalSats, ExternalOut
<1> QED
    BY <1>1, <1>2, <1>3

\* Records of a consistent content that spend the same coins, if any, move the
\* same amount.
LEMMA SameCoinsSameSats ==
    ASSUME NEW records \in Seq(Record), Consistent(records),
           NEW a \in RecordsIn(records), NEW b \in RecordsIn(records),
           a.vault_script = PinScript, b.vault_script = PinScript,
           a.psbt.inputs = b.psbt.inputs, a.psbt.inputs # {}
    PROVE  ExternalSats(a.psbt) = ExternalSats(b.psbt)
<1>1. a = b \/ SamePayment(a, b) \/ SamePayment(b, a)
    BY ConsistentReconciles DEF Reconcilable, MayFollow
<1> QED
    BY <1>1, SamePaymentSameSats

\* A fee bump repeats the coins of a record of the store.
LEMMA BumpRepeatsCoins ==
    ASSUME NEW records, NEW request, Verdict(records, request) = "FeeBump"
    PROVE  \E i \in DOMAIN records :
               records[i].psbt.inputs = Candidate(request).psbt.inputs
<1> DEFINE c == Candidate(request)
<1>1. SpendVerdict(records, c) = "FeeBump"
    BY DEF Verdict, preflight, RetryVerdict
<1> HIDE DEF c
<1>2. PICK i \in Overlapping(records, c) : ~Blocks(records[i], c)
    BY <1>1 DEF SpendVerdict
<1>3. is_vault_change_only(records[i], c) /\ i \in DOMAIN records
    BY <1>2 DEF Blocks, Overlapping
<1> QED
    BY <1>3 DEF is_vault_change_only, outpoints_identical, c

-----------------------------------------------------------------------------
(* What the samples at some heights come to. *)

SampleSats(list) == [i \in DOMAIN list |-> list[i].external_sats]
SampledAt(list, heights) == {i \in DOMAIN list : list[i].tip_height \in heights}
Sampled(list, heights) == SumFunctionOnSet(SampleSats(list), SampledAt(list, heights))

\* What the fields of a sample are.
LEMMA SamplesAreAmounts ==
    ASSUME NEW list \in Seq(Sample), NEW i \in DOMAIN list
    PROVE  list[i].tip_height \in Nat /\ list[i].external_sats \in Nat
<1>1. list[i] \in Sample
    OBVIOUS
<1> QED
    BY <1>1 DEF Sample

\* A list of samples has sums.
LEMMA SampledIsNat ==
    ASSUME NEW list \in Seq(Sample), NEW heights
    PROVE  /\ IsFiniteSet(SampledAt(list, heights))
           /\ \A i \in DOMAIN list : SampleSats(list)[i] \in Nat
           /\ Sampled(list, heights) \in Nat
<1>1. IsFiniteSet(1..Len(list)) /\ DOMAIN list = 1..Len(list)
    BY FS_Interval
<1>2. IsFiniteSet(SampledAt(list, heights))
    BY <1>1, FS_Subset DEF SampledAt
<1>3. \A i \in DOMAIN list : SampleSats(list)[i] \in Nat
    BY SamplesAreAmounts DEF SampleSats
<1>4. SampledAt(list, heights) \subseteq DOMAIN list
    BY DEF SampledAt
<1>5. Sampled(list, heights) \in Nat
    BY <1>2, <1>3, <1>4, SumStep DEF Sampled
<1> QED
    BY <1>2, <1>3, <1>5

\* One more sample adds what it charges, at its height only.
LEMMA SampledAppend ==
    ASSUME NEW list \in Seq(Sample), NEW sample \in Sample, NEW heights
    PROVE  Sampled(Append(list, sample), heights)
           = Sampled(list, heights)
             + (IF sample.tip_height \in heights THEN sample.external_sats ELSE 0)
<1> DEFINE longer == Append(list, sample)
           last == Len(list) + 1
           before == SampledAt(list, heights)
           f == SampleSats(list)
           g == SampleSats(longer)
<1>1. /\ longer \in Seq(Sample) /\ DOMAIN longer = DOMAIN list \cup {last}
      /\ longer[last] = sample /\ last \notin DOMAIN list
      /\ \A i \in DOMAIN list : longer[i] = list[i]
    OBVIOUS
<1>2. /\ IsFiniteSet(before) /\ \A i \in DOMAIN list : f[i] \in Nat
      /\ Sampled(list, heights) \in Nat
    BY SampledIsNat
<1>3. \A i \in DOMAIN longer : g[i] = longer[i].external_sats
    BY DEF SampleSats
<1>4. SampledAt(longer, heights)
      = IF sample.tip_height \in heights THEN before \cup {last} ELSE before
    BY <1>1 DEF SampledAt
<1>5. \A i \in before : f[i] \in Nat /\ f[i] = g[i]
    <2>1. before \subseteq DOMAIN list
        BY DEF SampledAt
    <2>2. \A i \in DOMAIN list : f[i] = list[i].external_sats
        BY DEF SampleSats
    <2> HIDE DEF before, f, g, longer
    <2> QED
        BY <1>1, <1>2, <1>3, <2>1, <2>2
<1> HIDE DEF longer, f, g, before, last
<1>6. SumFunctionOnSet(g, before) = Sampled(list, heights)
    <2>1. SumFunctionOnSet(f, before) = SumFunctionOnSet(g, before)
        BY <1>2, <1>5, SumSame
    <2> QED
        BY <2>1 DEF Sampled, f, before
<1>7. last \notin before /\ g[last] = sample.external_sats /\ sample.external_sats \in Nat
    BY <1>1, <1>3 DEF before, SampledAt, Sample
<1>8. SumFunctionOnSet(g, before \cup {last}) = SumFunctionOnSet(g, before) + g[last]
    BY <1>2, <1>5, <1>7, SumAdd
<1>9. Sampled(longer, heights) = SumFunctionOnSet(g, SampledAt(longer, heights))
    BY DEF Sampled, g
<1>10. CASE sample.tip_height \in heights
    BY <1>4, <1>6, <1>7, <1>8, <1>9, <1>10 DEF longer
<1>11. CASE sample.tip_height \notin heights
    BY <1>2, <1>4, <1>6, <1>9, <1>11 DEF longer
<1> QED
    BY <1>10, <1>11

\* What evaluate finds in the window is a number.
LEMMA WindowIsNat ==
    ASSUME NEW list \in Seq(Sample), NEW t
    PROVE  WindowTotal(list, t) \in Nat
<1> DEFINE w == [i \in DOMAIN list |->
                    IF InWindow(list[i], t) THEN list[i].external_sats ELSE 0]
<1>1. IsFiniteSet(1..Len(list)) /\ DOMAIN list = 1..Len(list)
    BY FS_Interval
<1>2. \A i \in DOMAIN list : w[i] \in Nat
    BY SamplesAreAmounts
<1>3. WindowTotal(list, t) = SumFunctionOnSet(w, DOMAIN list)
    BY DEF WindowTotal, Total, SumFunction
<1> HIDE DEF w
<1> QED
    BY <1>1, <1>2, <1>3, SumStep

\* The window that evaluate looks at holds every sample of a height that is at most
\* WindowBlocks - 1 below the tip.
LEMMA WindowIsCounted ==
    ASSUME NEW list \in Seq(Sample), NEW t \in Nat, NEW heights \in SUBSET Nat,
           \A y \in heights : y <= t /\ t < y + WindowBlocks
    PROVE  Sampled(list, heights) <= WindowTotal(list, t)
<1> DEFINE part == SampledAt(list, heights)
           f == SampleSats(list)
           w == [i \in DOMAIN list |->
                    IF InWindow(list[i], t) THEN list[i].external_sats ELSE 0]
<1>1. IsFiniteSet(DOMAIN list) /\ part \subseteq DOMAIN list /\ IsFiniteSet(part)
    <2>1. IsFiniteSet(1..Len(list)) /\ DOMAIN list = 1..Len(list)
        BY FS_Interval
    <2> QED
        BY <2>1, FS_Subset DEF SampledAt
<1>2. \A i \in DOMAIN list : list[i].tip_height \in Nat /\ list[i].external_sats \in Nat
    BY SamplesAreAmounts
<1>3. \A i \in DOMAIN list : w[i] \in Nat
    BY <1>2
<1>4. \A i \in part : InWindow(list[i], t)
    <2>1. \A i \in part : list[i].tip_height \in heights
        BY DEF SampledAt
    <2>2. WindowBlocks \in Nat /\ WindowBlocks > 0
        BY PinAssumption
    <2> HIDE DEF part
    <2> QED
        BY <1>1, <1>2, <2>1, <2>2 DEF InWindow, WindowStart
<1>5. \A i \in part : f[i] \in Nat /\ f[i] = w[i]
    <2>1. \A i \in DOMAIN list : f[i] = list[i].external_sats
        BY DEF SampleSats
    <2> HIDE DEF f, part
    <2> QED
        BY <1>1, <1>2, <1>4, <2>1
<1>6. WindowTotal(list, t) = SumFunctionOnSet(w, DOMAIN list)
    BY DEF WindowTotal, Total, SumFunction
<1> HIDE DEF w, f, part
<1>7. SumFunctionOnSet(f, part) = SumFunctionOnSet(w, part)
    BY <1>1, <1>5, SumSame
<1>8. SumFunctionOnSet(w, part) <= SumFunctionOnSet(w, DOMAIN list)
    BY <1>1, <1>3, SumSubset
<1> QED
    BY <1>6, <1>7, <1>8 DEF Sampled, f, part
=============================================================================
