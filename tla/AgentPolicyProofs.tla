------------------------- MODULE AgentPolicyProofs -------------------------
(***************************************************************************)
(* Theorems about the signer of AgentPolicy, for every pin, policy, set of *)
(* requests, chain and number of calls in flight.                          *)
(***************************************************************************)
EXTENDS AgentPolicy, PolicyProofs

-----------------------------------------------------------------------------
(* What evaluate has validated. *)

\* Who asks to move the threshold or more has the override key's signature for that
\* very request and transaction, among those that it has given.
Confirmed(r) ==
    ExternalSats(r.psbt) >= ConfirmThreshold =>
        ConfirmBinding(r.request_id, r.psbt) \in tokens

\* evaluate has looked at the token of a large request.
LEMMA ValidatedIsConfirmed ==
    ASSUME NEW q \in Requests, NEW token \in tokens \cup {None},
           Answer(q, token) = "ValidatedUnsigned"
    PROVE  Confirmed(Candidate(q)) /\ Candidate(q) \in Record
<1> DEFINE request == SignRequest(q, token)
<1>1. PolicyReject(request, chain, log, samples) = Ok
    BY EvaluateSays DEF Answer
<1>2. classify_amounts(request.psbt) = Ok /\ check_confirm(request) = Ok
    BY <1>1, EitherRejects DEF PolicyReject
<1>3. /\ request.psbt = q.psbt /\ request.request_id = q.request_id
      /\ request.confirm_token = token
    BY DEF SignRequest
<1>4. ExternalSats(q.psbt) \in Nat
    BY <1>2, <1>3, ExternalIsAmount, RequestsAssumption
<1>5. ASSUME ExternalSats(q.psbt) >= ConfirmThreshold
      PROVE  token # None /\ token = ConfirmBinding(q.request_id, q.psbt)
    <2>1. ~(ExternalSats(q.psbt) < ConfirmThreshold)
        BY <1>4, <1>5, PinAssumption
    <2> HIDE DEF request
    <2>2. /\ Reject(request.confirm_token = None, "ConfirmRequired") = Ok
          /\ verify_confirm_token(request.confirm_token,
                 ConfirmBinding(request.request_id, request.psbt)) = Ok
        BY <1>2, <1>3, <2>1, EitherRejects DEF check_confirm
    <2> QED
        BY <1>3, <2>2 DEF verify_confirm_token, Reject, Ok
<1>6. Candidate(q) \in Record /\ Candidate(q).psbt = q.psbt
      /\ Candidate(q).request_id = q.request_id
    BY RequestsAssumption, PinAssumption DEF Candidate, from_pin, Record
<1> QED
    BY <1>5, <1>6 DEF Confirmed

-----------------------------------------------------------------------------
(* The store of the signer is that of ReplayRecords. *)

\* What one accepts, the other does.
LEMMA StoreAccepts ==
    ASSUME NEW records, NEW r
    PROVE  /\ Store!Accepted(records, r) <=> Accepted(records, r)
           /\ Store!require_signed_payload(r) <=> require_signed_payload(r)
BY DEF Store!require_signed_payload, require_signed_payload,
       Store!Accepted, Accepted, Store!preflight, preflight,
       Store!SameRequest, SameRequest, Store!RetryVerdict, RetryVerdict,
       Store!SpendVerdict, SpendVerdict, Store!Original, Original,
       Store!Overlapping, Overlapping, Store!Blocks, Blocks,
       Store!outpoints_overlap, outpoints_overlap, Store!outputs_commitment,
       outputs_commitment, Store!is_vault_change_only, is_vault_change_only,
       Store!outpoints_identical, outpoints_identical, Store!Classifiable, Classifiable,
       Store!Externals, Externals, Store!Changes, Changes, Store!External, External,
       Store!ChangeSats, ChangeSats, Store!replay_id, replay_id

\* What it holds is what it was given.
LEMMA StoreHolds ==
    ASSUME NEW records
    PROVE  Store!RecordsIn(records) = RecordsIn(records) /\ Store!Record = Record
BY DEF Store!RecordsIn, RecordsIn, Store!Record, Record

\* A beginning of a consistent content is consistent.
LEMMA PrefixIsConsistent ==
    ASSUME NEW records \in Seq(Record), Consistent(records), NEW n \in 0..Len(records)
    PROVE  /\ SubSeq(records, 1, n) \in Seq(Record)
           /\ Consistent(SubSeq(records, 1, n))
           /\ \A i \in DOMAIN SubSeq(records, 1, n) :
                  i \in DOMAIN records /\ SubSeq(records, 1, n)[i] = records[i]
<1> DEFINE prefix == SubSeq(records, 1, n)
<1>1. prefix \in Seq(Record) /\ Len(prefix) = n
    OBVIOUS
<1>2. \A i \in DOMAIN prefix : i \in DOMAIN records /\ prefix[i] = records[i]
    OBVIOUS
<1>3. Consistent(prefix)
    BY <1>2 DEF Consistent
<1> QED
    BY <1>1, <1>2, <1>3

-----------------------------------------------------------------------------
(* Types. *)

Call == [record : Record, charged : 0..PerSig, seen : 0..MaxLost,
         stage : {"validated", "signed", "charged", "committed"},
         tip : 0..MaxTip, now : 0..MaxNow, fallen : 0..MaxLost]

\* Samples of the signer have sums.
LEMMA SamplesOfSigner == TypeOK => samples \in Seq(Sample)
<1>1. [tip_height : 0..MaxTip, external_sats : 0..PerSig] \subseteq Sample
    BY DEF Sample
<1>2. \A S, T : S \subseteq T => Seq(S) \subseteq Seq(T)
    OBVIOUS
<1> QED
    BY <1>1, <1>2 DEF TypeOK

\* A call that evaluate lets in is charged within the caps.
LEMMA ValidatedIsCharged ==
    ASSUME TypeOK, NEW q \in Requests, NEW token \in tokens \cup {None},
           Answer(q, token) = "ValidatedUnsigned"
    PROVE  /\ Candidate(q) \in Record
           /\ ExternalSats(q.psbt) \in 0..PerSig
           /\ Charged(log, q) \in {0, ExternalSats(q.psbt)}
           /\ Charged(log, q) \in 0..PerSig
           /\ Charged(log, q) + WindowTotal(samples, tip) <= PerWindow
<1> DEFINE request == SignRequest(q, token)
<1>1. PolicyReject(request, chain, log, samples) = Ok
    BY EvaluateSays DEF Answer
<1>2. request.psbt = q.psbt /\ q.psbt \in Psbts
    BY RequestsAssumption DEF SignRequest
<1>3. Charged(log, request) = Charged(log, q)
    BY DEF Charged, Verdict, Candidate, SignRequest
<1>4. WindowTotal(samples, tip) \in Nat
    BY SamplesOfSigner, WindowIsNat
<1>5. chain.tip = tip
    BY DEF chain
<1> HIDE DEF request
<1>6. /\ ExternalSats(q.psbt) \in 0..PerSig
      /\ Charged(log, q) \in {0, ExternalSats(q.psbt)}
      /\ Charged(log, q) + WindowTotal(samples, tip) <= PerWindow
    BY <1>1, <1>2, <1>3, <1>4, <1>5, ChargeWithinCaps
<1>7. PerSig \in Nat
    BY PinAssumption
<1> QED
    BY <1>6, <1>7, ValidatedIsConfirmed

\* What a call is after each of its own steps.
Signed(c, signature) ==
    [c EXCEPT !.record = attach_signed(c.record, signature), !.stage = "signed",
              !.tip = tip, !.now = now, !.fallen = lost - c.seen]

ChargedCall(c) == [c EXCEPT !.stage = "charged"]

\* No call has seen more blocks lost than there were.
SeenIsPast == \A c \in calls \cup signings : c.seen <= lost

\* They are calls with the record, the charge and the past of the one before.
LEMMA StepsOfCall ==
    ASSUME TypeOK, SeenIsPast, NEW c \in calls
    PROVE  /\ c \in Call
           /\ \A signature \in Signatures :
                  LET d == Signed(c, signature) IN
                  /\ d \in Call /\ d.stage = "signed" /\ d.record.psbt = c.record.psbt
                  /\ d.record.request_id = c.record.request_id
                  /\ d.record.vault_script = c.record.vault_script
                  /\ d.charged = c.charged /\ d.seen = c.seen
                  /\ d.tip = tip /\ d.now = now /\ d.fallen = lost - c.seen
           /\ \A d \in {ChargedCall(c), Committed(c)} :
                  /\ d \in Call /\ d.record = c.record
                  /\ d.charged = c.charged /\ d.seen = c.seen
                  /\ d.tip = c.tip /\ d.now = c.now /\ d.fallen = c.fallen
           /\ ChargedCall(c).stage = "charged" /\ Committed(c).stage = "committed"
<1>1. /\ c \in Call /\ c.seen <= lost
      /\ tip \in 0..MaxTip /\ now \in 0..MaxNow /\ lost \in 0..MaxLost
    BY DEF TypeOK, Call, SeenIsPast
<1>2. lost - c.seen \in 0..MaxLost
    BY <1>1, BoundsAssumption DEF Call
<1>3. ASSUME NEW signature \in Signatures
      PROVE  LET r == attach_signed(c.record, signature) IN
             /\ r \in Record /\ r.psbt = c.record.psbt
             /\ r.request_id = c.record.request_id
             /\ r.vault_script = c.record.vault_script
    BY <1>1 DEF Call, attach_signed, Record
<1>4. ASSUME NEW signature \in Signatures
      PROVE  LET d == Signed(c, signature) IN
             /\ d \in Call /\ d.stage = "signed"
             /\ d.record = attach_signed(c.record, signature)
             /\ d.charged = c.charged /\ d.seen = c.seen
             /\ d.tip = tip /\ d.now = now /\ d.fallen = lost - c.seen
    <2> DEFINE r == attach_signed(c.record, signature)
    <2>1. r \in Record
        BY <1>3
    <2>2. Signed(c, signature)
          = [c EXCEPT !.record = r, !.stage = "signed",
                      !.tip = tip, !.now = now, !.fallen = lost - c.seen]
        BY DEF Signed
    <2> HIDE DEF r
    <2>3. LET d == Signed(c, signature) IN
          /\ d \in Call /\ d.stage = "signed" /\ d.record = r
          /\ d.charged = c.charged /\ d.seen = c.seen
          /\ d.tip = tip /\ d.now = now /\ d.fallen = lost - c.seen
        BY <1>1, <1>2, <2>1, <2>2 DEF Call
    <2> QED
        BY <2>3 DEF r
<1>5. /\ \A d \in {ChargedCall(c), Committed(c)} :
             /\ d \in Call /\ d.record = c.record
             /\ d.charged = c.charged /\ d.seen = c.seen
             /\ d.tip = c.tip /\ d.now = c.now /\ d.fallen = c.fallen
      /\ ChargedCall(c).stage = "charged" /\ Committed(c).stage = "committed"
    BY <1>1 DEF Call, ChargedCall, Committed
<1> QED
    BY <1>1, <1>3, <1>4, <1>5

\* A call on its way: signed, charged, or committed, and nothing else of the signer
\* changes but what the step says.
LEMMA CallStepsAs ==
    ASSUME NEW c \in calls
    PROVE  /\ \A signature : Sign(c, signature) =>
                  /\ c.stage = "validated"
                  /\ calls' = (calls \ {c}) \cup {Signed(c, signature)}
           /\ RecordSample(c) =>
                  /\ c.stage = "signed"
                  /\ calls' = (calls \ {c}) \cup {ChargedCall(c)}
BY DEF Sign, RecordSample, Signed, ChargedCall

\* A request is retried only against the store.
LEMMA RetryIsIdempotent ==
    ASSUME NEW q, NEW token, Answer(q, token) = "Idempotent"
    PROVE  preflight(log, Candidate(q)) = "Idempotent"
<1>1. Verdict(log, SignRequest(q, token)) = "Idempotent"
    BY EvaluateSays DEF Answer
<1> QED
    BY <1>1 DEF Verdict, SignRequest, Candidate

\* The store answers such a request with a record that it has.
LEMMA OriginalIsRecord ==
    ASSUME TypeOK, NEW c, preflight(log, c) = "Idempotent"
    PROVE  Original(log, c) \in Record
<1>1. SameRequest(log, c) # {} /\ SameRequest(log, c) \in SUBSET Nat
    BY DEF preflight, SpendVerdict, SameRequest, TypeOK
<1>2. \E i \in SameRequest(log, c) : \A j \in SameRequest(log, c) : i <= j
    BY <1>1, LeastExists
<1>3. \E i \in DOMAIN log : Original(log, c) = log[i]
    BY <1>2 DEF Original, SameRequest
<1> QED
    BY <1>3 DEF TypeOK

\* A call as evaluate lets it in.
Newcomer(q) ==
    [record |-> Candidate(q), charged |-> Charged(log, q), stage |-> "validated",
     seen |-> lost, tip |-> 0, now |-> 0, fallen |-> 0]

\* It is a call that the window has room for.
LEMMA EvaluateLetsIn ==
    ASSUME TypeOK, NEW q \in Requests, NEW token \in tokens \cup {None}, Evaluate(q, token)
    PROVE  LET d == Newcomer(q) IN
           /\ calls' = calls \cup {d} /\ d \in Call
           /\ d.stage = "validated" /\ d.seen = lost /\ d.record = Candidate(q)
           /\ d.charged = Charged(log, q)
           /\ d.charged + WindowTotal(samples, tip) <= PerWindow
<1>1. calls' = calls \cup {Newcomer(q)} /\ Answer(q, token) = "ValidatedUnsigned"
    BY DEF Evaluate, Newcomer
<1>2. /\ Candidate(q) \in Record /\ Charged(log, q) \in 0..PerSig
      /\ Charged(log, q) + WindowTotal(samples, tip) <= PerWindow
    BY <1>1, ValidatedIsCharged
<1>3. 0 \in 0..MaxTip /\ 0 \in 0..MaxNow /\ 0 \in 0..MaxLost /\ lost \in 0..MaxLost
    BY BoundsAssumption DEF TypeOK
<1> QED
    BY <1>1, <1>2, <1>3 DEF Newcomer, Call

\* Every value stays in its type, on any chain, and the past is before the present.
LEMMA TypesHold == Spec => [](TypeOK /\ SeenIsPast)
<1>1. Init => TypeOK /\ SeenIsPast
    BY BoundsAssumption DEF Init, TypeOK, SeenIsPast
<1>2. TypeOK /\ SeenIsPast /\ [Next]_vars => TypeOK' /\ SeenIsPast'
    <2> SUFFICES ASSUME TypeOK, SeenIsPast, [Next]_vars PROVE TypeOK' /\ SeenIsPast'
        OBVIOUS
    <2> USE BoundsAssumption
    <2>0. calls \subseteq Call /\ lost \in Nat /\ MaxLost \in Nat
        BY DEF TypeOK, Call
    <2>1. ASSUME NEW q \in Requests, NEW token \in tokens \cup {None}, Evaluate(q, token)
          PROVE  TypeOK' /\ SeenIsPast'
        <3> DEFINE d == Newcomer(q)
        <3>1. calls' = calls \cup {d} /\ d \in Call /\ d.seen = lost
            BY <2>1, EvaluateLetsIn
        <3> HIDE DEF d
        <3>2. UNCHANGED <<tip, now, tokens, samples, log, released, signings, lost>>
            BY <2>1 DEF Evaluate
        <3>3. SeenIsPast'
            BY <2>0, <3>1, <3>2 DEF SeenIsPast
        <3> QED
            BY <3>1, <3>2, <3>3 DEF TypeOK, Call
    <2>2. ASSUME NEW r \in Record, released' = released \cup {r}, calls' \subseteq calls,
                 UNCHANGED <<tip, now, tokens, samples, log, signings, lost>>
          PROVE  TypeOK' /\ SeenIsPast'
        BY <2>2 DEF TypeOK, SeenIsPast
    <2>3. ASSUME NEW q \in Requests, NEW token \in tokens \cup {None}, Retry(q, token)
          PROVE  TypeOK' /\ SeenIsPast'
        <3>1. preflight(log, Candidate(q)) = "Idempotent"
            BY <2>3, RetryIsIdempotent DEF Retry
        <3>2. Original(log, Candidate(q)) \in Record
            BY <3>1, OriginalIsRecord
        <3> QED
            BY <2>2, <2>3, <3>2 DEF Retry
    <2>4. ASSUME NEW c \in calls, CommitIdempotent(c) \/ AnswerOk(c)
          PROVE  TypeOK' /\ SeenIsPast'
        <3>1. c.record \in Record
            BY <2>0 DEF Call
        <3>2. CASE CommitIdempotent(c)
            <4>1. Original(log, c.record) \in Record
                BY <3>2, OriginalIsRecord DEF CommitIdempotent
            <4> QED
                BY <2>2, <3>2, <4>1 DEF CommitIdempotent
        <3>3. CASE AnswerOk(c)
            BY <2>2, <3>1, <3>3 DEF AnswerOk
        <3> QED
            BY <2>4, <3>2, <3>3
    <2>5. ASSUME NEW c \in calls, CommitRefused(c)
          PROVE  TypeOK' /\ SeenIsPast'
        BY <2>5 DEF CommitRefused, TypeOK, SeenIsPast
    <2>6. ASSUME NEW c \in calls, NEW d \in Call, d.seen = c.seen,
                 calls' = (calls \ {c}) \cup {d}
          PROVE  calls' \subseteq Call /\ \A e \in calls' : e.seen <= lost
        BY <2>0, <2>6 DEF SeenIsPast
    <2>7. ASSUME NEW c \in calls, NEW signature \in Signatures, Sign(c, signature)
          PROVE  TypeOK' /\ SeenIsPast'
        <3>1. calls' \subseteq Call /\ \A e \in calls' : e.seen <= lost
            BY <2>6, <2>7, StepsOfCall, CallStepsAs
        <3>2. UNCHANGED <<tip, now, tokens, samples, log, released, signings, lost>>
            BY <2>7 DEF Sign
        <3> QED
            BY <3>1, <3>2 DEF TypeOK, SeenIsPast, Call
    <2>8. ASSUME NEW c \in calls, RecordSample(c)
          PROVE  TypeOK' /\ SeenIsPast'
        <3>1. calls' \subseteq Call /\ \A e \in calls' : e.seen <= lost
            BY <2>6, <2>8, StepsOfCall, CallStepsAs
        <3> DEFINE sample == [tip_height |-> c.tip, external_sats |-> c.charged]
        <3>2. sample \in [tip_height : 0..MaxTip, external_sats : 0..PerSig]
            BY <2>0 DEF Call
        <3>3. /\ samples' = Append(samples, sample)
              /\ UNCHANGED <<tip, now, tokens, log, released, signings, lost>>
            BY <2>8 DEF RecordSample
        <3> HIDE DEF sample
        <3> QED
            BY <3>1, <3>2, <3>3 DEF TypeOK, SeenIsPast, Call
    <2>9. ASSUME NEW c \in calls, Commit(c)
          PROVE  TypeOK' /\ SeenIsPast'
        <3>1. /\ calls' = (calls \ {c}) \cup {Committed(c)}
              /\ signings' = signings \cup {Committed(c)}
              /\ log' = Append(log, c.record)
              /\ UNCHANGED <<tip, now, tokens, samples, released, lost>>
            BY <2>9 DEF Commit
        <3>2. /\ Committed(c) \in Call /\ Committed(c).stage = "committed"
              /\ Committed(c).seen = c.seen
            BY StepsOfCall
        <3>3. calls' \subseteq Call /\ \A e \in calls' : e.seen <= lost
            BY <2>6, <3>1, <3>2
        <3>4. log' \in Seq(Record)
            BY <2>0, <3>1 DEF TypeOK, Call
        <3>5. c.seen <= lost
            BY DEF SeenIsPast
        <3>6. \A s \in signings' : s.seen <= lost
            BY <3>1, <3>2, <3>5 DEF SeenIsPast
        <3>7. Committed(c) \in [record : Record, charged : 0..PerSig, seen : 0..MaxLost,
                                stage : {"committed"}, tip : 0..MaxTip, now : 0..MaxNow,
                                fallen : 0..MaxLost]
            BY <3>2 DEF Call
        <3> QED
            BY <3>1, <3>3, <3>4, <3>6, <3>7 DEF TypeOK, SeenIsPast, Call
    <2>10. CASE Crash
        <3>1. PICK n \in 0..Len(log) : Store!Forget(n)
            BY <2>10 DEF Crash
        <3>2. log' \in Seq(Record) /\ released' = released
            BY <3>1 DEF Store!Forget, TypeOK
        <3> QED
            BY <2>10, <3>2 DEF Crash, TypeOK, SeenIsPast
    <2>11. ASSUME NEW q \in Requests, IssueToken(q)
          PROVE  TypeOK' /\ SeenIsPast'
        BY <2>11 DEF IssueToken, TypeOK, SeenIsPast
    <2>12. CASE Block \/ Reorg \/ Tick
        <3>1. tip \in 0..MaxTip /\ lost \in 0..MaxLost /\ now \in 0..MaxNow
            BY DEF TypeOK
        <3>2. /\ tip' \in 0..MaxTip /\ lost' \in 0..MaxLost /\ now' \in 0..MaxNow
              /\ lost <= lost'
            BY <2>12, <3>1 DEF Block, Reorg, Tick
        <3>3. UNCHANGED <<tokens, calls, samples, log, released, signings>>
            BY <2>12 DEF Block, Reorg, Tick
        <3>4. \A c \in calls \cup signings : c.seen \in Nat
            BY DEF TypeOK
        <3>5. SeenIsPast'
            BY <3>1, <3>2, <3>3, <3>4 DEF SeenIsPast
        <3> QED
            BY <3>2, <3>3, <3>5 DEF TypeOK
    <2>13. CASE UNCHANGED vars
        BY <2>13 DEF vars, TypeOK, SeenIsPast
    <2> QED
        BY <2>1, <2>3, <2>4, <2>5, <2>7, <2>8, <2>9, <2>10, <2>11, <2>12, <2>13 DEF Next
<1> QED
    BY <1>1, <1>2, PTL DEF Spec

\* Every value stays in its type, on any chain.
THEOREM SignerTypes == Spec => []TypeOK
BY TypesHold, PTL

-----------------------------------------------------------------------------
(* What is in the store, and what is on its way to it. *)

\* The log is consistent and holds everything released; a committed call is in it; and
\* what is in the log, or may still come to it, was confirmed.
SignerInv ==
    /\ Consistent(log)
    /\ released \subseteq RecordsIn(log)
    /\ \A c \in calls : Confirmed(c.record)
    /\ \A c \in calls : c.stage = "committed" => c.record \in RecordsIn(log)
    /\ \A i \in DOMAIN log : Confirmed(log[i])

\* Nothing is there at first.
LEMMA InitSigner == Init => SignerInv
BY EmptyIsConsistent DEF Init, SignerInv

\* The calls and the tokens; the log and what was released stay.
LEMMA CallsSteps ==
    ASSUME SignerInv, UNCHANGED <<log, released>>, tokens \subseteq tokens',
           \A c \in calls' : /\ Confirmed(c.record)
                             /\ c.stage = "committed" => c.record \in RecordsIn(log)
    PROVE  SignerInv'
BY DEF SignerInv, Confirmed

\* A call that goes on is about the same request, and is not committed yet.
LEMMA CallGoesOn ==
    ASSUME SignerInv, UNCHANGED <<log, released, tokens>>, NEW c \in calls, NEW d,
           calls' = (calls \ {c}) \cup {d}, d.stage # "committed",
           d.record.psbt = c.record.psbt, d.record.request_id = c.record.request_id
    PROVE  SignerInv'
<1>1. Confirmed(d.record)
    BY DEF SignerInv, Confirmed
<1> QED
    BY <1>1, CallsSteps DEF SignerInv

\* A record leaves the store only when it is in its log.
LEMMA ReleaseStep ==
    ASSUME SignerInv, NEW r \in RecordsIn(log), released' = released \cup {r},
           UNCHANGED <<log, tokens>>, calls' \subseteq calls
    PROVE  SignerInv'
BY DEF SignerInv, Confirmed

\* What a retry, an overtaken twin or a committed call is answered with is in the log.
LEMMA AnswersAreStored ==
    ASSUME TypeOK, SignerInv
    PROVE  /\ \A q \in Requests : \A token : Retry(q, token) =>
                  Original(log, Candidate(q)) \in RecordsIn(log)
           /\ \A c \in calls : /\ CommitIdempotent(c) =>
                                      Original(log, c.record) \in RecordsIn(log)
                               /\ AnswerOk(c) => c.record \in RecordsIn(log)
<1>1. log \in Seq(Record) /\ Consistent(log)
    BY DEF TypeOK, SignerInv
<1>2. ASSUME NEW q \in Requests, NEW token, Retry(q, token)
      PROVE  Original(log, Candidate(q)) \in RecordsIn(log)
    BY <1>1, <1>2, RetryIsIdempotent, OriginalIsStored DEF Retry
<1>3. ASSUME NEW c \in calls, CommitIdempotent(c)
      PROVE  Original(log, c.record) \in RecordsIn(log)
    BY <1>1, <1>3, OriginalIsStored DEF CommitIdempotent
<1>4. ASSUME NEW c \in calls, AnswerOk(c)
      PROVE  c.record \in RecordsIn(log)
    BY <1>4 DEF AnswerOk, SignerInv
<1> QED
    BY <1>2, <1>3, <1>4

\* commit decides again, on the log as it is.
LEMMA CommitStep ==
    ASSUME TypeOK, SeenIsPast, SignerInv, NEW c \in calls, Commit(c)
    PROVE  SignerInv'
<1>1. /\ calls' = (calls \ {c}) \cup {Committed(c)} /\ log' = Append(log, c.record)
      /\ Accepted(log, c.record) /\ require_signed_payload(c.record)
      /\ UNCHANGED <<released, tokens>>
    BY DEF Commit
<1>2. /\ c.record \in Record /\ log \in Seq(Record) /\ Committed(c).record = c.record
      /\ Confirmed(c.record)
    BY StepsOfCall DEF TypeOK, Call, SignerInv
<1>3. log' \in Seq(Record) /\ Consistent(log') /\ RecordsIn(log') = RecordsIn(log) \cup {c.record}
    BY <1>1, <1>2, AppendKeepsConsistent, AppendAddsOne DEF SignerInv
<1>4. \A i \in DOMAIN log' : Confirmed(log'[i])
    BY <1>1, <1>2 DEF SignerInv
<1>5. \A d \in calls' : /\ Confirmed(d.record)
                        /\ d.stage = "committed" => d.record \in RecordsIn(log')
    BY <1>1, <1>2, <1>3 DEF SignerInv
<1> QED
    BY <1>1, <1>3, <1>4, <1>5 DEF SignerInv, Confirmed

\* A crash forgets an end of the log that holds nothing released.
LEMMA CrashStep ==
    ASSUME TypeOK, SignerInv, Crash
    PROVE  SignerInv'
<1>1. PICK n \in 0..Len(log) : Store!Forget(n)
    BY DEF Crash
<1>2. log' = SubSeq(log, 1, n) /\ released' = released /\ released \subseteq RecordsIn(log')
    BY <1>1, StoreHolds DEF Store!Forget
<1>3. calls' = {} /\ tokens' = tokens
    BY DEF Crash
<1>4. /\ log' \in Seq(Record) /\ Consistent(log')
      /\ \A i \in DOMAIN log' : i \in DOMAIN log /\ log'[i] = log[i]
    BY <1>2, PrefixIsConsistent DEF SignerInv, TypeOK
<1> QED
    BY <1>2, <1>3, <1>4 DEF SignerInv, Confirmed

\* Every other step moves a call, the chain or the clock, or issues a token.
LEMMA NextSigner == TypeOK /\ SeenIsPast /\ SignerInv /\ [Next]_vars => SignerInv'
<1> SUFFICES ASSUME TypeOK, SeenIsPast, SignerInv, [Next]_vars PROVE SignerInv'
    OBVIOUS
<1>1. ASSUME NEW q \in Requests, NEW token \in tokens \cup {None}, Evaluate(q, token)
      PROVE  SignerInv'
    <2> DEFINE d == Newcomer(q)
    <2>1. /\ Confirmed(Candidate(q)) /\ calls' = calls \cup {d}
          /\ d.record = Candidate(q) /\ d.stage = "validated"
        BY <1>1, ValidatedIsConfirmed, EvaluateLetsIn DEF Evaluate
    <2> HIDE DEF d
    <2>2. UNCHANGED <<log, released, tokens>>
        BY <1>1 DEF Evaluate
    <2> QED
        BY <2>1, <2>2, CallsSteps DEF SignerInv
<1>2. ASSUME NEW q \in Requests, NEW token \in tokens \cup {None}, Retry(q, token)
      PROVE  SignerInv'
    BY <1>2, AnswersAreStored, ReleaseStep DEF Retry
<1>3. ASSUME NEW c \in calls, CommitIdempotent(c) \/ AnswerOk(c)
      PROVE  SignerInv'
    BY <1>3, AnswersAreStored, ReleaseStep DEF CommitIdempotent, AnswerOk
<1>4. ASSUME NEW c \in calls, NEW signature \in Signatures, Sign(c, signature)
      PROVE  SignerInv'
    <2> DEFINE d == Signed(c, signature)
    <2>1. /\ calls' = (calls \ {c}) \cup {d} /\ d.stage = "signed"
          /\ d.record.psbt = c.record.psbt /\ d.record.request_id = c.record.request_id
        BY <1>4, CallStepsAs, StepsOfCall
    <2>2. UNCHANGED <<log, released, tokens>>
        BY <1>4 DEF Sign
    <2> HIDE DEF d
    <2> QED
        BY <2>1, <2>2, CallGoesOn
<1>5. ASSUME NEW c \in calls, RecordSample(c)
      PROVE  SignerInv'
    <2>1. /\ calls' = (calls \ {c}) \cup {ChargedCall(c)}
          /\ ChargedCall(c).stage = "charged" /\ ChargedCall(c).record = c.record
        BY <1>5, CallStepsAs, StepsOfCall
    <2>2. UNCHANGED <<log, released, tokens>>
        BY <1>5 DEF RecordSample
    <2> QED
        BY <2>1, <2>2, CallGoesOn
<1>6. ASSUME NEW c \in calls, CommitRefused(c)
      PROVE  SignerInv'
    BY <1>6, CallsSteps DEF CommitRefused, SignerInv
<1>7. ASSUME NEW q \in Requests, IssueToken(q)
      PROVE  SignerInv'
    BY <1>7, CallsSteps DEF IssueToken, SignerInv
<1>8. CASE Block \/ Reorg \/ Tick \/ UNCHANGED vars
    BY <1>8 DEF Block, Reorg, Tick, vars, SignerInv, Confirmed
<1> QED
    BY <1>1, <1>2, <1>3, <1>4, <1>5, <1>6, <1>7, <1>8, CommitStep, CrashStep DEF Next

\* Hence the invariant holds in every reachable state.
LEMMA SignerInvariant == Spec => []SignerInv
BY InitSigner, NextSigner, TypesHold, PTL DEF Spec

-----------------------------------------------------------------------------
(* The theorems about the store. *)

\* However calls overlap, crash or are retried, no coin is released to two payees:
\* commit decides on the log as it is, not as it was at evaluate
\* (THREAT_MODEL.md invariant 12, replay.rs:342-366).
THEOREM NeverConflicting == Spec => []NoConflictingRelease
<1>1. TypeOK /\ SignerInv => NoConflictingRelease
    BY ConsistentReconciles DEF TypeOK, SignerInv, NoConflictingRelease
<1> QED
    BY SignerInvariant, SignerTypes, <1>1, PTL

\* A release of the threshold or more was confirmed by the override key for that
\* very request and transaction, on every path to it: a fresh spend, a bump, or the
\* cached answer to a retry (THREAT_MODEL.md invariant 11, evaluate.rs:486-509).
THEOREM LargeIsConfirmed == Spec => []LargeReleaseIsConfirmed
<1>1. SignerInv => LargeReleaseIsConfirmed
    BY DEF SignerInv, LargeReleaseIsConfirmed, Confirmed, RecordsIn
<1> QED
    BY SignerInvariant, <1>1, PTL

\* commit's second look at the log, and the answers that a retry, an overtaken twin and
\* a committed call are given on no look at it at all, add up to ReplayPromise: what
\* the calls carry stays in the log from their commit to their answer
\* (replay.rs:342-366, evaluate.rs:9-11).
THEOREM SignerUsesStore == Spec => UsesStore
<1>1. Init => Store!PromiseInit
    BY DEF Init, Store!PromiseInit
<1>2. ASSUME TypeOK, SeenIsPast, SignerInv, [Next]_vars
      PROVE  [Store!PromiseNext]_(Store!promiseVars)
    <2>0. calls \subseteq Call /\ log \in Seq(Record)
        BY <1>2 DEF TypeOK, Call
    <2>1. ASSUME NEW r \in RecordsIn(log), released' = released \cup {r}, log' = log
          PROVE  Store!PromiseNext
        <3>1. r \in Store!Record
            BY <2>0, <2>1, StoreHolds DEF RecordsIn
        <3>2. Store!Release(r)
            BY <2>1, StoreHolds DEF Store!Release
        <3> QED
            BY <3>1, <3>2 DEF Store!PromiseNext
    <2>2. ASSUME NEW q \in Requests, NEW token \in tokens \cup {None}, Retry(q, token)
          PROVE  Store!PromiseNext
        BY <1>2, <2>1, <2>2, AnswersAreStored DEF Retry
    <2>3. ASSUME NEW c \in calls, CommitIdempotent(c) \/ AnswerOk(c)
          PROVE  Store!PromiseNext
        BY <1>2, <2>1, <2>3, AnswersAreStored DEF CommitIdempotent, AnswerOk
    <2>4. ASSUME NEW c \in calls, Commit(c)
          PROVE  Store!PromiseNext
        <3>1. /\ Accepted(log, c.record) /\ require_signed_payload(c.record)
              /\ log' = Append(log, c.record) /\ released' = released
            BY <2>4 DEF Commit
        <3>2. Store!Accept(c.record)
            BY <3>1, StoreAccepts DEF Store!Accept
        <3>3. c.record \in Store!Record
            BY <2>0, StoreHolds DEF Call
        <3> QED
            BY <3>2, <3>3 DEF Store!PromiseNext
    <2>5. CASE Crash
        BY <2>5 DEF Crash, Store!PromiseNext
    <2>6. ASSUME NEW q \in Requests, NEW token \in tokens \cup {None}, Evaluate(q, token)
          PROVE  UNCHANGED <<log, released>>
        BY <2>6 DEF Evaluate
    <2>7. ASSUME NEW c \in calls, RecordSample(c) \/ CommitRefused(c)
          PROVE  UNCHANGED <<log, released>>
        BY <2>7 DEF RecordSample, CommitRefused
    <2>8. ASSUME NEW c \in calls, NEW signature \in Signatures, Sign(c, signature)
          PROVE  UNCHANGED <<log, released>>
        BY <2>8 DEF Sign
    <2>9. ASSUME NEW q \in Requests, IssueToken(q)
          PROVE  UNCHANGED <<log, released>>
        BY <2>9 DEF IssueToken
    <2>10. CASE Block \/ Reorg \/ Tick \/ UNCHANGED vars
        BY <2>10 DEF Block, Reorg, Tick, vars, Store!promiseVars
    <2> QED
        BY <1>2, <2>2, <2>3, <2>4, <2>5, <2>6, <2>7, <2>8, <2>9, <2>10
        DEF Next, Store!promiseVars
<1> QED
    BY <1>1, <1>2, SignerInvariant, TypesHold, PTL DEF Spec, UsesStore, Store!PromiseSpec

-----------------------------------------------------------------------------
(* Maturity, whatever the tip does in between. *)

\* A record whose coins are all old enough, at a tip and a time.
Mature(r, t, n) ==
    \A o \in r.psbt.inputs :
        /\ o \in DOMAIN Facts
        /\ t + 1 >= Facts[o].confirm_height + Units
        /\ n >= Facts[o].header_time + Units * SecondsPerBlock

\* evaluate validates only what is mature on the view that it is given.
LEMMA ValidatedIsMature ==
    ASSUME NEW q \in Requests, NEW token \in tokens \cup {None}, tip \in Nat, now \in Nat,
           Answer(q, token) = "ValidatedUnsigned"
    PROVE  Mature(Candidate(q), tip, now)
<1> DEFINE request == SignRequest(q, token)
<1>1. PolicyReject(request, chain, log, samples) = Ok
    BY EvaluateSays DEF Answer
<1>2. request.psbt = q.psbt
    BY DEF SignRequest
<1> HIDE DEF request
<1>3. check_chain_prevouts(chain, q.psbt) = Ok /\ check_csv_for_inputs(chain, q.psbt) = Ok
    BY <1>1, <1>2, EitherRejects DEF PolicyReject
<1>4. ASSUME NEW i \in DOMAIN Inputs(q.psbt)
      PROVE  LET o == Inputs(q.psbt)[i].outpoint IN
             /\ o \in DOMAIN Facts
             /\ tip + 1 >= Facts[o].confirm_height + Units
             /\ now >= Facts[o].header_time + Units * SecondsPerBlock
    <2> DEFINE in == Inputs(q.psbt)[i]
    <2>1. FactReject(chain, in) = Ok /\ MaturityReject(chain, in) = Ok
        BY <1>3, EveryInputPasses, RequestsAssumption
    <2> HIDE DEF in
    <2>2. in.outpoint \in DOMAIN Facts
        <3>1. Reject(in.outpoint \notin DOMAIN chain.facts, "PrevoutMissing") = Ok
            BY <2>1, EitherRejects DEF FactReject
        <3> QED
            BY <3>1 DEF Reject, Ok, chain
    <2>3. check_csv_maturity(tip, Facts[in.outpoint].confirm_height, now,
                             Facts[in.outpoint].header_time) = Ok
        BY <2>1 DEF MaturityReject, chain
    <2> QED
        BY <2>2, <2>3, DepthAndClock, FactsAssumption DEF in
<1>5. q.psbt.inputs = {in.outpoint : in \in ToSet(Inputs(q.psbt))}
    BY RequestsAssumption
<1>6. \A o \in q.psbt.inputs : \E i \in DOMAIN Inputs(q.psbt) : o = Inputs(q.psbt)[i].outpoint
    BY <1>5 DEF ToSet
<1>7. Candidate(q).psbt = q.psbt
    BY DEF Candidate, from_pin
<1> QED
    BY <1>4, <1>6, <1>7 DEF Mature

\* The tip and time that a call is measured by: until it is signed the present ones,
\* with the blocks that fell since it was evaluated put back; then those it was signed at.
Height(c) == IF c.stage = "validated" THEN tip + (lost - c.seen) ELSE c.tip + c.fallen
Time(c) == IF c.stage = "validated" THEN now ELSE c.now

\* By that measure every call is mature, and so is what was committed.
MaturityInv ==
    /\ \A c \in calls \cup signings : Mature(c.record, Height(c), Time(c))
    /\ \A s \in signings : s.stage = "committed"

\* Later, at a tip no lower, what was old enough still is (csv.rs:26-95).
LEMMA MatureStays ==
    ASSUME NEW r, NEW t \in Nat, NEW n \in Nat, NEW u \in Nat, NEW m \in Nat,
           t <= u, n <= m, Mature(r, t, n)
    PROVE  Mature(r, u, m)
<1> DEFINE wait == Units * SecondsPerBlock
<1>1. Units \in Nat /\ SecondsPerBlock \in Nat
    BY PinAssumption DEF Units
<1>2. wait \in Nat
    BY <1>1
<1> HIDE DEF wait, Units
<1>3. \A o \in r.psbt.inputs : /\ o \in DOMAIN Facts
                                /\ t + 1 >= Facts[o].confirm_height + Units
                                /\ n >= Facts[o].header_time + wait
    BY DEF Mature, wait
<1>4. \A o \in r.psbt.inputs : /\ o \in DOMAIN Facts
                                /\ u + 1 >= Facts[o].confirm_height + Units
                                /\ m >= Facts[o].header_time + wait
    BY <1>1, <1>2, <1>3, FactsAssumption
<1> QED
    BY <1>4 DEF Mature, wait

\* The chain and the clock go on: a block that falls is counted as lost.
LEMMA WorldKeepsMaturity ==
    ASSUME TypeOK, SeenIsPast, MaturityInv, UNCHANGED <<calls, signings>>,
           tip' \in Nat, lost' \in Nat, now' \in Nat,
           now <= now', tip + lost <= tip' + lost'
    PROVE  MaturityInv'
<1>0. /\ tip \in Nat /\ lost \in Nat /\ now \in Nat
      /\ \A c \in calls \cup signings :
             /\ c.seen \in Nat /\ c.seen <= lost
             /\ c.tip \in Nat /\ c.now \in Nat /\ c.fallen \in Nat
    BY BoundsAssumption DEF TypeOK, SeenIsPast
<1>1. ASSUME NEW c \in calls \cup signings
      PROVE  Mature(c.record, Height(c), Time(c))'
    <2>1. Mature(c.record, Height(c), Time(c))
        BY DEF MaturityInv
    <2> DEFINE t == Height(c)  n == Time(c)
               u == IF c.stage = "validated" THEN tip' + (lost' - c.seen) ELSE c.tip + c.fallen
               m == IF c.stage = "validated" THEN now' ELSE c.now
    <2>2. /\ t \in Nat /\ n \in Nat /\ u \in Nat /\ m \in Nat
          /\ t <= u /\ n <= m
        <3>1. /\ c.seen \in Nat /\ c.seen <= lost
              /\ c.tip \in Nat /\ c.now \in Nat /\ c.fallen \in Nat
            BY <1>0
        <3>2. CASE c.stage = "validated"
            <4>1. t = tip + (lost - c.seen) /\ n = now /\ u = tip' + (lost' - c.seen) /\ m = now'
                BY <3>2 DEF Height, Time
            <4>2. \A a, b, x, y, s \in Nat : s <= b /\ a + b <= x + y =>
                      /\ a + (b - s) \in Nat /\ x + (y - s) \in Nat
                      /\ a + (b - s) <= x + (y - s)
                OBVIOUS
            <4>3. /\ tip + (lost - c.seen) \in Nat /\ tip' + (lost' - c.seen) \in Nat
                  /\ tip + (lost - c.seen) <= tip' + (lost' - c.seen)
                BY <1>0, <3>1, <4>2
            <4> HIDE DEF t, n, u, m
            <4> QED
                BY <1>0, <4>1, <4>3
        <3>3. CASE c.stage # "validated"
            <4>1. t = c.tip + c.fallen /\ n = c.now /\ u = t /\ m = n
                BY <3>3 DEF Height, Time
            <4> HIDE DEF t, n, u, m
            <4> QED
                BY <3>1, <4>1
        <3> QED
            BY <3>2, <3>3
    <2> HIDE DEF t, n, u, m
    <2>3. Mature(c.record, t, n)
        BY <2>1 DEF t, n
    <2>4. Mature(c.record, u, m)
        BY <2>2, <2>3, MatureStays
    <2>5. Height(c)' = u /\ Time(c)' = m
        BY DEF Height, Time, u, m
    <2> QED
        BY <2>4, <2>5 DEF Mature
<1> QED
    BY <1>1 DEF MaturityInv

\* A call goes on, or is committed, with what it was measured by.
LEMMA CallKeepsMaturity ==
    ASSUME TypeOK, MaturityInv, UNCHANGED <<tip, now, lost>>, NEW c \in calls, NEW d,
           calls' \subseteq calls \cup {d}, signings' \subseteq signings \cup {d},
           d \notin signings' \/ d.stage = "committed",
           d.record.psbt = c.record.psbt, Height(d) = Height(c), Time(d) = Time(c)
    PROVE  MaturityInv'
<1>1. Mature(d.record, Height(d), Time(d))
    <2>1. Mature(c.record, Height(c), Time(c))
        BY DEF MaturityInv
    <2> QED
        BY <2>1 DEF Mature
<1>2. \A e \in calls' \cup signings' : Mature(e.record, Height(e), Time(e))
    BY <1>1 DEF MaturityInv
<1>3. \A e \in calls' \cup signings' : Mature(e.record, Height(e), Time(e))'
    BY <1>2 DEF Mature, Height, Time
<1> QED
    BY <1>3 DEF MaturityInv

\* Nothing comes that was not there.
LEMMA GoneKeepsMaturity ==
    ASSUME MaturityInv, UNCHANGED <<tip, now, lost>>,
           calls' \subseteq calls, signings' \subseteq signings
    PROVE  MaturityInv'
BY DEF MaturityInv, Mature, Height, Time

\* The signer signs only what is mature when it signs, by clock, and by depth but for
\* the blocks that fell since the call was evaluated, whatever the order of its calls
\* (csv.rs:26-95, THREAT_MODEL.md 5 and 6).
THEOREM SignedAreMature == Spec => []SignedWasMature
<1>1. Init => MaturityInv
    BY DEF Init, MaturityInv
<1>2. TypeOK /\ SeenIsPast /\ MaturityInv /\ [Next]_vars => MaturityInv'
    <2> SUFFICES ASSUME TypeOK, SeenIsPast, MaturityInv, [Next]_vars PROVE MaturityInv'
        OBVIOUS
    <2>0. /\ tip \in Nat /\ now \in Nat /\ lost \in Nat
          /\ \A c \in calls : c.seen \in Nat /\ c.seen <= lost
        BY BoundsAssumption DEF TypeOK, SeenIsPast
    <2>1. ASSUME NEW q \in Requests, NEW token \in tokens \cup {None}, Evaluate(q, token)
          PROVE  MaturityInv'
        <3> DEFINE d == Newcomer(q)
        <3>1. /\ Mature(Candidate(q), tip, now) /\ calls' = calls \cup {d}
              /\ d.stage = "validated" /\ d.seen = lost /\ d.record = Candidate(q)
            BY <2>0, <2>1, ValidatedIsMature, EvaluateLetsIn DEF Evaluate
        <3> HIDE DEF d
        <3>2. Height(d) = tip /\ Time(d) = now
            BY <2>0, <3>1 DEF Height, Time
        <3>3. UNCHANGED <<tip, now, lost, signings>>
            BY <2>1 DEF Evaluate
        <3>4. \A e \in calls' \cup signings' : Mature(e.record, Height(e), Time(e))
            BY <3>1, <3>2, <3>3 DEF MaturityInv
        <3>5. \A e \in calls' \cup signings' : Mature(e.record, Height(e), Time(e))'
            BY <3>3, <3>4 DEF Mature, Height, Time
        <3> QED
            BY <3>3, <3>5 DEF MaturityInv
    <2>2. ASSUME NEW c \in calls, NEW signature \in Signatures, Sign(c, signature)
          PROVE  MaturityInv'
        <3> DEFINE d == Signed(c, signature)
        <3>1. /\ c.stage = "validated" /\ calls' = (calls \ {c}) \cup {d}
              /\ d.stage = "signed" /\ d.record.psbt = c.record.psbt
              /\ d.tip = tip /\ d.now = now /\ d.fallen = lost - c.seen
            BY <2>2, CallStepsAs, StepsOfCall
        <3>2. UNCHANGED <<tip, now, lost, signings>>
            BY <2>2 DEF Sign
        <3> HIDE DEF d
        <3>3. Height(d) = Height(c) /\ Time(d) = Time(c)
            BY <3>1 DEF Height, Time
        <3>4. d \notin signings'
            BY <3>1, <3>2 DEF MaturityInv
        <3> QED
            BY <3>1, <3>2, <3>3, <3>4, CallKeepsMaturity
    <2>3. ASSUME NEW c \in calls, RecordSample(c)
          PROVE  MaturityInv'
        <3> DEFINE d == ChargedCall(c)
        <3>1. /\ c.stage = "signed" /\ calls' = (calls \ {c}) \cup {d}
              /\ d.stage = "charged" /\ d.record = c.record
              /\ d.tip = c.tip /\ d.now = c.now /\ d.fallen = c.fallen
            BY <2>3, CallStepsAs, StepsOfCall
        <3>2. UNCHANGED <<tip, now, lost, signings>>
            BY <2>3 DEF RecordSample
        <3> HIDE DEF d
        <3>3. Height(d) = Height(c) /\ Time(d) = Time(c) /\ d \notin signings'
            BY <3>1, <3>2 DEF Height, Time, MaturityInv
        <3> QED
            BY <3>1, <3>2, <3>3, CallKeepsMaturity
    <2>4. ASSUME NEW c \in calls, Commit(c)
          PROVE  MaturityInv'
        <3> DEFINE d == Committed(c)
        <3>1. /\ c.stage = "charged" /\ calls' = (calls \ {c}) \cup {d}
              /\ signings' = signings \cup {d} /\ UNCHANGED <<tip, now, lost>>
            BY <2>4 DEF Commit
        <3>2. /\ d.stage = "committed" /\ d.record = c.record
              /\ d.tip = c.tip /\ d.now = c.now /\ d.fallen = c.fallen
            BY StepsOfCall
        <3> HIDE DEF d
        <3>3. Height(d) = Height(c) /\ Time(d) = Time(c)
            BY <3>1, <3>2 DEF Height, Time
        <3> QED
            BY <3>1, <3>2, <3>3, CallKeepsMaturity
    <2>5. ASSUME NEW c \in calls, CommitIdempotent(c) \/ CommitRefused(c) \/ AnswerOk(c)
          PROVE  MaturityInv'
        BY <2>5, GoneKeepsMaturity DEF CommitIdempotent, CommitRefused, AnswerOk
    <2>6. CASE Crash
        BY <2>6, GoneKeepsMaturity DEF Crash
    <2>7. ASSUME NEW q \in Requests, NEW token \in tokens \cup {None},
                 Retry(q, token) \/ IssueToken(q)
          PROVE  MaturityInv'
        BY <2>7, GoneKeepsMaturity DEF Retry, IssueToken
    <2>8. CASE Block \/ Reorg \/ Tick
        <3>1. /\ UNCHANGED <<calls, signings>>
              /\ tip' \in Nat /\ lost' \in Nat /\ now' \in Nat
              /\ now <= now' /\ tip + lost <= tip' + lost'
            BY <2>0, <2>8 DEF Block, Reorg, Tick
        <3> QED
            BY <3>1, WorldKeepsMaturity
    <2>9. CASE UNCHANGED vars
        BY <2>9, GoneKeepsMaturity DEF vars
    <2> QED
        BY <2>1, <2>2, <2>3, <2>4, <2>5, <2>6, <2>7, <2>8, <2>9 DEF Next
<1>3. TypeOK /\ MaturityInv => SignedWasMature
    <2> SUFFICES ASSUME TypeOK, MaturityInv,
                        NEW s \in signings, NEW o \in s.record.psbt.inputs
                 PROVE  /\ s.tip + 1 + s.fallen >= Facts[o].confirm_height + Units
                        /\ s.now >= Facts[o].header_time + Units * SecondsPerBlock
        BY DEF SignedWasMature, Units
    <2>1. Mature(s.record, s.tip + s.fallen, s.now)
        <3>1. Mature(s.record, Height(s), Time(s)) /\ s.stage = "committed"
            BY DEF MaturityInv
        <3> QED
            BY <3>1 DEF Height, Time
    <2>2. s.tip \in Nat /\ s.fallen \in Nat
        BY BoundsAssumption DEF TypeOK
    <2>3. s.tip + s.fallen + 1 = s.tip + 1 + s.fallen
        BY <2>2
    <2> QED
        BY <2>1, <2>3 DEF Mature
<1> QED
    BY <1>1, <1>2, <1>3, TypesHold, PTL DEF Spec


-----------------------------------------------------------------------------
(* What the calls, in flight or committed, are charged. *)

\* Everything that was let in and may count: a committed call is in both sets until
\* it is answered, and after that among the signings only.
Claims == calls \cup signings

Sats == [c \in Call |-> c.charged]

Owed(S) == SumFunctionOnSet(Sats, S)

\* Those whose sample there is, signed at some heights.
ChargedAt(S, heights) ==
    {c \in S : c.stage \in {"charged", "committed"} /\ c.tip \in heights}

\* Those let in since the tip last fell, of l blocks in all, that were signed in the
\* window, or may still be, as the tip is t.
Young(S, l, t, h) ==
    {c \in S : /\ c.seen = l
               /\ \/ c.stage = "validated" /\ t <= h + WindowBlocks - 1
                  \/ c.stage # "validated" /\ c.tip \in Window(h)}

\* Those let in before that were signed in the window, or may still be.
Old(S, l, h) ==
    {c \in S : c.seen # l /\ (c.stage = "validated" \/ c.tip \in Window(h))}

\* Charges are numbers within the cap of one spend.
LEMMA ChargesAreAmounts ==
    /\ \A c \in Call : /\ Sats[c] = c.charged /\ Sats[c] \in Nat /\ Sats[c] <= PerSig
                       /\ c.charged \in Nat /\ c.tip \in Nat /\ c.seen \in Nat
    /\ PerSig \in Nat
BY PinAssumption, BoundsAssumption DEF Call, Sats

\* Sums of them are numbers, and fewer calls owe no more.
LEMMA OwedLess ==
    ASSUME NEW S \in SUBSET Call, IsFiniteSet(S), NEW T \in SUBSET S
    PROVE  /\ IsFiniteSet(T) /\ Owed(S) \in Nat /\ Owed(T) \in Nat
           /\ Owed(T) <= Owed(S)
<1>1. IsFiniteSet(T)
    BY FS_Subset
<1>2. \A c \in S : Sats[c] \in Nat
    BY ChargesAreAmounts
<1> QED
    BY <1>1, <1>2, SumStep, SumSubset DEF Owed

\* One call more owes at most its charge more.
LEMMA OwedAdds ==
    ASSUME NEW S \in SUBSET Call, IsFiniteSet(S), NEW d \in Call, NEW T \in SUBSET (S \cup {d})
    PROVE  Owed(T) \in Nat /\ Owed(T) <= Owed(S) + d.charged
<1> DEFINE all == S \cup {d}
<1>1. all \in SUBSET Call /\ IsFiniteSet(all) /\ d.charged \in Nat /\ Sats[d] = d.charged
    BY FS_AddElement, ChargesAreAmounts
<1>2. \A y \in all : Sats[y] \in Nat
    BY <1>1, ChargesAreAmounts
<1>3. SumFunctionOnSet(Sats, all) <= SumFunctionOnSet(Sats, S) + Sats[d]
    BY <1>2, SumAddAtMost
<1> HIDE DEF all
<1>4. Owed(T) \in Nat /\ Owed(all) \in Nat /\ Owed(T) <= Owed(all) /\ Owed(S) \in Nat
    BY <1>1, OwedLess DEF all
<1>5. Owed(all) <= Owed(S) + d.charged
    BY <1>1, <1>3 DEF Owed
<1> QED
    BY <1>1, <1>4, <1>5

\* A call in the place of another of the same charge owes the same.
LEMMA OwedMoved ==
    ASSUME NEW S \in SUBSET Call, IsFiniteSet(S), NEW c \in Call, NEW d \in Call,
           d.charged = c.charged, NEW T \in SUBSET ((S \ {c}) \cup {d}), d \in T => c \in S
    PROVE  Owed(T) <= Owed(S)
<1> DEFINE left == S \ {c}
<1>1. left \in SUBSET Call /\ IsFiniteSet(left)
    BY FS_RemoveElement
<1>2. CASE d \in T
    <2>1. \A y \in S : Sats[y] \in Nat
        BY ChargesAreAmounts
    <2>2. SumFunctionOnSet(Sats, S) = Sats[c] + SumFunctionOnSet(Sats, left)
        BY <1>2, <2>1, SumStep
    <2>3. Sats[c] = c.charged /\ c.charged \in Nat
        BY ChargesAreAmounts
    <2> HIDE DEF left
    <2>4. Owed(S) = c.charged + Owed(left)
        BY <2>2, <2>3 DEF Owed
    <2>5. Owed(T) \in Nat /\ Owed(T) <= Owed(left) + d.charged
        BY <1>1, OwedAdds DEF left
    <2>6. Owed(left) \in Nat
        BY <1>1, OwedLess
    <2> QED
        BY <2>3, <2>4, <2>5, <2>6
<1>3. CASE d \notin T
    BY <1>3, OwedLess
<1> QED
    BY <1>2, <1>3

\* Calls that are among two groups owe at most what the groups owe.
LEMMA OwedUnion ==
    ASSUME NEW A \in SUBSET Call, IsFiniteSet(A), NEW B \in SUBSET Call, IsFiniteSet(B),
           NEW T \in SUBSET (A \cup B)
    PROVE  /\ Owed(T) \in Nat /\ Owed(A) \in Nat /\ Owed(B) \in Nat
           /\ Owed(T) <= Owed(A) + Owed(B)
<1> DEFINE rest == B \ A
           both == A \cup rest
<1>1. /\ rest \in SUBSET B /\ IsFiniteSet(rest) /\ A \cap rest = {}
      /\ both \in SUBSET Call /\ IsFiniteSet(both) /\ T \in SUBSET both
    BY FS_Subset, FS_Union
<1>2. \A x \in both : Sats[x] \in Nat
    BY <1>1, ChargesAreAmounts
<1> HIDE DEF rest
<1>3. SumFunctionOnSet(Sats, both) = SumFunctionOnSet(Sats, A) + SumFunctionOnSet(Sats, rest)
    BY <1>1, <1>2, SumDisjoint
<1> HIDE DEF both
<1>4. Owed(both) = Owed(A) + Owed(rest)
    BY <1>3 DEF Owed
<1>5. /\ Owed(T) \in Nat /\ Owed(T) <= Owed(both) /\ Owed(A) \in Nat
      /\ Owed(rest) \in Nat /\ Owed(rest) <= Owed(B) /\ Owed(B) \in Nat
    BY <1>1, OwedLess
<1> QED
    BY <1>4, <1>5

\* So many calls owe at most so many spends.
LEMMA OwedByFew ==
    ASSUME NEW S \in SUBSET Call, IsFiniteSet(S), NEW n \in Nat, Cardinality(S) <= n
    PROVE  n * PerSig \in Nat /\ Owed(S) <= n * PerSig
<1> DEFINE k == Cardinality(S)
<1>1. k \in Nat /\ k <= n /\ PerSig \in Nat /\ Owed(S) \in Nat
    BY FS_CardinalityType, ChargesAreAmounts, OwedLess
<1>2. \A x \in S : Sats[x] \in Nat /\ Sats[x] <= PerSig
    BY ChargesAreAmounts
<1>3. Owed(S) <= k * PerSig
    BY <1>1, <1>2, SumBounded DEF Owed
<1> HIDE DEF k
<1>4. PICK m \in Nat : k + m = n
    <2>1. n - k \in Nat /\ k + (n - k) = n
        BY <1>1
    <2> QED
        BY <2>1
<1>5. /\ k * PerSig + m * PerSig = n * PerSig
      /\ k * PerSig \in Nat /\ m * PerSig \in Nat /\ n * PerSig \in Nat
    BY <1>1, <1>4
<1> QED
    BY <1>1, <1>3, <1>5

-----------------------------------------------------------------------------
(* The velocity invariant. *)

\* What a block that falls lets pass at most.
PerLoss == Cap + MaxInFlight * PerSig

\* What is charged has its sample, at the height where it was signed; what was let in
\* since the tip last fell and is, or may yet be, signed in a window is within the
\* bound, as evaluate counted the samples there; and every block that fell has turned
\* at most that much, and the calls in flight, into what no evaluate counts any more.
VelocityInv ==
    /\ TypeOK /\ SeenIsPast
    /\ IsFiniteSet(calls) /\ Cardinality(calls) <= MaxInFlight
    /\ IsFiniteSet(signings)
    /\ \A c \in Claims : c.seen = lost /\ c.stage # "validated" => c.tip <= tip
    /\ \A heights \in SUBSET Nat :
           Owed(ChargedAt(Claims, heights)) <= Sampled(samples, heights)
    /\ \A h \in Nat : /\ Owed(Young(Claims, lost, tip, h)) <= Cap
                      /\ Owed(Old(Claims, lost, h)) <= lost * PerLoss

\* The types of everything the invariant adds up.
LEMMA VelocityTypes ==
    ASSUME VelocityInv
    PROVE  /\ calls \in SUBSET Call /\ Claims \in SUBSET Call
           /\ IsFiniteSet(calls) /\ IsFiniteSet(Claims) /\ Cardinality(calls) \in Nat
           /\ samples \in Seq(Sample)
           /\ tip \in Nat /\ lost \in Nat
           /\ \A s \in signings : s.stage = "committed"
<1>1. /\ calls \in SUBSET Call /\ signings \in SUBSET Call
      /\ tip \in Nat /\ lost \in Nat /\ \A s \in signings : s.stage = "committed"
    BY BoundsAssumption DEF VelocityInv, TypeOK, Call
<1>2. samples \in Seq(Sample)
    BY SamplesOfSigner DEF VelocityInv
<1>3. IsFiniteSet(calls) /\ IsFiniteSet(Claims) /\ Cardinality(calls) \in Nat
    BY FS_CardinalityType, FS_Union DEF VelocityInv, Claims
<1> QED
    BY <1>1, <1>2, <1>3 DEF Claims

\* The bounds are numbers.
LEMMA BoundsAreNat ==
    /\ MaxInFlight \in Nat /\ MaxInFlight - 1 \in Nat
    /\ PerSig \in Nat /\ PerWindow \in Nat /\ WindowBlocks \in Nat
    /\ Cap \in Nat /\ PerLoss \in Nat
    /\ Cap = PerWindow + (MaxInFlight - 1) * PerSig /\ (MaxInFlight - 1) * PerSig \in Nat
    /\ PerLoss = Cap + MaxInFlight * PerSig /\ MaxInFlight * PerSig \in Nat
<1>1. /\ MaxInFlight \in Nat /\ MaxInFlight - 1 \in Nat
      /\ PerSig \in Nat /\ PerWindow \in Nat /\ WindowBlocks \in Nat
    BY InFlightAssumption, PinAssumption
<1>2. (MaxInFlight - 1) * PerSig \in Nat /\ MaxInFlight * PerSig \in Nat
    BY <1>1
<1>3. Cap = PerWindow + (MaxInFlight - 1) * PerSig /\ PerLoss = Cap + MaxInFlight * PerSig
    BY DEF Cap, PerLoss
<1>4. \A a, b \in Nat : a + b \in Nat
    OBVIOUS
<1> QED
    BY <1>1, <1>2, <1>3, <1>4

\* One call more, or one in the place of another.
LEMMA StillInFlight ==
    ASSUME NEW S, IsFiniteSet(S), NEW d, NEW n \in Nat, Cardinality(S) < n
    PROVE  IsFiniteSet(S \cup {d}) /\ Cardinality(S \cup {d}) <= n
<1>1. /\ IsFiniteSet(S \cup {d}) /\ Cardinality(S) \in Nat
      /\ \/ Cardinality(S \cup {d}) = Cardinality(S)
         \/ Cardinality(S \cup {d}) = Cardinality(S) + 1
    BY FS_AddElement, FS_CardinalityType
<1> QED
    BY <1>1

\* A call that goes on does not add to those in flight.
LEMMA SameInFlight ==
    ASSUME VelocityInv, NEW c \in calls, NEW d, calls' = (calls \ {c}) \cup {d}
    PROVE  IsFiniteSet(calls') /\ Cardinality(calls') <= MaxInFlight
<1> DEFINE left == calls \ {c}
<1>1. IsFiniteSet(left) /\ Cardinality(left) = Cardinality(calls) - 1
    BY FS_RemoveElement DEF VelocityInv
<1>2. Cardinality(left) < MaxInFlight
    BY <1>1, VelocityTypes, BoundsAreNat DEF VelocityInv
<1>3. IsFiniteSet(left \cup {d}) /\ Cardinality(left \cup {d}) <= MaxInFlight
    BY <1>1, <1>2, StillInFlight, BoundsAreNat
<1> QED
    BY <1>3

\* Calls and signings only go: a crash, a refused commit, an answer.
LEMMA GoneKeepsVelocity ==
    ASSUME VelocityInv, TypeOK', SeenIsPast', UNCHANGED <<tip, lost, samples>>,
           calls' \in SUBSET calls, signings' \in SUBSET signings
    PROVE  VelocityInv'
<1> DEFINE S == Claims
           T == Claims'
<1>1. S \in SUBSET Call /\ IsFiniteSet(S) /\ T \in SUBSET S
    BY VelocityTypes DEF Claims
<1>2. /\ IsFiniteSet(calls') /\ Cardinality(calls') <= Cardinality(calls)
      /\ IsFiniteSet(signings')
      /\ Cardinality(calls') \in Nat /\ Cardinality(calls) \in Nat
    BY FS_Subset, FS_CardinalityType DEF VelocityInv
<1>3. Cardinality(calls') <= MaxInFlight
    BY <1>2, BoundsAreNat DEF VelocityInv
<1> HIDE DEF S, T
<1>4. ASSUME NEW A, NEW B \in SUBSET A, A \in SUBSET S
      PROVE  Owed(B) <= Owed(A) /\ Owed(B) \in Int /\ Owed(A) \in Int
    <2>1. A \in SUBSET Call /\ IsFiniteSet(A)
        BY <1>1, <1>4, FS_Subset
    <2> QED
        BY <2>1, OwedLess
<1>5. ASSUME NEW heights \in SUBSET Nat
      PROVE  Owed(ChargedAt(T, heights)) <= Sampled(samples, heights)
    <2>1. /\ ChargedAt(T, heights) \in SUBSET ChargedAt(S, heights)
          /\ ChargedAt(S, heights) \in SUBSET S
        BY <1>1 DEF ChargedAt
    <2>2. Sampled(samples, heights) \in Nat
        BY VelocityTypes, SampledIsNat
    <2>3. Owed(ChargedAt(S, heights)) <= Sampled(samples, heights)
        BY DEF VelocityInv, S
    <2> QED
        BY <1>4, <2>1, <2>2, <2>3
<1>6. ASSUME NEW h \in Nat
      PROVE  /\ Owed(Young(T, lost, tip, h)) <= Cap
             /\ Owed(Old(T, lost, h)) <= lost * PerLoss
    <2>1. /\ Young(T, lost, tip, h) \in SUBSET Young(S, lost, tip, h)
          /\ Young(S, lost, tip, h) \in SUBSET S
          /\ Old(T, lost, h) \in SUBSET Old(S, lost, h)
          /\ Old(S, lost, h) \in SUBSET S
        BY <1>1 DEF Young, Old
    <2>2. Owed(Young(S, lost, tip, h)) <= Cap /\ Owed(Old(S, lost, h)) <= lost * PerLoss
        BY DEF VelocityInv, S
    <2> DEFINE bound == lost * PerLoss
    <2>3. Cap \in Nat /\ bound \in Nat
        BY VelocityTypes, BoundsAreNat
    <2> HIDE DEF bound
    <2>4. Owed(Old(S, lost, h)) <= bound
        BY <2>2 DEF bound
    <2>5. Owed(Young(T, lost, tip, h)) <= Cap
        BY <1>4, <2>1, <2>2, <2>3
    <2>6. Owed(Old(T, lost, h)) <= bound
        BY <1>4, <2>1, <2>3, <2>4
    <2> QED
        BY <2>5, <2>6 DEF bound
<1>7. \A c \in T : c.seen = lost /\ c.stage # "validated" => c.tip <= tip
    BY <1>1 DEF VelocityInv, S
<1> QED
    BY <1>2, <1>3, <1>5, <1>6, <1>7 DEF VelocityInv, T

\* A call goes on: where it was to be signed in a window, or has been, it still is.
LEMMA MoveKeepsVelocity ==
    ASSUME VelocityInv, TypeOK', SeenIsPast', UNCHANGED <<tip, lost>>,
           NEW c \in calls, NEW d \in Call, calls' = (calls \ {c}) \cup {d},
           Claims' \in SUBSET ((Claims \ {c}) \cup {d}), IsFiniteSet(signings'),
           d.charged = c.charged, d.seen = c.seen, d.stage # "validated",
           d.tip = IF c.stage = "validated" THEN tip ELSE c.tip,
           \A heights \in SUBSET Nat :
               Owed(ChargedAt(Claims', heights)) <= Sampled(samples', heights)
    PROVE  VelocityInv'
<1> DEFINE S == Claims
           T == Claims'
<1>1. /\ S \in SUBSET Call /\ IsFiniteSet(S) /\ T \in SUBSET ((S \ {c}) \cup {d})
      /\ c \in S /\ c \in Call /\ tip \in Nat /\ lost \in Nat
    BY VelocityTypes DEF Claims
<1>2. IsFiniteSet(calls') /\ Cardinality(calls') <= MaxInFlight
    BY SameInFlight
<1> HIDE DEF S, T
<1>3. ASSUME NEW A \in SUBSET S, NEW B \in SUBSET ((A \ {c}) \cup {d}), d \in B => c \in A
      PROVE  Owed(B) <= Owed(A) /\ Owed(B) \in Int /\ Owed(A) \in Int
    <2>1. A \in SUBSET Call /\ IsFiniteSet(A)
        BY <1>1, FS_Subset
    <2>2. IsFiniteSet(A \ {c}) /\ A \ {c} \in SUBSET Call
        BY <2>1, FS_RemoveElement
    <2>3. Owed(B) \in Nat
        BY <2>2, OwedAdds
    <2>4. Owed(A) \in Nat
        BY <2>1, OwedLess
    <2>5. Owed(B) <= Owed(A)
        BY <1>1, <1>3, <2>1, OwedMoved
    <2> QED
        BY <2>3, <2>4, <2>5
<1>4. ASSUME NEW h \in Nat
      PROVE  /\ Owed(Young(T, lost, tip, h)) <= Cap
             /\ Owed(Old(T, lost, h)) <= lost * PerLoss
    <2> DEFINE A == Young(S, lost, tip, h)
               B == Young(T, lost, tip, h)
               C == Old(S, lost, h)
               D == Old(T, lost, h)
    <2>1. A \in SUBSET S /\ C \in SUBSET S
        BY DEF Young, Old
    <2>2. d.tip \in Window(h) => IF c.stage = "validated" THEN tip <= h + WindowBlocks - 1
                                                           ELSE c.tip \in Window(h)
        BY <1>1, BoundsAreNat DEF Window
    <2>3. B \in SUBSET ((A \ {c}) \cup {d}) /\ (d \in B => c \in A)
        BY <1>1, <2>2 DEF Young
    <2>4. D \in SUBSET ((C \ {c}) \cup {d}) /\ (d \in D => c \in C)
        BY <1>1, <2>2 DEF Old
    <2>5. Owed(A) <= Cap /\ Owed(C) <= lost * PerLoss
        BY DEF VelocityInv, S
    <2> HIDE DEF A, B, C, D
    <2>6. /\ Owed(B) <= Owed(A) /\ Owed(B) \in Int /\ Owed(A) \in Int
          /\ Owed(D) <= Owed(C) /\ Owed(D) \in Int /\ Owed(C) \in Int
        BY <1>3, <2>1, <2>3, <2>4
    <2> DEFINE bound == lost * PerLoss
    <2>7. Cap \in Nat /\ bound \in Nat /\ Owed(C) <= bound
        BY <1>1, <2>5, BoundsAreNat
    <2> HIDE DEF bound
    <2>8. Owed(B) <= Cap /\ Owed(D) <= bound
        BY <2>5, <2>6, <2>7
    <2> QED
        BY <2>8 DEF B, D, bound
<1>5. \A e \in T : e.seen = lost /\ e.stage # "validated" => e.tip <= tip
    <2>1. d.seen = lost => d.tip <= tip
        <3>1. CASE c.stage = "validated"
            BY <1>1, <3>1
        <3>2. CASE c.stage # "validated"
            BY <1>1, <3>2 DEF VelocityInv, S
        <3> QED
            BY <3>1, <3>2
    <2> QED
        BY <1>1, <2>1 DEF VelocityInv, S
<1> QED
    BY <1>2, <1>4, <1>5 DEF VelocityInv, T

\* A signature has no sample yet.
LEMMA SignKeepsVelocity ==
    ASSUME VelocityInv, TypeOK', SeenIsPast',
           NEW c \in calls, NEW signature \in Signatures, Sign(c, signature)
    PROVE  VelocityInv'
<1> DEFINE d == Signed(c, signature)
<1>1. /\ c.stage = "validated" /\ calls' = (calls \ {c}) \cup {d}
      /\ d \in Call /\ d.stage = "signed" /\ d.tip = tip
      /\ d.charged = c.charged /\ d.seen = c.seen
    BY CallStepsAs, StepsOfCall DEF VelocityInv
<1> HIDE DEF d
<1>2. UNCHANGED <<tip, lost, samples, signings>>
    BY DEF Sign
<1>3. c \notin signings
    BY <1>1, VelocityTypes
<1>4. Claims' \in SUBSET ((Claims \ {c}) \cup {d})
    BY <1>1, <1>2, <1>3 DEF Claims
<1>5. ASSUME NEW heights \in SUBSET Nat
      PROVE  Owed(ChargedAt(Claims', heights)) <= Sampled(samples', heights)
    <2> DEFINE A == ChargedAt(Claims, heights)
               B == ChargedAt(Claims', heights)
    <2>1. B \in SUBSET A /\ A \in SUBSET Claims
        BY <1>1, <1>4 DEF ChargedAt
    <2>2. A \in SUBSET Call /\ IsFiniteSet(A)
        BY <2>1, VelocityTypes, FS_Subset
    <2>3. Owed(A) <= Sampled(samples, heights)
        BY DEF VelocityInv
    <2> HIDE DEF A, B
    <2>4. Owed(B) <= Owed(A) /\ Owed(A) \in Nat /\ Owed(B) \in Nat
        BY <2>1, <2>2, OwedLess
    <2>5. Sampled(samples, heights) \in Nat
        BY VelocityTypes, SampledIsNat
    <2>6. Owed(B) <= Sampled(samples, heights)
        BY <2>3, <2>4, <2>5
    <2> QED
        BY <1>2, <2>6 DEF B
<1>6. IsFiniteSet(signings')
    BY <1>2 DEF VelocityInv
<1> QED
    BY <1>1, <1>2, <1>4, <1>5, <1>6, MoveKeepsVelocity

\* The sample comes with the call's charge, at the height where it was signed.
LEMMA SampleKeepsVelocity ==
    ASSUME VelocityInv, TypeOK', SeenIsPast', NEW c \in calls, RecordSample(c)
    PROVE  VelocityInv'
<1> DEFINE d == ChargedCall(c)
           sample == [tip_height |-> c.tip, external_sats |-> c.charged]
<1>1. /\ c.stage = "signed" /\ calls' = (calls \ {c}) \cup {d}
      /\ c \in Call /\ d \in Call /\ d.stage = "charged" /\ d.tip = c.tip
      /\ d.charged = c.charged /\ d.seen = c.seen
    BY CallStepsAs, StepsOfCall DEF VelocityInv
<1>2. /\ samples' = Append(samples, sample)
      /\ UNCHANGED <<tip, lost, signings>>
    BY DEF RecordSample
<1>3. /\ sample \in Sample
      /\ sample.tip_height = c.tip /\ sample.external_sats = c.charged
    BY <1>1, ChargesAreAmounts DEF Sample
<1> HIDE DEF d, sample
<1>4. c \notin signings
    BY <1>1, VelocityTypes
<1>5. Claims' \in SUBSET ((Claims \ {c}) \cup {d})
    BY <1>1, <1>2, <1>4 DEF Claims
<1>6. ASSUME NEW heights \in SUBSET Nat
      PROVE  Owed(ChargedAt(Claims', heights)) <= Sampled(samples', heights)
    <2> DEFINE A == ChargedAt(Claims, heights)
               B == ChargedAt(Claims', heights)
               share == IF c.tip \in heights THEN c.charged ELSE 0
    <2>1. A \in SUBSET Claims
        BY DEF ChargedAt
    <2>2. A \in SUBSET Call /\ IsFiniteSet(A)
        BY <2>1, VelocityTypes, FS_Subset
    <2>3. B \in SUBSET (A \cup {d}) /\ (c.tip \notin heights => B \in SUBSET A)
        BY <1>1, <1>5 DEF ChargedAt
    <2>4. Owed(A) <= Sampled(samples, heights)
        BY DEF VelocityInv
    <2>5. Sampled(samples, heights) \in Nat
        BY VelocityTypes, SampledIsNat
    <2>6. Sampled(samples', heights) = Sampled(samples, heights) + share
        <3>1. Sampled(Append(samples, sample), heights) = Sampled(samples, heights) + share
            BY <1>3, VelocityTypes, SampledAppend
        <3> QED
            BY <1>2, <3>1, Zenon
    <2>7. c.charged \in Nat
        BY <1>1, ChargesAreAmounts
    <2> HIDE DEF A, B
    <2>8. /\ Owed(B) \in Nat /\ Owed(A) \in Nat
          /\ Owed(B) <= Owed(A) + c.charged
          /\ c.tip \notin heights => Owed(B) <= Owed(A)
        BY <1>1, <2>2, <2>3, OwedAdds, OwedLess
    <2>9. CASE c.tip \in heights
        <3>1. share = c.charged
            BY <2>9
        <3> HIDE DEF share
        <3> QED
            BY <2>4, <2>5, <2>6, <2>7, <2>8, <3>1 DEF B
    <2>10. CASE c.tip \notin heights
        <3>1. share = 0
            BY <2>10
        <3> HIDE DEF share
        <3> QED
            BY <2>4, <2>5, <2>6, <2>8, <2>10, <3>1 DEF B
    <2> QED
        BY <2>9, <2>10
<1>7. IsFiniteSet(signings')
    BY <1>2 DEF VelocityInv
<1>8. UNCHANGED <<tip, lost>>
    BY <1>2
<1> QED
    BY <1>1, <1>5, <1>6, <1>7, <1>8, MoveKeepsVelocity

\* A commit takes the call as it was charged.
LEMMA CommitKeepsVelocity ==
    ASSUME VelocityInv, TypeOK', SeenIsPast', NEW c \in calls, Commit(c)
    PROVE  VelocityInv'
<1> DEFINE d == Committed(c)
<1>1. /\ c.stage = "charged" /\ calls' = (calls \ {c}) \cup {d}
      /\ signings' = signings \cup {d}
      /\ UNCHANGED <<tip, lost, samples>>
    BY DEF Commit
<1>2. /\ c \in Call /\ d \in Call /\ d.stage = "committed" /\ d.tip = c.tip
      /\ d.charged = c.charged /\ d.seen = c.seen
    BY StepsOfCall DEF VelocityInv
<1> HIDE DEF d
<1>3. c \notin signings
    BY <1>1, VelocityTypes
<1>4. Claims' \in SUBSET ((Claims \ {c}) \cup {d})
    BY <1>1, <1>3 DEF Claims
<1>5. ASSUME NEW heights \in SUBSET Nat
      PROVE  Owed(ChargedAt(Claims', heights)) <= Sampled(samples', heights)
    <2> DEFINE A == ChargedAt(Claims, heights)
               B == ChargedAt(Claims', heights)
    <2>1. /\ B \in SUBSET ((A \ {c}) \cup {d}) /\ (d \in B => c \in A)
          /\ A \in SUBSET Claims
        BY <1>1, <1>2, <1>4 DEF ChargedAt, Claims
    <2>2. A \in SUBSET Call /\ IsFiniteSet(A)
        BY <2>1, VelocityTypes, FS_Subset
    <2>3. Owed(A) <= Sampled(samples, heights)
        BY DEF VelocityInv
    <2>4. Sampled(samples, heights) \in Nat
        BY VelocityTypes, SampledIsNat
    <2> HIDE DEF A, B
    <2>5. Owed(B) <= Owed(A) /\ Owed(A) \in Nat
        BY <1>2, <2>1, <2>2, OwedMoved, OwedLess
    <2>6. Owed(B) \in Nat
        <3>1. IsFiniteSet(A \ {c}) /\ A \ {c} \in SUBSET Call
            BY <2>2, FS_RemoveElement
        <3> QED
            BY <1>2, <2>1, <3>1, OwedAdds
    <2>7. Owed(B) <= Sampled(samples, heights)
        BY <2>3, <2>4, <2>5, <2>6
    <2> QED
        BY <1>1, <2>7 DEF B
<1>6. IsFiniteSet(signings')
    BY <1>1, FS_AddElement DEF VelocityInv
<1>7. UNCHANGED <<tip, lost>> /\ d.stage # "validated"
      /\ d.tip = IF c.stage = "validated" THEN tip ELSE c.tip
    BY <1>1, <1>2
<1> QED
    BY <1>1, <1>2, <1>4, <1>5, <1>6, <1>7, MoveKeepsVelocity

\* A call gets through on what the samples leave of the window.  If it may still be
\* signed in a window of heights, evaluate has counted there every sample of the calls
\* let in since the tip last fell; the others are in flight, at most MaxInFlight - 1.
LEMMA EvaluateKeepsVelocity ==
    ASSUME VelocityInv, TypeOK', SeenIsPast',
           NEW q \in Requests, NEW token \in tokens \cup {None}, Evaluate(q, token)
    PROVE  VelocityInv'
<1> DEFINE d == Newcomer(q)
           S == Claims
           T == Claims'
           after == calls \cup {d}
<1>1. /\ calls' = calls \cup {d} /\ d \in Call
      /\ d.stage = "validated" /\ d.seen = lost
      /\ d.charged + WindowTotal(samples, tip) <= PerWindow
    BY EvaluateLetsIn DEF VelocityInv
<1>2. Cardinality(calls) < MaxInFlight /\ UNCHANGED <<tip, lost, samples, signings>>
    BY DEF Evaluate
<1>3. /\ calls \in SUBSET Call /\ IsFiniteSet(calls) /\ Cardinality(calls) \in Nat
      /\ S \in SUBSET Call /\ IsFiniteSet(S) /\ samples \in Seq(Sample)
      /\ tip \in Nat /\ lost \in Nat
    BY VelocityTypes
<1> HIDE DEF d
<1>4. T = S \cup {d}
    BY <1>1, <1>2 DEF Claims
<1>5. IsFiniteSet(after) /\ Cardinality(after) <= MaxInFlight
    BY <1>2, <1>3, StillInFlight, BoundsAreNat
<1> HIDE DEF S, T, after
<1>6. d.charged \in Nat /\ WindowTotal(samples, tip) \in Nat
    BY <1>1, <1>3, ChargesAreAmounts, WindowIsNat
<1>7. ASSUME NEW heights \in SUBSET Nat
      PROVE  Owed(ChargedAt(T, heights)) <= Sampled(samples, heights)
    <2>1. ChargedAt(T, heights) = ChargedAt(S, heights)
        BY <1>1, <1>4 DEF ChargedAt
    <2> QED
        BY <2>1 DEF VelocityInv, S
<1>8. ASSUME NEW h \in Nat
      PROVE  Owed(Young(T, lost, tip, h)) <= Cap
    <2>1. CASE tip > h + WindowBlocks - 1
        <3>1. Young(T, lost, tip, h) = Young(S, lost, tip, h)
            BY <1>1, <1>3, <1>4, <2>1, BoundsAreNat DEF Young
        <3> QED
            BY <3>1 DEF VelocityInv, S
    <2>2. CASE tip <= h + WindowBlocks - 1
        <3> DEFINE B == Young(S, lost, tip, h)
                   K == {x \in Nat : x <= tip /\ tip < x + WindowBlocks}
                   C == ChargedAt(S, K)
                   rest == (MaxInFlight - 1) * PerSig
        <3>1. Young(T, lost, tip, h) \in SUBSET (B \cup {d}) /\ B \in SUBSET S /\ C \in SUBSET S
            BY <1>4 DEF Young, ChargedAt
        <3>2. \A c \in B : c.stage \in {"charged", "committed"} => c \in C
            <4> SUFFICES ASSUME NEW c \in B, c.stage \in {"charged", "committed"}
                         PROVE  c.tip \in K
                BY DEF ChargedAt, Young
            <4>1. c \in S /\ c.seen = lost /\ c.stage # "validated" /\ c.tip \in Window(h)
                BY DEF Young
            <4>2. c.tip <= tip
                BY <4>1 DEF VelocityInv, S
            <4>3. c.tip \in Nat /\ c.tip >= h
                BY <4>1, BoundsAreNat DEF Window
            <4> QED
                BY <1>3, <2>2, <4>2, <4>3, BoundsAreNat
        <3>3. \A c \in B : c.stage \in {"validated", "signed"} => c \in calls
            BY VelocityTypes DEF Young, S, Claims
        <3>4. \A c \in B : c.stage \in {"validated", "signed", "charged", "committed"}
            BY <1>3, <3>1 DEF Call
        <3>5. B \in SUBSET (C \cup calls)
            BY <3>2, <3>3, <3>4
        <3>6. Owed(C) <= Sampled(samples, K)
            BY DEF VelocityInv, S
        <3>7. Sampled(samples, K) <= WindowTotal(samples, tip) /\ Sampled(samples, K) \in Nat
            <4>1. K \in SUBSET Nat /\ \A y \in K : y <= tip /\ tip < y + WindowBlocks
                OBVIOUS
            <4> HIDE DEF K
            <4> QED
                BY <1>3, <4>1, WindowIsCounted, SampledIsNat
        <3> HIDE DEF B, C, K
        <3>8. C \in SUBSET Call /\ IsFiniteSet(C) /\ B \in SUBSET Call /\ IsFiniteSet(B)
            BY <1>3, <3>1, FS_Subset
        <3>9. /\ Owed(B) <= Owed(C) + Owed(calls)
              /\ Owed(B) \in Nat /\ Owed(C) \in Nat /\ Owed(calls) \in Nat
            BY <1>3, <3>5, <3>8, OwedUnion
        <3>10. rest \in Nat /\ Owed(calls) <= rest
            <4>1. Cardinality(calls) <= MaxInFlight - 1 /\ MaxInFlight - 1 \in Nat
                BY <1>2, <1>3, BoundsAreNat
            <4> QED
                BY <1>3, <4>1, OwedByFew
        <3>11. /\ Owed(Young(T, lost, tip, h)) <= Owed(B) + d.charged
               /\ Owed(Young(T, lost, tip, h)) \in Nat
            BY <1>1, <3>1, <3>8, OwedAdds
        <3>12. Cap = PerWindow + rest /\ PerWindow \in Nat
            BY BoundsAreNat
        <3> HIDE DEF rest
        <3> QED
            BY <1>1, <1>6, <3>6, <3>7, <3>9, <3>10, <3>11, <3>12
    <2> QED
        BY <1>3, <2>1, <2>2, BoundsAreNat
<1>9. ASSUME NEW h \in Nat
      PROVE  Owed(Old(T, lost, h)) <= lost * PerLoss
    <2>1. Old(T, lost, h) = Old(S, lost, h)
        BY <1>1, <1>4 DEF Old
    <2> QED
        BY <2>1 DEF VelocityInv, S
<1>10. \A e \in T : e.seen = lost /\ e.stage # "validated" => e.tip <= tip
    BY <1>1, <1>4 DEF VelocityInv, S
<1>11. IsFiniteSet(signings)
    BY DEF VelocityInv
<1> QED
    BY <1>1, <1>2, <1>5, <1>7, <1>8, <1>9, <1>10, <1>11 DEF VelocityInv, T, after

\* The tip rises: no window comes into the reach of a call.
LEMMA BlockKeepsVelocity ==
    ASSUME VelocityInv, TypeOK', SeenIsPast', tip' \in Nat, tip <= tip',
           UNCHANGED <<lost, calls, signings, samples>>
    PROVE  VelocityInv'
<1> DEFINE S == Claims
<1>1. /\ S \in SUBSET Call /\ IsFiniteSet(S) /\ tip \in Nat /\ Claims' = S
    BY VelocityTypes DEF Claims
<1> HIDE DEF S
<1>2. ASSUME NEW h \in Nat
      PROVE  Owed(Young(S, lost, tip', h)) <= Cap
    <2> DEFINE A == Young(S, lost, tip, h)
               B == Young(S, lost, tip', h)
    <2>1. B \in SUBSET A /\ A \in SUBSET S
        BY <1>1, BoundsAreNat DEF Young
    <2>2. Owed(A) <= Cap
        BY DEF VelocityInv, S
    <2> HIDE DEF A, B
    <2>3. Owed(B) <= Owed(A) /\ Owed(A) \in Nat /\ Owed(B) \in Nat
        BY <1>1, <2>1, OwedLess, FS_Subset
    <2>4. Owed(B) <= Cap
        BY <2>2, <2>3, BoundsAreNat
    <2> QED
        BY <2>4 DEF B
<1>3. \A c \in S : c.seen = lost /\ c.stage # "validated" => c.tip <= tip'
    <2> SUFFICES ASSUME NEW c \in S, c.seen = lost, c.stage # "validated"
                 PROVE  c.tip <= tip'
        OBVIOUS
    <2>1. c.tip <= tip /\ c.tip \in Nat
        BY <1>1, ChargesAreAmounts DEF VelocityInv, S
    <2> QED
        BY <1>1, <2>1
<1>4. /\ \A heights \in SUBSET Nat :
             Owed(ChargedAt(S, heights)) <= Sampled(samples, heights)
      /\ \A h \in Nat : Owed(Old(S, lost, h)) <= lost * PerLoss
      /\ IsFiniteSet(calls) /\ Cardinality(calls) <= MaxInFlight /\ IsFiniteSet(signings)
    BY DEF VelocityInv, S
<1> QED
    BY <1>1, <1>2, <1>3, <1>4 DEF VelocityInv

\* The tip falls: whatever was let in may from now on escape what evaluate counts.
LEMMA ReorgKeepsVelocity ==
    ASSUME VelocityInv, TypeOK', SeenIsPast', Reorg
    PROVE  VelocityInv'
<1> DEFINE S == Claims
<1>1. /\ S \in SUBSET Call /\ IsFiniteSet(S) /\ calls \in SUBSET Call /\ IsFiniteSet(calls)
      /\ tip \in Nat /\ lost \in Nat /\ Claims' = S
      /\ \A s \in signings : s.stage = "committed"
    BY VelocityTypes DEF Claims, Reorg
<1>2. lost' = lost + 1 /\ UNCHANGED <<calls, signings, samples>>
    BY DEF Reorg
<1>3. \A c \in S : c.seen <= lost /\ c.seen \in Nat
    BY <1>1, ChargesAreAmounts DEF VelocityInv, SeenIsPast, S, Claims
<1>4. calls \in SUBSET S
    BY DEF Claims
<1>5. \A c \in S : c.stage = "validated" => c \in calls
    BY <1>1 DEF Claims
<1> HIDE DEF S
<1>6. \A c \in S : c.seen # lost'
    BY <1>1, <1>2, <1>3
<1>7. ASSUME NEW h \in Nat
      PROVE  Owed(Young(S, lost', tip', h)) <= Cap
    <2>1. Young(S, lost', tip', h) = {}
        BY <1>6 DEF Young
    <2>2. SumFunctionOnSet(Sats, {}) = 0
        BY FS_EmptySet, SumUnfolds
    <2> QED
        BY <2>1, <2>2, BoundsAreNat DEF Owed
<1>8. ASSUME NEW h \in Nat
      PROVE  Owed(Old(S, lost', h)) <= lost' * PerLoss
    <2> DEFINE A == Young(S, lost, tip, h)
               B == Old(S, lost, h)
               C == A \cup calls
               D == Old(S, lost', h)
    <2>1. A \in SUBSET S /\ B \in SUBSET S /\ C \in SUBSET S /\ D \in SUBSET (B \cup C)
        BY <1>4, <1>5 DEF Young, Old
    <2>2. /\ A \in SUBSET Call /\ IsFiniteSet(A) /\ B \in SUBSET Call /\ IsFiniteSet(B)
          /\ C \in SUBSET Call /\ IsFiniteSet(C)
        BY <1>1, <2>1, FS_Subset
    <2>3. Owed(A) <= Cap /\ Owed(B) <= lost * PerLoss
        BY DEF VelocityInv, S
    <2>4. Owed(C) <= Owed(A) + Owed(calls) /\ Owed(A) \in Nat /\ Owed(C) \in Nat
          /\ Owed(calls) \in Nat
        BY <1>1, <2>2, OwedUnion
    <2> HIDE DEF A, B, C, D
    <2>5. Owed(D) <= Owed(B) + Owed(C) /\ Owed(B) \in Nat /\ Owed(D) \in Nat
        BY <2>1, <2>2, OwedUnion
    <2> DEFINE each == MaxInFlight * PerSig
               bound == lost * PerLoss
    <2>6. Owed(calls) <= each /\ each \in Nat
        <3>1. Cardinality(calls) <= MaxInFlight
            BY DEF VelocityInv
        <3> QED
            BY <1>1, <3>1, OwedByFew, BoundsAreNat
    <2>7. lost' * PerLoss = bound + PerLoss /\ bound \in Nat
        BY <1>1, <1>2, BoundsAreNat
    <2>8. PerLoss = Cap + each /\ Cap \in Nat
        BY BoundsAreNat
    <2>9. Owed(B) <= bound
        BY <2>3
    <2> HIDE DEF each, bound
    <2>10. Owed(D) <= bound + PerLoss
        BY <2>3, <2>4, <2>5, <2>6, <2>7, <2>8, <2>9
    <2> QED
        BY <2>7, <2>10 DEF D
<1>9. \A heights \in SUBSET Nat :
          Owed(ChargedAt(S, heights)) <= Sampled(samples, heights)
    BY DEF VelocityInv, S
<1>10. IsFiniteSet(calls) /\ Cardinality(calls) <= MaxInFlight /\ IsFiniteSet(signings)
    BY DEF VelocityInv
<1> QED
    BY <1>1, <1>2, <1>6, <1>7, <1>8, <1>9, <1>10 DEF VelocityInv

\* Hence the invariant holds in every reachable state.
LEMMA VelocityInvariant == Spec => []VelocityInv
<1>1. Init /\ TypeOK /\ SeenIsPast => VelocityInv
    <2> SUFFICES ASSUME Init, TypeOK, SeenIsPast PROVE VelocityInv
        OBVIOUS
    <2>1. Claims = {} /\ calls = {} /\ signings = {} /\ lost = 0 /\ samples = <<>>
        BY DEF Init, Claims
    <2>2. \A heights, h : /\ ChargedAt({}, heights) = {}
                          /\ Young({}, lost, tip, h) = {} /\ Old({}, lost, h) = {}
        BY DEF ChargedAt, Young, Old
    <2>3. IsFiniteSet({}) /\ Cardinality({}) = 0 /\ Owed({}) = 0
        BY FS_EmptySet, SumUnfolds DEF Owed
    <2>4. \A heights : Owed({}) <= Sampled(samples, heights)
        BY <2>3, SamplesOfSigner, SampledIsNat
    <2>5. Owed({}) <= Cap /\ Owed({}) <= lost * PerLoss
        BY <2>1, <2>3, BoundsAreNat
    <2>6. Cardinality(calls) <= MaxInFlight /\ IsFiniteSet(calls) /\ IsFiniteSet(signings)
        BY <2>1, <2>3, BoundsAreNat
    <2> QED
        BY <2>1, <2>2, <2>4, <2>5, <2>6 DEF VelocityInv
<1>2. VelocityInv /\ TypeOK' /\ SeenIsPast' /\ [Next]_vars => VelocityInv'
    <2> SUFFICES ASSUME VelocityInv, TypeOK', SeenIsPast', [Next]_vars PROVE VelocityInv'
        OBVIOUS
    <2>1. ASSUME NEW q \in Requests, NEW token \in tokens \cup {None},
                 Retry(q, token) \/ IssueToken(q)
          PROVE  VelocityInv'
        BY <2>1, GoneKeepsVelocity DEF Retry, IssueToken
    <2>2. ASSUME NEW c \in calls, CommitIdempotent(c) \/ CommitRefused(c) \/ AnswerOk(c)
          PROVE  VelocityInv'
        <3>1. UNCHANGED <<tip, lost, samples, signings>> /\ calls' = calls \ {c}
            BY <2>2 DEF CommitIdempotent, CommitRefused, AnswerOk
        <3> QED
            BY <3>1, GoneKeepsVelocity
    <2>3. CASE Crash
        <3>1. UNCHANGED <<tip, lost, samples>> /\ calls' = {} /\ signings' \in SUBSET signings
            BY <2>3 DEF Crash
        <3> QED
            BY <3>1, GoneKeepsVelocity
    <2>4. CASE Block
        <3>1. tip' = tip + 1 /\ UNCHANGED <<lost, calls, signings, samples>>
            BY <2>4 DEF Block
        <3> QED
            BY <3>1, VelocityTypes, BlockKeepsVelocity
    <2>5. CASE Tick \/ UNCHANGED vars
        <3>1. UNCHANGED <<tip, lost, samples, calls, signings>>
            BY <2>5 DEF Tick, vars
        <3> QED
            BY <3>1, GoneKeepsVelocity
    <2> QED
        BY <2>1, <2>2, <2>3, <2>4, <2>5, EvaluateKeepsVelocity, SignKeepsVelocity,
           SampleKeepsVelocity, CommitKeepsVelocity, ReorgKeepsVelocity DEF Next
<1> QED
    BY <1>1, <1>2, TypesHold, PTL DEF Spec

-----------------------------------------------------------------------------
(* Every payment in the store was charged in full, once. *)

Paid(c) == c.charged = ExternalSats(c.record.psbt)

Pinned(r) == r.vault_script = PinScript /\ r.psbt.inputs # {}

Spends(coins) == \E i \in DOMAIN log : log[i].psbt.inputs = coins

\* What was committed is in the log; the first record there that spends some coins was
\* charged in full; and a call that was not only spends again what is in the log.
PaymentInv ==
    /\ \A i \in DOMAIN log : Pinned(log[i])
    /\ \A s \in signings : s.record \in RecordsIn(log)
    /\ \A i \in DOMAIN log : \A s \in signings : Opens(i) /\ s.record = log[i] => Paid(s)
    /\ \A c \in calls :
           /\ Pinned(c.record)
           /\ c.stage = "committed" \/ Paid(c) \/ Spends(c.record.psbt.inputs)

\* The coins of a request that evaluate validates are some.
LEMMA ValidatedIsPinned ==
    ASSUME NEW q \in Requests, NEW token, Answer(q, token) = "ValidatedUnsigned"
    PROVE  Pinned(Candidate(q)) /\ Candidate(q).psbt = q.psbt
<1> DEFINE ins == Inputs(q.psbt)
<1>1. parse_psbt_v0(SignRequest(q, token).psbt) = Ok
    BY EvaluateSays DEF Answer
<1>2. SignRequest(q, token).psbt = q.psbt
    BY DEF SignRequest
<1>3. parse_psbt_v0(q.psbt) = Ok
    BY <1>1, <1>2
<1>4. ins # <<>>
    BY <1>3 DEF parse_psbt_v0, Reject, Ok
<1>5. ins \in Seq(ToSet(ins)) /\ q.psbt.inputs = {in.outpoint : in \in ToSet(ins)}
    BY RequestsAssumption
<1>6. 1 \in DOMAIN ins
    BY <1>4, <1>5
<1>7. ins[1] \in ToSet(ins)
    BY <1>6 DEF ToSet
<1> HIDE DEF ins
<1>8. q.psbt.inputs # {}
    BY <1>5, <1>7
<1> QED
    BY <1>8 DEF Pinned, Candidate, from_pin

\* A validated call is charged, or it bumps what is in the log.
LEMMA ValidatedIsPaid ==
    ASSUME NEW q \in Requests, NEW token, Answer(q, token) = "ValidatedUnsigned"
    PROVE  \/ Charged(log, q) = ExternalSats(Candidate(q).psbt)
           \/ Spends(Candidate(q).psbt.inputs)
<1>1. CASE Verdict(log, q) # "FeeBump"
    BY <1>1, ValidatedIsPinned DEF Charged
<1>2. CASE Verdict(log, q) = "FeeBump"
    BY <1>2, BumpRepeatsCoins DEF Spends
<1> QED
    BY <1>1, <1>2

\* Nothing new is committed, and the calls that go on spend what they did.
LEMMA CallsKeepPayment ==
    ASSUME PaymentInv, UNCHANGED <<log, signings>>,
           \A d \in calls' : \/ d \in calls
                             \/ \E c \in calls :
                                    /\ d.record.psbt = c.record.psbt
                                    /\ d.record.vault_script = c.record.vault_script
                                    /\ d.charged = c.charged
                                    /\ c.stage # "committed"
    PROVE  PaymentInv'
<1>1. ASSUME NEW d \in calls'
      PROVE  /\ Pinned(d.record)
             /\ d.stage = "committed" \/ Paid(d) \/ Spends(d.record.psbt.inputs)
    <2>1. CASE d \in calls
        BY <2>1 DEF PaymentInv
    <2>2. CASE d \notin calls
        <3>1. PICK c \in calls : /\ d.record.psbt = c.record.psbt
                                 /\ d.record.vault_script = c.record.vault_script
                                 /\ d.charged = c.charged
                                 /\ c.stage # "committed"
            BY <2>2
        <3>2. Pinned(c.record) /\ (Paid(c) \/ Spends(c.record.psbt.inputs))
            BY <3>1 DEF PaymentInv
        <3> QED
            BY <3>1, <3>2 DEF Pinned, Paid
    <2> QED
        BY <2>1, <2>2
<1> QED
    BY <1>1 DEF PaymentInv, Opens, Spends

\* What commit makes stick was paid for, by this call or before it.
LEMMA CommitKeepsPayment ==
    ASSUME TypeOK, SeenIsPast, PaymentInv, NEW c \in calls, Commit(c)
    PROVE  PaymentInv'
<1> DEFINE r == c.record
           d == Committed(c)
           last == Len(log) + 1
           longer == Append(log, r)
           more == signings \cup {d}
<1>1. /\ calls' = (calls \ {c}) \cup {d} /\ signings' = more /\ log' = longer
      /\ c.stage = "charged" /\ Accepted(log, r)
    BY DEF Commit
<1>2. c \in Call /\ log \in Seq(Record) /\ r \in Record
    BY DEF TypeOK, Call
<1>3. d.record = r /\ d.stage = "committed" /\ d.charged = c.charged
    BY StepsOfCall
<1> HIDE DEF r
<1>4. /\ DOMAIN longer = DOMAIN log \cup {last} /\ longer[last] = r
      /\ DOMAIN log = 1..Len(log) /\ Len(log) \in Nat
      /\ \A i \in DOMAIN log : longer[i] = log[i]
    BY <1>2
<1>5. \A i \in DOMAIN log : log[i] # r
    <2>1. SameRequest(log, r) = {}
        BY <1>1 DEF Accepted, preflight, RetryVerdict
    <2> QED
        BY <2>1 DEF SameRequest
<1> HIDE DEF d, longer
<1>6. \A t \in signings : t.record # r
    BY <1>5 DEF PaymentInv, RecordsIn
<1>7. Pinned(r)
    BY DEF PaymentInv, r
<1>8. \A i \in DOMAIN log : Opens(i)' => Opens(i)
    <2>1. \A i \in DOMAIN log : \A j \in 1..(i - 1) : j \in DOMAIN log
        BY <1>4
    <2> QED
        BY <1>1, <1>4, <2>1 DEF Opens
<1>9. ASSUME NEW i, i = last, Opens(i)'
      PROVE  Paid(d)
    <2>1. ~Spends(r.psbt.inputs)
        <3>1. \A j \in 1..(i - 1) : longer[j].psbt.inputs # r.psbt.inputs
            BY <1>1, <1>4, <1>9 DEF Opens
        <3>2. \A j \in DOMAIN log : j \in 1..(i - 1) /\ longer[j] = log[j]
            BY <1>4, <1>9
        <3> HIDE DEF last
        <3> QED
            BY <3>1, <3>2 DEF Spends
    <2>2. Paid(c) \/ Spends(r.psbt.inputs)
        BY <1>1 DEF PaymentInv, r
    <2>3. Paid(c) => Paid(d)
        BY <1>3 DEF Paid, r
    <2> QED
        BY <2>1, <2>2, <2>3
<1>10. ASSUME NEW i \in DOMAIN longer
       PROVE  /\ Pinned(longer[i])
              /\ \A t \in more : Opens(i)' /\ t.record = longer[i] => Paid(t)
    <2>1. CASE i \in DOMAIN log
        <3>1. longer[i] = log[i] /\ log[i] # r
            BY <1>4, <1>5, <2>1
        <3>2. \A t \in more : t.record = log[i] => t \in signings
            BY <1>3, <3>1
        <3> HIDE DEF more
        <3> QED
            BY <1>8, <2>1, <3>1, <3>2 DEF PaymentInv
    <2>2. CASE i = last
        <3>1. longer[i] = r
            BY <1>4, <2>2
        <3>2. \A t \in more : t.record = r => t = d
            BY <1>6
        <3> HIDE DEF more, last
        <3> QED
            BY <1>7, <1>9, <2>2, <3>1, <3>2
    <2> QED
        BY <1>4, <2>1, <2>2
<1>11. \A t \in more : t.record \in RecordsIn(longer)
    <2>1. RecordsIn(longer) = RecordsIn(log) \cup {r}
        BY <1>2, AppendAddsOne DEF longer
    <2> QED
        BY <1>3, <2>1 DEF PaymentInv
<1>12. ASSUME NEW e \in calls'
       PROVE  /\ Pinned(e.record)
              /\ e.stage = "committed" \/ Paid(e) \/ Spends(e.record.psbt.inputs)'
    <2>1. CASE e = d
        BY <1>3, <1>7, <2>1
    <2>2. CASE e \in calls
        <3>1. Spends(e.record.psbt.inputs) => Spends(e.record.psbt.inputs)'
            BY <1>1, <1>4 DEF Spends
        <3> QED
            BY <2>2, <3>1 DEF PaymentInv
    <2> QED
        BY <1>1, <2>1, <2>2
<1> HIDE DEF more
<1> QED
    BY <1>1, <1>10, <1>11, <1>12 DEF PaymentInv

\* A crash takes an end of the log and the signings that belong to it.
LEMMA CrashKeepsPayment ==
    ASSUME TypeOK, PaymentInv, Crash
    PROVE  PaymentInv'
<1>1. PICK n \in 0..Len(log) : Store!Forget(n)
    BY DEF Crash
<1> DEFINE shorter == SubSeq(log, 1, n)
           left == {s \in signings : s.record \in RecordsIn(shorter)}
<1>2. log' = shorter /\ signings' = left /\ calls' = {}
    BY <1>1 DEF Crash, Store!Forget
<1>3. log \in Seq(Record)
    BY DEF TypeOK
<1>4. /\ DOMAIN shorter = 1..n /\ n \in Nat
      /\ \A i \in 1..n : i \in DOMAIN log /\ shorter[i] = log[i]
    BY <1>3
<1> HIDE DEF shorter
<1>5. \A i \in DOMAIN shorter : Opens(i)' => Opens(i)
    <2>1. \A i \in 1..n : \A j \in 1..(i - 1) : j \in 1..n
        BY <1>4
    <2> QED
        BY <1>2, <1>4, <2>1 DEF Opens
<1> QED
    BY <1>2, <1>4, <1>5 DEF PaymentInv

\* Every payment in the store was charged, on any chain.
LEMMA PaymentInvariant == Spec => []PaymentInv
<1>1. Init => PaymentInv
    BY DEF Init, PaymentInv
<1>2. TypeOK /\ SeenIsPast /\ PaymentInv /\ [Next]_vars => PaymentInv'
    <2> SUFFICES ASSUME TypeOK, SeenIsPast, PaymentInv, [Next]_vars PROVE PaymentInv'
        OBVIOUS
    <2>1. ASSUME NEW q \in Requests, NEW token \in tokens \cup {None}, Evaluate(q, token)
          PROVE  PaymentInv'
        <3> DEFINE d == Newcomer(q)
        <3>1. /\ Answer(q, token) = "ValidatedUnsigned"
              /\ UNCHANGED <<log, signings>>
            BY <2>1 DEF Evaluate
        <3>2. /\ calls' = calls \cup {d}
              /\ d.record = Candidate(q) /\ d.charged = Charged(log, q)
            BY <2>1, EvaluateLetsIn
        <3> HIDE DEF d
        <3>3. Pinned(d.record) /\ (Paid(d) \/ Spends(d.record.psbt.inputs))
            BY <3>1, <3>2, ValidatedIsPinned, ValidatedIsPaid DEF Paid
        <3> QED
            BY <3>1, <3>2, <3>3 DEF PaymentInv, Opens, Spends
    <2>2. ASSUME NEW c \in calls, NEW signature \in Signatures, Sign(c, signature)
          PROVE  PaymentInv'
        <3> DEFINE d == Signed(c, signature)
        <3>1. /\ c.stage = "validated" /\ calls' = (calls \ {c}) \cup {d}
              /\ d.record.psbt = c.record.psbt
              /\ d.record.vault_script = c.record.vault_script
              /\ d.charged = c.charged
            BY <2>2, CallStepsAs, StepsOfCall
        <3>2. UNCHANGED <<log, signings>>
            BY <2>2 DEF Sign
        <3> HIDE DEF d
        <3> QED
            BY <3>1, <3>2, CallsKeepPayment
    <2>3. ASSUME NEW c \in calls, RecordSample(c)
          PROVE  PaymentInv'
        <3> DEFINE d == ChargedCall(c)
        <3>1. /\ c.stage = "signed" /\ calls' = (calls \ {c}) \cup {d}
              /\ d.record = c.record /\ d.charged = c.charged
            BY <2>3, CallStepsAs, StepsOfCall
        <3>2. UNCHANGED <<log, signings>>
            BY <2>3 DEF RecordSample
        <3> HIDE DEF d
        <3> QED
            BY <3>1, <3>2, CallsKeepPayment
    <2>4. ASSUME NEW c \in calls, CommitIdempotent(c) \/ CommitRefused(c) \/ AnswerOk(c)
          PROVE  PaymentInv'
        <3>1. UNCHANGED <<log, signings>> /\ calls' \subseteq calls
            BY <2>4 DEF CommitIdempotent, CommitRefused, AnswerOk
        <3> QED
            BY <3>1, CallsKeepPayment
    <2>5. ASSUME NEW q \in Requests, NEW token \in tokens \cup {None},
                 Retry(q, token) \/ IssueToken(q)
          PROVE  PaymentInv'
        <3>1. UNCHANGED <<log, signings, calls>>
            BY <2>5 DEF Retry, IssueToken
        <3> QED
            BY <3>1, CallsKeepPayment
    <2>6. CASE Block \/ Reorg \/ Tick \/ UNCHANGED vars
        <3>1. UNCHANGED <<log, signings, calls>>
            BY <2>6 DEF Block, Reorg, Tick, vars
        <3> QED
            BY <3>1, CallsKeepPayment
    <2> QED
        BY <2>1, <2>2, <2>3, <2>4, <2>5, <2>6, CommitKeepsPayment, CrashKeepsPayment DEF Next
<1> QED
    BY <1>1, <1>2, TypesHold, PTL DEF Spec

\* A payment that counts on some heights was charged in full where it was signed.
LEMMA CountedIsCharged ==
    ASSUME TypeOK, PaymentInv, SignerInv, NEW heights,
           NEW coins \in Payments, SignedIn(coins, heights)
    PROVE  \E t \in signings : /\ t.record.psbt.inputs = coins
                               /\ t.tip \in heights
                               /\ t.charged = PaymentSats(coins)
<1>1. PICK i \in DOMAIN log, t \in signings :
          /\ log[i].psbt.inputs = coins /\ Opens(i)
          /\ t.record = log[i] /\ t.tip \in heights
    BY DEF SignedIn
<1>2. Paid(t) /\ t.record.psbt.inputs = coins /\ t.record \in RecordsIn(log)
    BY <1>1 DEF PaymentInv
<1> DEFINE r == CHOOSE x \in released : x.psbt.inputs = coins
<1>3. r \in released /\ r.psbt.inputs = coins
    BY DEF Payments
<1> HIDE DEF r
<1>4. log \in Seq(Record) /\ Consistent(log) /\ r \in RecordsIn(log)
    BY <1>3 DEF SignerInv, TypeOK
<1>5. \A x \in RecordsIn(log) : x.vault_script = PinScript /\ x.psbt.inputs # {}
    BY DEF PaymentInv, Pinned, RecordsIn
<1>6. ExternalSats(t.record.psbt) = ExternalSats(r.psbt)
    BY <1>2, <1>3, <1>4, <1>5, SameCoinsSameSats
<1>7. t.charged = PaymentSats(coins)
    BY <1>2, <1>6 DEF Paid, PaymentSats, r
<1> QED
    BY <1>1, <1>2, <1>7

\* What left the vault on some heights is at most what was charged for on them.
LEMMA SentIsCharged ==
    ASSUME VelocityInv, PaymentInv, SignerInv, NEW heights
    PROVE  LET part == {s \in signings : s.tip \in heights} IN
           SentIn(heights) \in Nat /\ SentIn(heights) <= Owed(part)
<1> DEFINE D == {p \in Payments : SignedIn(p, heights)}
           f == [coins \in D |-> PaymentSats(coins)]
           g == [coins \in D |-> CHOOSE t \in signings :
                                     /\ t.record.psbt.inputs = coins
                                     /\ t.tip \in heights
                                     /\ t.charged = PaymentSats(coins)]
           image == {g[coins] : coins \in D}
           part == {s \in signings : s.tip \in heights}
<1>1. signings \in SUBSET Call /\ IsFiniteSet(signings)
    BY VelocityTypes DEF VelocityInv, Claims
<1>2. IsFiniteSet(D)
    <2> DEFINE spent == [s \in signings |-> s.record.psbt.inputs]
    <2>1. IsFiniteSet({spent[s] : s \in signings})
        BY <1>1, ImageIsFinite
    <2>2. D \subseteq {spent[s] : s \in signings}
        BY DEF SignedIn
    <2> QED
        BY <2>1, <2>2, FS_Subset
<1>3. ASSUME NEW coins \in D
      PROVE  /\ g[coins] \in part /\ g[coins].record.psbt.inputs = coins
             /\ g[coins].charged = f[coins]
    <2>1. \E t \in signings : /\ t.record.psbt.inputs = coins
                              /\ t.tip \in heights
                              /\ t.charged = PaymentSats(coins)
        BY CountedIsCharged DEF VelocityInv
    <2> QED
        BY <2>1
<1>4. SentIn(heights) = SumFunctionOnSet(f, D)
    BY DEF SentIn, SumFunction
<1>5. part \in SUBSET Call /\ IsFiniteSet(part)
    BY <1>1, FS_Subset
<1> HIDE DEF D, f, g, part
<1>6. \A coins \in D : /\ f[coins] \in Nat
                       /\ Sats[g[coins]] \in Nat
                       /\ f[coins] <= Sats[g[coins]]
    <2> TAKE coins \in D
    <2>1. g[coins] \in Call
        BY <1>3, <1>5
    <2>2. Sats[g[coins]] = f[coins] /\ f[coins] \in Nat
        BY <1>3, <2>1, ChargesAreAmounts
    <2> QED
        BY <2>2
<1>7. \A x, y \in D : g[x] = g[y] => x = y
    BY <1>3
<1>8. /\ SumFunctionOnSet(f, D) <= SumFunctionOnSet(Sats, image)
      /\ IsFiniteSet(image)
    BY <1>2, <1>6, <1>7, SumInjective
<1>9. image \in SUBSET part
    BY <1>3
<1> HIDE DEF image
<1>10. /\ SumFunctionOnSet(Sats, image) <= SumFunctionOnSet(Sats, part)
       /\ SumFunctionOnSet(Sats, image) \in Nat
       /\ SumFunctionOnSet(Sats, part) \in Nat
    BY <1>5, <1>9, OwedLess DEF Owed
<1>11. SumFunctionOnSet(f, D) \in Nat
    BY <1>2, <1>6, SumStep
<1>12. SentIn(heights) \in Nat /\ SentIn(heights) <= Owed(part)
    BY <1>4, <1>8, <1>10, <1>11 DEF Owed
<1> QED
    BY <1>12 DEF part

\* However calls overlap, wait, crash, are refused, bumped or retried: what is signed
\* at the heights of a window and released exceeds the window cap by at most one spend
\* for every further call allowed in flight, and by as much again, and the calls in
\* flight, for every block that the tip ever fell by (THREAT_MODEL.md invariant 10,
\* velocity.rs:6-12, 33-76).
THEOREM VelocityBounded == Spec => []VelocityBound
<1>1. VelocityInv /\ PaymentInv /\ SignerInv => VelocityBound
    <2> SUFFICES ASSUME VelocityInv, PaymentInv, SignerInv, NEW h \in 0..MaxTip
                 PROVE  SentIn(Window(h)) <= Cap + lost * (Cap + MaxInFlight * PerSig)
        BY DEF VelocityBound
    <2> DEFINE part == {s \in signings : s.tip \in Window(h)}
               A == Young(Claims, lost, tip, h)
               B == Old(Claims, lost, h)
               bound == lost * PerLoss
    <2>1. h \in Nat
        BY BoundsAssumption
    <2>2. SentIn(Window(h)) \in Nat /\ SentIn(Window(h)) <= Owed(part)
        BY SentIsCharged
    <2>3. part \in SUBSET (A \cup B) /\ A \in SUBSET Claims /\ B \in SUBSET Claims
        BY VelocityTypes DEF Young, Old, Claims
    <2>4. A \in SUBSET Call /\ IsFiniteSet(A) /\ B \in SUBSET Call /\ IsFiniteSet(B)
        BY <2>3, VelocityTypes, FS_Subset
    <2>5. Owed(A) <= Cap /\ Owed(B) <= bound
        BY <2>1 DEF VelocityInv
    <2> HIDE DEF part, A, B
    <2>6. /\ Owed(part) <= Owed(A) + Owed(B)
          /\ Owed(part) \in Nat /\ Owed(A) \in Nat /\ Owed(B) \in Nat
        BY <2>3, <2>4, OwedUnion
    <2>7. bound \in Nat /\ Cap \in Nat
        BY VelocityTypes, BoundsAreNat
    <2> HIDE DEF bound
    <2>8. SentIn(Window(h)) <= Cap + bound
        BY <2>2, <2>5, <2>6, <2>7
    <2> QED
        BY <2>8 DEF bound, PerLoss
<1> QED
    BY <1>1, VelocityInvariant, PaymentInvariant, SignerInvariant, PTL

\* For one call at a time, on a chain whose tip never falls, the limit is the
\* documented one: it takes a reorganisation or overlapping calls to exceed it
\* (THREAT_MODEL.md:168-169, velocity.rs:33-76).
THEOREM DocumentedVelocity ==
    ASSUME MaxLost = 0, MaxInFlight = 1
    PROVE  Spec => []VelocityAsDocumented
<1>1. TypeOK /\ VelocityBound => VelocityAsDocumented
    <2> SUFFICES ASSUME TypeOK, VelocityBound, NEW h \in 0..MaxTip
                 PROVE  SentIn(Window(h)) <= PerWindow
        BY DEF VelocityAsDocumented
    <2>1. lost = 0
        BY DEF TypeOK
    <2>2. PerSig \in Nat /\ PerWindow \in Nat
        BY PinAssumption
    <2>3. Cap = PerWindow
        BY <2>2 DEF Cap
    <2>4. lost * (Cap + MaxInFlight * PerSig) = 0
        BY <2>1, <2>2, <2>3
    <2>5. Cap + lost * (Cap + MaxInFlight * PerSig) = PerWindow
        BY <2>2, <2>3, <2>4
    <2> QED
        BY <2>5 DEF VelocityBound
<1> QED
    BY <1>1, VelocityBounded, SignerTypes, PTL
=============================================================================
