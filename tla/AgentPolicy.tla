---------------------------- MODULE AgentPolicy ----------------------------
(***************************************************************************)
(* A signer built on tesaurus-policy.  The repository has no such caller   *)
(* yet; everything it calls is the library's, and its order is the one the *)
(* documentation asks of the caller: evaluate, then sign and attach_signed *)
(* (evaluate.rs:9-11), on the signature record the velocity sample at Core *)
(* B's tip (velocity.rs:6-9), and commit before the answer (replay.rs:342).*)
(* No document orders the sample and the commit; here the sample is first, *)
(* as a crash between the two would otherwise release a spend uncharged.   *)
(*                                                                         *)
(* The store is the content of replay.rs, a log; ReplayStore models how it *)
(* reaches the disk.  Core B's tip and the clock advance on their own, and *)
(* calls overlap up to MaxInFlight; calls alike in everything are one.     *)
(***************************************************************************)
EXTENDS Policy

CONSTANTS
    Requests,       \* SignRequests: [request_id, psbt, claimed_external_sats]
    Facts,          \* what Core B says of each coin, while it stays confirmed
    MaxInFlight,    \* calls between evaluate and their answer
    MaxLost,        \* bound on the blocks that Core B's tip ever falls by
    MaxTip, MaxNow, \* bounds on the chain and on the clock
    MaxSamples      \* bound on the samples, and with them on the crashes

ASSUME InFlightAssumption == MaxInFlight \in Nat \ {0}

ASSUME BoundsAssumption == {MaxLost, MaxTip, MaxNow, MaxSamples} \subseteq Nat

ASSUME RequestsAssumption ==
    \A q \in Requests :
        /\ q.request_id \in RequestIds /\ q.psbt \in Psbts
        /\ Inputs(q.psbt) \in Seq(ToSet(Inputs(q.psbt)))
        /\ q.psbt.inputs = {in.outpoint : in \in ToSet(Inputs(q.psbt))}

ASSUME FactsAssumption ==
    \A o \in DOMAIN Facts : {Facts[o].confirm_height, Facts[o].header_time} \subseteq Nat

VARIABLES
    tip, now,   \* Core B's tip height, and the wall clock
    tokens,     \* confirm tokens the override key has signed
    calls,      \* the calls in flight, with how far each has come
    samples,    \* velocity samples, durable
    log,        \* records of the replay store
    released,   \* records whose signature a caller was answered with
    signings,   \* history: the calls that were committed, while the store has them
    lost        \* history: the blocks that the tip has ever fallen by

vars == <<tip, now, tokens, calls, samples, log, released, signings, lost>>

Store == INSTANCE ReplayPromise

chain == [genesis |-> PinGenesis, tip |-> tip, now |-> now, facts |-> Facts]

SignRequest(q, token) ==
    [request_id |-> q.request_id, psbt |-> q.psbt, confirm_token |-> token,
     claimed_external_sats |-> q.claimed_external_sats]

Answer(q, token) == evaluate(SignRequest(q, token), TRUE, chain, log, samples)

Init ==
    /\ tip = 0 /\ now = 0
    /\ tokens = {}
    /\ calls = {}
    /\ samples = <<>>
    /\ log = <<>>
    /\ released = {}
    /\ signings = {}
    /\ lost = 0

-----------------------------------------------------------------------------
(* One request, from evaluate to its answer.  A request that evaluate       *)
(* rejects changes nothing.                                                 *)

\* History in a call: `seen` blocks were lost when it was evaluated; once it is signed,
\* at which tip and time, and how many blocks fell in between.
Evaluate(q, token) ==
    /\ Cardinality(calls) < MaxInFlight
    /\ Answer(q, token) = "ValidatedUnsigned"
    /\ calls' = calls \cup {[record |-> Candidate(q), charged |-> Charged(log, q),
                             stage |-> "validated", seen |-> lost,
                             tip |-> 0, now |-> 0, fallen |-> 0]}
    /\ UNCHANGED <<tip, now, tokens, samples, log, released, signings, lost>>

\* An honest retry is answered from the store, without any further check.
Retry(q, token) ==
    /\ Answer(q, token) = "Idempotent"
    /\ released' = released \cup {Original(log, Candidate(q))}
    /\ UNCHANGED <<tip, now, tokens, calls, samples, log, signings, lost>>

Sign(c, signature) ==
    /\ c.stage = "validated"
    /\ calls' = (calls \ {c}) \cup
          {[c EXCEPT !.record = attach_signed(c.record, signature), !.stage = "signed",
                     !.tip = tip, !.now = now, !.fallen = lost - c.seen]}
    /\ UNCHANGED <<tip, now, tokens, samples, log, released, signings, lost>>

\* A plausible bug: the sample counts the change as well.
RecordSampleWithChange(c) ==
    /\ c.stage = "signed"
    /\ Len(samples) < MaxSamples
    /\ samples' = Append(samples, [tip_height |-> c.tip,
                                   external_sats |-> c.charged + ChangeSats(c.record)])
    /\ calls' = (calls \ {c}) \cup {[c EXCEPT !.stage = "charged"]}
    /\ UNCHANGED <<tip, now, tokens, log, released, signings, lost>>

\* The sample is durable, at the height of Core B's tip when the call was signed.
RecordSample(c) ==
    /\ c.stage = "signed"
    /\ Len(samples) < MaxSamples
    /\ samples' = Append(samples, [tip_height |-> c.tip, external_sats |-> c.charged])
    /\ calls' = (calls \ {c}) \cup {[c EXCEPT !.stage = "charged"]}
    /\ UNCHANGED <<tip, now, tokens, log, released, signings, lost>>

Committed(c) == [c EXCEPT !.stage = "committed"]

\* A plausible bug: a call can be committed, and answered, before it is charged.
CommitUncharged(c) ==
    /\ c.stage \in {"signed", "charged"}
    /\ Accepted(log, c.record)
    /\ require_signed_payload(c.record)
    /\ log' = Append(log, c.record)
    /\ signings' = signings \cup {Committed(c)}
    /\ calls' = (calls \ {c}) \cup {Committed(c)}
    /\ UNCHANGED <<tip, now, tokens, samples, released, lost>>

\* A plausible bug: commit trusts the verdict of evaluate.
CommitUnchecked(c) ==
    /\ c.stage = "charged"
    /\ require_signed_payload(c.record)
    /\ log' = Append(log, c.record)
    /\ signings' = signings \cup {Committed(c)}
    /\ calls' = (calls \ {c}) \cup {Committed(c)}
    /\ UNCHANGED <<tip, now, tokens, samples, released, lost>>

\* commit of a call that no committed one conflicts with.
Commit(c) ==
    /\ c.stage = "charged"
    /\ Accepted(log, c.record)
    /\ require_signed_payload(c.record)
    /\ log' = Append(log, c.record)
    /\ signings' = signings \cup {Committed(c)}
    /\ calls' = (calls \ {c}) \cup {Committed(c)}
    /\ UNCHANGED <<tip, now, tokens, samples, released, lost>>

\* commit of a call that its own twin has overtaken: the twin's answer is given.
CommitIdempotent(c) ==
    /\ c.stage = "charged"
    /\ preflight(log, c.record) = "Idempotent"
    /\ released' = released \cup {Original(log, c.record)}
    /\ calls' = calls \ {c}
    /\ UNCHANGED <<tip, now, tokens, samples, log, signings, lost>>

\* commit of a call that another one has overtaken.
CommitRefused(c) ==
    /\ c.stage = "charged"
    /\ ~Accepted(log, c.record)
    /\ preflight(log, c.record) # "Idempotent"
    /\ calls' = calls \ {c}
    /\ UNCHANGED <<tip, now, tokens, samples, log, released, signings, lost>>

\* A plausible bug: the answer does not wait for the commit.
AnswerBeforeCommit(c) ==
    /\ c.stage = "charged"
    /\ released' = released \cup {c.record}
    /\ calls' = calls
    /\ UNCHANGED <<tip, now, tokens, samples, log, signings, lost>>

AnswerOk(c) ==
    /\ c.stage = "committed"
    /\ released' = released \cup {c.record}
    /\ calls' = calls \ {c}
    /\ UNCHANGED <<tip, now, tokens, samples, log, signings, lost>>

-----------------------------------------------------------------------------
(* The world around the signer. *)

\* The agent dies: calls in flight are gone, and so is a commit that had not
\* reached the disk.
Crash ==
    /\ \E n \in 0..Len(log) : Store!Forget(n)
    /\ calls' = {}
    /\ signings' = {s \in signings : s.record \in RecordsIn(log')}
    /\ UNCHANGED <<tip, now, tokens, samples, lost>>

\* The override holder confirms one large request.
IssueToken(q) ==
    /\ ExternalSats(q.psbt) >= ConfirmThreshold
    /\ tokens' = tokens \cup {ConfirmBinding(q.request_id, q.psbt)}
    /\ UNCHANGED <<tip, now, calls, samples, log, released, signings, lost>>

Block ==
    /\ tip < MaxTip
    /\ tip' = tip + 1
    /\ UNCHANGED <<now, tokens, calls, samples, log, released, signings, lost>>

\* A heavier branch is seen one block short; deeper reorganisations are several steps.
Reorg ==
    /\ tip > 0 /\ lost < MaxLost
    /\ tip' = tip - 1
    /\ lost' = lost + 1
    /\ UNCHANGED <<now, tokens, calls, samples, log, released, signings>>

Tick ==
    /\ now < MaxNow
    /\ now' = now + 1
    /\ UNCHANGED <<tip, tokens, calls, samples, log, released, signings, lost>>

Next ==
    \/ \E q \in Requests, token \in tokens \cup {None} :
           Evaluate(q, token) \/ Retry(q, token)
    \/ \E c \in calls, signature \in Signatures : Sign(c, signature)
    \/ \E c \in calls : RecordSample(c) \/ AnswerOk(c)
    \/ \E c \in calls : Commit(c) \/ CommitIdempotent(c) \/ CommitRefused(c)
    \/ Crash \/ Block \/ Reorg \/ Tick
    \/ \E q \in Requests : IssueToken(q)

Spec == Init /\ [][Next]_vars

-----------------------------------------------------------------------------
(* Properties. *)

\* Type invariant.
TypeOK ==
    /\ tip \in 0..MaxTip /\ now \in 0..MaxNow /\ lost \in 0..MaxLost
    /\ tokens \subseteq {ConfirmBinding(q.request_id, q.psbt) : q \in Requests}
    /\ calls \subseteq
          [record : Record, charged : 0..PerSig, seen : 0..MaxLost,
           stage : {"validated", "signed", "charged", "committed"},
           tip : 0..MaxTip, now : 0..MaxNow, fallen : 0..MaxLost]
    /\ samples \in Seq([tip_height : 0..MaxTip, external_sats : 0..PerSig])
    /\ log \in Seq(Record)
    /\ released \subseteq Record
    /\ signings \subseteq
          [record : Record, charged : 0..PerSig, seen : 0..MaxLost, stage : {"committed"},
           tip : 0..MaxTip, now : 0..MaxNow, fallen : 0..MaxLost]

\* A payment is a set of coins: a bump replaces it and moves nothing more.  It counts
\* where the first record that spends them was signed.
Payments == {r.psbt.inputs : r \in released}
PaymentSats(coins) == ExternalSats((CHOOSE r \in released : r.psbt.inputs = coins).psbt)

Opens(i) == \A j \in 1..(i - 1) : log[j].psbt.inputs # log[i].psbt.inputs

SignedIn(coins, heights) ==
    \E i \in DOMAIN log, s \in signings :
        /\ log[i].psbt.inputs = coins /\ Opens(i)
        /\ s.record = log[i] /\ s.tip \in heights

SentIn(heights) ==
    SumFunction([coins \in {p \in Payments : SignedIn(p, heights)} |-> PaymentSats(coins)])

Window(h) == h..(h + WindowBlocks - 1)

\* What one window may come to while no block is lost: its cap, and one spend for each
\* further call in flight, which nothing charges before it is signed.
Cap == PerWindow + (MaxInFlight - 1) * PerSig

\* Over any WindowBlocks consecutive heights of Core B's tip, what was signed at them
\* and released is at most Cap, wherever the calls interleave, wait between evaluate
\* and signature, the agent crashes or a caller retries.  Each block that the tip ever
\* fell by adds what may have been signed above it, and what was in flight
\* (THREAT_MODEL.md invariant 10, velocity.rs:33-76).
VelocityBound ==
    \A h \in 0..MaxTip : SentIn(Window(h)) <= Cap + lost * (Cap + MaxInFlight * PerSig)

\* The limit as THREAT_MODEL.md:168-169 has it.
VelocityAsDocumented == \A h \in 0..MaxTip : SentIn(Window(h)) <= PerWindow

\* A large spend is only ever released if the override key signed for that very
\* request and transaction, also when it is a bump or a cached answer
\* (THREAT_MODEL.md invariant 11, evaluate.rs:486-509).
LargeReleaseIsConfirmed ==
    \A r \in released :
        ExternalSats(r.psbt) >= ConfirmThreshold =>
            ConfirmBinding(r.request_id, r.psbt) \in tokens

\* Whatever was signed was mature when it was signed, by clock, and by depth but for
\* the blocks that fell between its evaluation and its signature
\* (THREAT_MODEL.md invariants 5 and 6, csv.rs:68-95).
SignedWasMature ==
    \A s \in signings : \A o \in s.record.psbt.inputs :
        LET units == CsvBlocks + SafetyMargin IN
        /\ s.tip + 1 + s.fallen >= Facts[o].confirm_height + units
        /\ s.now >= Facts[o].header_time + units * SecondsPerBlock

\* No coin is released to two payees, whatever was evaluated before what was
\* committed (THREAT_MODEL.md invariant 12).
NoConflictingRelease == \A a, b \in released : Reconcilable(a, b)

\* commit and the answers, each on its own conditions and with calls overtaking each
\* other between them, add up to a store that keeps its promise: nothing is accepted
\* against the rules, and nothing is answered that the log does not hold or that a
\* crash may still take back (replay.rs:342-366, PSBT_AGENT_PROTOCOL.md 6.1 step 7).
UsesStore == Store!PromiseSpec
============================================================================
