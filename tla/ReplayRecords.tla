--------------------------- MODULE ReplayRecords ---------------------------
(***************************************************************************)
(* The records of the agent's replay store and the pure decision made over *)
(* them: tesaurus-policy/src/replay.rs without its file system.            *)
(*                                                                         *)
(* A PSBT is reduced to what the store looks at: the set of outpoints it   *)
(* spends, the sequence of outputs it creates, and a tag `content` for     *)
(* everything else its bytes carry (order of inputs, metadata).  SHA256 is *)
(* taken to be injective, so a hash is represented by what is hashed.      *)
(***************************************************************************)
EXTENDS Integers, Sequences

CONSTANTS
    RequestIds,     \* caller-chosen request identifiers
    Psbts,          \* the unsigned PSBTs a coordinator may present
    OutPoints,      \* coins
    Scripts,        \* output scripts
    VaultScripts,   \* scriptPubKeys of the AgentPins that use the store
    Signatures,     \* non-empty signed payloads
    Unsigned        \* ReplayPayload::Unsigned

TxOut == [script : Scripts, value : Nat]

ASSUME PsbtsAssumption ==
    \A p \in Psbts : /\ p.inputs \subseteq OutPoints
                     /\ p.outputs \in Seq(TxOut)

ASSUME UnsignedAssumption == Unsigned \notin Signatures

(***************************************************************************)
(* replay.rs:78-94.  replay_id, psbt_txid, outpoints, outputs and          *)
(* outputs_commitment are functions of the request id and the PSBT.        *)
(***************************************************************************)
Record == [request_id : RequestIds, psbt : Psbts, vault_script : VaultScripts,
           payload : Signatures \cup {Unsigned}]

\* A plausible bug: the id forgets the hash of the PSBT bytes.
ReplayIdWithoutContent(r) == <<r.request_id, r.psbt.inputs, r.psbt.outputs>>

replay_id(r) == <<r.request_id, r.psbt>>
outputs_commitment(r) == r.psbt.outputs

\* The unsigned candidate evaluate builds from the pin and the request.
from_pin(pin, id, p) ==
    [request_id |-> id, psbt |-> p, vault_script |-> pin, payload |-> Unsigned]

attach_signed(r, signature) == [r EXCEPT !.payload = signature]

require_signed_payload(r) == r.payload # Unsigned

-----------------------------------------------------------------------------
\* A plausible bug: only equal coin sets overlap.
OverlapOfEqualSets(a, b) == a.psbt.inputs # {} /\ a.psbt.inputs = b.psbt.inputs

outpoints_overlap(a, b) == a.psbt.inputs \cap b.psbt.inputs # {}

\* A plausible bug: a bump may add or drop inputs.
IdenticalWhenOverlapping(a, b) == a.psbt.inputs \cap b.psbt.inputs # {}

outpoints_identical(a, b) ==
    /\ a.psbt.inputs # {}
    /\ a.psbt.inputs = b.psbt.inputs

\* Positions of the outputs that leave the vault, and of those that return.
Externals(r) == {i \in DOMAIN r.psbt.outputs : r.psbt.outputs[i].script # r.vault_script}
Changes(r)   == {i \in DOMAIN r.psbt.outputs : r.psbt.outputs[i].script = r.vault_script}

\* classify_outputs answers Some: one external output, at most one change.
Classifiable(r) ==
    /\ Externals(r) # {}
    /\ \A i, j \in Externals(r) : i = j
    /\ \A i, j \in Changes(r) : i = j

External(r) == r.psbt.outputs[CHOOSE i \in Externals(r) : TRUE]

ChangeSats(r) ==
    IF Changes(r) = {} THEN 0 ELSE r.psbt.outputs[CHOOSE i \in Changes(r) : TRUE].value

is_vault_change_only(previous, candidate) ==
    /\ outpoints_identical(previous, candidate)
    /\ previous.vault_script = candidate.vault_script
    /\ Classifiable(previous)
    /\ Classifiable(candidate)
    /\ External(previous).script = External(candidate).script
    /\ External(previous).value = External(candidate).value
    /\ ChangeSats(candidate) < ChangeSats(previous)

-----------------------------------------------------------------------------
\* The records that carry the candidate's request id, and the one find() returns.
SameRequest(records, c) == {i \in DOMAIN records : records[i].request_id = c.request_id}

Original(records, c) ==
    records[CHOOSE i \in SameRequest(records, c) :
                \A j \in SameRequest(records, c) : i <= j]

Overlapping(records, c) == {i \in DOMAIN records : outpoints_overlap(records[i], c)}

\* A plausible bug: other outputs are enough for a bump.
BlocksSameOutputsOnly(previous, c) == outputs_commitment(previous) = outputs_commitment(c)

Blocks(previous, c) ==
    \/ outputs_commitment(previous) = outputs_commitment(c)
    \/ ~is_vault_change_only(previous, c)

\* A request id the store knows: honest retry, or a conflict.
RetryVerdict(original, c) ==
    IF replay_id(original) # replay_id(c) THEN "ReplayConflict"
    ELSE IF original.payload = Unsigned THEN "Internal"
    ELSE "Idempotent"

\* A new request: both errors of the loop over the records carry the code
\* REPLAY, so the order in which it meets them is immaterial.
SpendVerdict(records, c) ==
    IF \E i \in Overlapping(records, c) : Blocks(records[i], c) THEN "Replay"
    ELSE IF Overlapping(records, c) # {} THEN "FeeBump"
    ELSE "Fresh"

preflight(records, c) ==
    IF SameRequest(records, c) # {} THEN RetryVerdict(Original(records, c), c)
    ELSE SpendVerdict(records, c)

Accepted(records, c) == preflight(records, c) \in {"Fresh", "FeeBump"}

-----------------------------------------------------------------------------
(***************************************************************************)
(* What the store is for, said without its own classification of outputs.  *)
(***************************************************************************)

\* r has exactly one output that leaves the vault, and it is o.
PaysOnly(r, o) ==
    \E i \in DOMAIN r.psbt.outputs :
        /\ r.psbt.outputs[i] = o
        /\ o.script # r.vault_script
        /\ \A j \in DOMAIN r.psbt.outputs \ {i} :
               r.psbt.outputs[j].script = r.vault_script

\* Both spend the same coins of the same vault to the same payee.
SamePayment(a, b) ==
    /\ a.vault_script = b.vault_script
    /\ a.psbt.inputs = b.psbt.inputs
    /\ \E i \in DOMAIN a.psbt.outputs :
           PaysOnly(a, a.psbt.outputs[i]) /\ PaysOnly(b, a.psbt.outputs[i])

\* b may stand after a in one store: they share no coin, or b is the same
\* payment with less change, that is with a higher fee.
MayFollow(a, b) ==
    /\ a.request_id # b.request_id
    /\ a.psbt.inputs \cap b.psbt.inputs # {} => /\ SamePayment(a, b)
                                                /\ ChangeSats(b) < ChangeSats(a)

\* A store content in which every record may follow every earlier one.
Consistent(records) ==
    /\ \A i \in DOMAIN records : records[i].payload # Unsigned
    /\ \A i, j \in DOMAIN records : i < j => MayFollow(records[i], records[j])

\* Two signatures that may both be in the hands of the outside world.
Reconcilable(a, b) == a = b \/ MayFollow(a, b) \/ MayFollow(b, a)

\* The records of a store content, as a set.
RecordsIn(records) == {records[i] : i \in DOMAIN records}
============================================================================
