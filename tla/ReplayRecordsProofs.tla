------------------------- MODULE ReplayRecordsProofs -------------------------
(***************************************************************************)
(* Lemmas about the pure decision of the replay store, for every set of    *)
(* requests, coins, PSBTs and pins.                                        *)
(***************************************************************************)
EXTENDS ReplayRecords, TLAPS

\* A bump the carve-out lets through is the same payment with less change.
LEMMA BumpIsSamePayment ==
    ASSUME NEW a \in Record, NEW b \in Record, is_vault_change_only(a, b)
    PROVE  SamePayment(a, b) /\ ChangeSats(b) < ChangeSats(a)
<1>1. /\ a.psbt.outputs \in Seq(TxOut)
      /\ b.psbt.outputs \in Seq(TxOut)
    BY PsbtsAssumption DEF Record
<1>2. PICK i \in Externals(a) : External(a) = a.psbt.outputs[i]
    BY DEF is_vault_change_only, Classifiable, External
<1>3. PICK k \in Externals(b) : External(b) = b.psbt.outputs[k]
    BY DEF is_vault_change_only, Classifiable, External
<1>4. i \in DOMAIN a.psbt.outputs /\ k \in DOMAIN b.psbt.outputs
    BY DEF Externals
<1>5. a.psbt.outputs[i] \in TxOut /\ b.psbt.outputs[k] \in TxOut
    BY <1>1, <1>4
<1>6. a.psbt.outputs[i] = b.psbt.outputs[k]
    BY <1>2, <1>3, <1>5 DEF is_vault_change_only, TxOut
<1>7. PaysOnly(a, a.psbt.outputs[i])
    BY <1>2, <1>4 DEF PaysOnly, is_vault_change_only, Classifiable, Externals
<1>8. PaysOnly(b, b.psbt.outputs[k])
    BY <1>3, <1>4 DEF PaysOnly, is_vault_change_only, Classifiable, Externals
<1>9. SamePayment(a, b)
    BY <1>4, <1>6, <1>7, <1>8
    DEF SamePayment, is_vault_change_only, outpoints_identical
<1> QED
    BY <1>9 DEF is_vault_change_only

\* Whatever preflight accepts may follow every record it was accepted after.
LEMMA AcceptedMayFollow ==
    ASSUME NEW records \in Seq(Record), NEW r \in Record, Accepted(records, r),
           NEW i \in DOMAIN records
    PROVE  MayFollow(records[i], r)
<1>1. SameRequest(records, r) = {}
    BY DEF Accepted, preflight, RetryVerdict
<1>2. records[i].request_id # r.request_id
    BY <1>1 DEF SameRequest
<1>3. records[i] \in Record
    OBVIOUS
<1>4. ASSUME outpoints_overlap(records[i], r)
      PROVE  is_vault_change_only(records[i], r)
    <2>1. i \in Overlapping(records, r)
        BY <1>4 DEF Overlapping
    <2>2. ~Blocks(records[i], r)
        BY <1>1, <2>1 DEF Accepted, preflight, SpendVerdict
    <2> QED
        BY <2>2 DEF Blocks
<1> QED
    BY <1>2, <1>3, <1>4, BumpIsSamePayment DEF MayFollow, outpoints_overlap

\* Appending an accepted, signed record keeps a store content consistent.
LEMMA AppendKeepsConsistent ==
    ASSUME NEW records \in Seq(Record), NEW r \in Record,
           Consistent(records), Accepted(records, r), require_signed_payload(r)
    PROVE  Consistent(Append(records, r))
<1> DEFINE grown == Append(records, r)
<1>1. \A i \in DOMAIN records : grown[i] = records[i]
    OBVIOUS
<1>2. DOMAIN grown = DOMAIN records \cup {Len(records) + 1}
    OBVIOUS
<1>3. grown[Len(records) + 1] = r
    OBVIOUS
<1>4. \A i \in DOMAIN grown : grown[i].payload # Unsigned
    BY <1>1, <1>2, <1>3 DEF Consistent, require_signed_payload
<1>5. ASSUME NEW i \in DOMAIN grown, NEW j \in DOMAIN grown, i < j
      PROVE  MayFollow(grown[i], grown[j])
    <2>1. i \in DOMAIN records
        BY <1>2, <1>5
    <2>2. CASE j \in DOMAIN records
        BY <1>1, <1>5, <2>1, <2>2 DEF Consistent
    <2>3. CASE j = Len(records) + 1
        BY <1>1, <1>3, <2>1, <2>3, AcceptedMayFollow
    <2> QED
        BY <1>2, <2>2, <2>3
<1> QED
    BY <1>4, <1>5 DEF Consistent

\* Two records of one consistent content are never in conflict.
LEMMA ConsistentReconciles ==
    ASSUME NEW records \in Seq(Record), Consistent(records),
           NEW a \in RecordsIn(records), NEW b \in RecordsIn(records)
    PROVE  Reconcilable(a, b)
<1>1. PICK i \in DOMAIN records : a = records[i]
    BY DEF RecordsIn
<1>2. PICK j \in DOMAIN records : b = records[j]
    BY DEF RecordsIn
<1>3. i < j \/ i = j \/ j < i
    OBVIOUS
<1> QED
    BY <1>1, <1>2, <1>3 DEF Consistent, Reconcilable

\* What appending does to a content seen as a set.
LEMMA AppendAddsOne ==
    ASSUME NEW records \in Seq(Record), NEW r \in Record
    PROVE  RecordsIn(Append(records, r)) = RecordsIn(records) \cup {r}
<1> DEFINE grown == Append(records, r)
<1>1. DOMAIN grown = DOMAIN records \cup {Len(records) + 1}
    OBVIOUS
<1>2. \A i \in DOMAIN records : grown[i] = records[i]
    OBVIOUS
<1>3. grown[Len(records) + 1] = r
    OBVIOUS
<1> HIDE DEF grown
<1>4. RecordsIn(grown) = RecordsIn(records) \cup {r}
    BY <1>1, <1>2, <1>3 DEF RecordsIn
<1> QED
    BY <1>4 DEF grown

\* A retry is answered with a record of the store.
LEMMA OriginalIsStored ==
    ASSUME NEW records \in Seq(Record), Consistent(records), NEW c,
           preflight(records, c) = "Idempotent"
    PROVE  Original(records, c) \in RecordsIn(records)
<1>1. SameRequest(records, c) # {}
    BY DEF preflight, SpendVerdict
<1>2. PICK k \in SameRequest(records, c) : TRUE
    BY <1>1
<1>3. \A j \in SameRequest(records, c) : j = k
    BY <1>2 DEF SameRequest, Consistent, MayFollow
<1>4. k \in DOMAIN records /\ k <= k
    BY <1>2 DEF SameRequest
<1>5. Original(records, c) = records[k]
    BY <1>2, <1>3, <1>4 DEF Original
<1> QED
    BY <1>4, <1>5 DEF RecordsIn

\* A store that holds nothing is consistent (what init writes, replay.rs:228-247).
LEMMA EmptyIsConsistent == <<>> \in Seq(Record) /\ Consistent(<<>>)
BY DEF Consistent
==============================================================================
