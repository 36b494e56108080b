------------------------- MODULE ReplayStoreProofs -------------------------
(***************************************************************************)
(* Theorems about ReplayStore, for every set of requests, coins, PSBTs and *)
(* pins.                                                                   *)
(***************************************************************************)
EXTENDS ReplayStore, ReplayRecordsProofs

-----------------------------------------------------------------------------
(* What holds under every combination of faults. *)

\* The type invariant, with the facts that make it inductive: every content
\* the store may come back with is consistent, the files on disk are among
\* those a power loss may leave, and what rename publishes is what is in memory.
StoreInv ==
    /\ TypeOK
    /\ ContentsConsistent
    /\ file \in recordsMay /\ version \in versionMay
    /\ stage = "rename" => tmp = mem

\* A directory nobody has initialised satisfies the invariant.
LEMMA InitStoreInv == Init => StoreInv
BY EmptyIsConsistent
DEF Init, StoreInv, TypeOK, ContentsConsistent, Stages, Persisting, Contents, VersionContents

\* No step of init, open or commit, no retry and no fault breaks the invariant.
LEMMA NextStoreInv == StoreInv /\ [Next]_vars => StoreInv'
<1> SUFFICES ASSUME StoreInv, [Next]_vars PROVE StoreInv'
    OBVIOUS
<1> USE EmptyIsConsistent
    DEF StoreInv, TypeOK, ContentsConsistent, Stages, Persisting, Contents,
        VersionContents, disk
<1>1. CASE InitBegin
    BY <1>1 DEF InitBegin
<1>2. CASE InitVersion
    BY <1>2 DEF InitVersion
<1>3. CASE Open
    BY <1>3 DEF Open, Openable
<1>4. CASE TruncateTmp
    BY <1>4 DEF TruncateTmp
<1>5. CASE WriteTmp
    BY <1>5 DEF WriteTmp
<1>6. CASE RenameTmp
    BY <1>6 DEF RenameTmp
<1>7. CASE FinishInit
    BY <1>7 DEF FinishInit, SyncDir, Openable
<1>8. CASE FinishCommit
    BY <1>8 DEF FinishCommit, SyncDir
<1>9. ASSUME NEW r \in Record, BeginCommit(r) PROVE StoreInv'
    <2>1. Append(mem, r) \in Seq(Record) /\ Consistent(Append(mem, r))
        BY <1>9, AppendKeepsConsistent DEF BeginCommit
    <2> QED
        BY <1>9, <2>1 DEF BeginCommit
<1>10. ASSUME NEW c, Retry(c) PROVE StoreInv'
    <2>1. Original(mem, c) \in Record
        BY <1>10, OriginalIsStored DEF Retry, RecordsIn
    <2> QED
        BY <1>10, <2>1 DEF Retry
<1>11. CASE IoError
    BY <1>11 DEF IoError
<1>12. CASE Kill
    BY <1>12 DEF Kill
<1>13. CASE PowerLoss
    BY <1>13 DEF PowerLoss
<1>14. CASE UNCHANGED vars
    BY <1>14 DEF vars
<1> QED
    BY <1>1, <1>2, <1>3, <1>4, <1>5, <1>6, <1>7, <1>8, <1>9, <1>10, <1>11,
       <1>12, <1>13, <1>14 DEF Next

\* Hence it holds in every reachable state, under every combination of faults.
LEMMA StoreInvariant == Spec => []StoreInv
BY InitStoreInv, NextStoreInv, PTL DEF Spec

\* Memory and disk hold well-formed records in every reachable state.
THEOREM TypeCorrect == Spec => []TypeOK
<1>1. StoreInv => TypeOK
    BY DEF StoreInv
<1> QED
    BY <1>1, StoreInvariant, PTL

\* Whatever goes wrong, the store never holds, and never comes back with,
\* records that preflight would have refused next to each other.
THEOREM ContentsCorrect == Spec => []ContentsConsistent
<1>1. StoreInv => ContentsConsistent
    BY DEF StoreInv
<1> QED
    BY <1>1, StoreInvariant, PTL

-----------------------------------------------------------------------------
(* What holds when power losses, or kills, are the only faults. *)

\* The contents a fault of the behaviour may leave behind.
Leavable == IF "power" \in Faults THEN recordsMay ELSE {file}
LeavableVersions == IF "power" \in Faults THEN versionMay ELSE {version}

Tag == "TESAURUS_REPLAY_V1"

\* Everything released is in every content that may be left behind, and in
\* memory; a store at rest leaves exactly what is in memory; before the first
\* init has finished nothing is released.
DurableInv ==
    /\ released # {} => /\ LeavableVersions = {Tag}
                        /\ \A c \in Leavable : /\ c \notin {Absent, Torn}
                                                /\ released \subseteq RecordsIn(c)
    /\ stage = "down" => Leavable = {file} /\ LeavableVersions = {version}
    /\ stage = "idle" => /\ pending = NoRecord
                         /\ Leavable = {mem} /\ LeavableVersions = {Tag}
                         /\ file = mem /\ version = Tag
    /\ stage = "sync" => file = mem
    /\ stage # "down" => released \subseteq RecordsIn(mem)
    /\ pending # NoRecord => /\ stage \in Persisting
                             /\ pending \in RecordsIn(mem)
                             /\ LeavableVersions = {Tag} /\ version = Tag
    /\ stage = "init" => pending = NoRecord /\ released = {}
    /\ stage \in Persisting /\ pending = NoRecord => released = {} /\ version = Tag

\* Nothing is released before the first init.
LEMMA InitDurableInv == Init => DurableInv
BY SentinelAssumption
DEF Init, DurableInv, Leavable, LeavableVersions, Persisting, Tag

\* Neither a step of the store nor a fault of the one class makes a released
\* payload leave a content that may be left behind: commit answers only after
\* its rename and fsync_dir (replay.rs:345-368, 440-480).
LEMMA NextDurableInv ==
    ASSUME Faults \subseteq {"power"} \/ Faults \subseteq {"kill"}
    PROVE  StoreInv /\ DurableInv /\ [Next]_vars => DurableInv'
<1> SUFFICES ASSUME StoreInv, DurableInv, [Next]_vars PROVE DurableInv'
    OBVIOUS
<1> USE SentinelAssumption
    DEF StoreInv, TypeOK, Stages, Persisting, Contents, VersionContents,
        DurableInv, Leavable, LeavableVersions, Tag, disk
<1>1. CASE InitBegin
    BY <1>1 DEF InitBegin
<1>2. CASE InitVersion
    BY <1>2 DEF InitVersion
<1>3. CASE Open
    BY <1>3 DEF Open, Openable
<1>4. CASE TruncateTmp
    BY <1>4 DEF TruncateTmp
<1>5. CASE WriteTmp
    BY <1>5 DEF WriteTmp
<1>6. CASE RenameTmp
    BY <1>6 DEF RenameTmp
<1>7. CASE FinishInit
    BY <1>7 DEF FinishInit, SyncDir, Openable
<1>8. CASE FinishCommit
    BY <1>8 DEF FinishCommit, SyncDir
<1>9. ASSUME NEW r \in Record, BeginCommit(r) PROVE DurableInv'
    <2>1. RecordsIn(Append(mem, r)) = RecordsIn(mem) \cup {r}
        BY AppendAddsOne
    <2> QED
        BY <1>9, <2>1 DEF BeginCommit
<1>10. ASSUME NEW c, Retry(c) PROVE DurableInv'
    <2>1. Original(mem, c) \in RecordsIn(mem)
        BY <1>10, OriginalIsStored DEF Retry, ContentsConsistent
    <2> QED
        BY <1>10, <2>1 DEF Retry
<1>11. CASE IoError
    BY <1>11 DEF IoError
<1>12. CASE Kill
    BY <1>12 DEF Kill
<1>13. CASE PowerLoss
    BY <1>13 DEF PowerLoss
<1>14. CASE UNCHANGED vars
    BY <1>14 DEF vars
<1> QED
    BY <1>1, <1>2, <1>3, <1>4, <1>5, <1>6, <1>7, <1>8, <1>9, <1>10, <1>11,
       <1>12, <1>13, <1>14 DEF Next

\* Hence released payloads survive in every reachable state.
LEMMA DurableInvariant ==
    ASSUME Faults \subseteq {"power"} \/ Faults \subseteq {"kill"}
    PROVE  Spec => [](StoreInv /\ DurableInv)
BY InitDurableInv, NextDurableInv, StoreInvariant, PTL DEF Spec

\* When the machine may lose power, and nothing else goes wrong, commit never
\* answers Ok before the record is in every content of records.json that the
\* disk could come back with (replay.rs:9).
THEOREM PowerLossKeepsReleased ==
    ASSUME Faults = {"power"}
    PROVE  Spec => []ReleasedIsDurable
<1>1. StoreInv /\ DurableInv => ReleasedIsDurable
    BY DEF DurableInv, ReleasedIsDurable, Leavable, LeavableVersions, Tag
<1>2. Spec => [](StoreInv /\ DurableInv)
    BY DurableInvariant
<1> QED
    BY <1>1, <1>2, PTL

\* The same for the file a new process opens, when power losses or kills are
\* the only faults.
THEOREM RestartKeepsReleased ==
    ASSUME Faults = {"power"} \/ Faults = {"kill"}
    PROVE  Spec => []ReleasedIsOnDisk
<1>1. StoreInv /\ DurableInv => ReleasedIsOnDisk
    BY DEF StoreInv, DurableInv, ReleasedIsOnDisk, Leavable, LeavableVersions, Tag, Openable,
           TypeOK
<1>2. Faults \subseteq {"power"} \/ Faults \subseteq {"kill"}
    OBVIOUS
<1>3. Spec => [](StoreInv /\ DurableInv)
    BY <1>2, DurableInvariant
<1> QED
    BY <1>1, <1>3, PTL

-----------------------------------------------------------------------------
(* What holds when failing system calls are the only faults. *)

\* Nothing leaves memory, so memory alone refuses every conflict.
MemoryInv ==
    /\ stage \in {"down", "init"} => released = {} /\ pending = NoRecord
    /\ stage # "down" => released \subseteq RecordsIn(mem)
    /\ stage \in Persisting /\ pending = NoRecord => released = {}
    /\ pending # NoRecord => stage \in Persisting /\ pending \in RecordsIn(mem)

\* With failing system calls alone no handle is lost, and everything released is
\* in the memory of the handle (replay.rs:354-361).
LEMMA MemoryInvariant ==
    ASSUME Faults \subseteq {"io"}
    PROVE  Spec => [](StoreInv /\ MemoryInv)
<1>1. Init => MemoryInv
    BY DEF Init, MemoryInv, Persisting
<1>2. StoreInv /\ MemoryInv /\ [Next]_vars => MemoryInv'
    <2> SUFFICES ASSUME StoreInv, MemoryInv, [Next]_vars PROVE MemoryInv'
        OBVIOUS
    <2> USE SentinelAssumption
        DEF StoreInv, TypeOK, Stages, Persisting, Contents, MemoryInv, disk
    <2>1. CASE InitBegin
        BY <2>1 DEF InitBegin
    <2>2. CASE InitVersion
        BY <2>2 DEF InitVersion
    <2>3. CASE Open
        BY <2>3 DEF Open
    <2>4. CASE TruncateTmp
        BY <2>4 DEF TruncateTmp
    <2>5. CASE WriteTmp
        BY <2>5 DEF WriteTmp
    <2>6. CASE RenameTmp
        BY <2>6 DEF RenameTmp
    <2>7. CASE FinishInit
        BY <2>7 DEF FinishInit
    <2>8. CASE FinishCommit
        BY <2>8 DEF FinishCommit
    <2>9. ASSUME NEW r \in Record, BeginCommit(r) PROVE MemoryInv'
        BY <2>9, AppendAddsOne DEF BeginCommit
    <2>10. ASSUME NEW c, Retry(c) PROVE MemoryInv'
        <3>1. Original(mem, c) \in RecordsIn(mem)
            BY <2>10, OriginalIsStored DEF Retry, ContentsConsistent
        <3> QED
            BY <2>10, <3>1 DEF Retry
    <2>11. CASE IoError
        BY <2>11 DEF IoError
    <2>12. CASE Kill \/ PowerLoss
        BY <2>12 DEF Kill, PowerLoss
    <2>13. CASE UNCHANGED vars
        BY <2>13 DEF vars
    <2> QED
        BY <2>1, <2>2, <2>3, <2>4, <2>5, <2>6, <2>7, <2>8, <2>9, <2>10,
           <2>11, <2>12, <2>13 DEF Next
<1> QED
    BY <1>1, <1>2, StoreInvariant, PTL DEF Spec

-----------------------------------------------------------------------------
(* The property the store exists for. *)

\* If one consistent content holds everything released, nothing released is in
\* conflict: retries are answered from the same records that refuse rivals.
LEMMA OneContentHoldsReleased ==
    ASSUME NEW content \in Seq(Record), Consistent(content),
           released \subseteq RecordsIn(content)
    PROVE  NoConflictingRelease
BY ConsistentReconciles DEF NoConflictingRelease

\* When power losses, or kills, are the only faults, the payloads callers were ever
\* answered with are pairwise reconcilable over all retries and restarts: no coin is
\* ever signed away twice to different payees, and no request is answered with two
\* different signatures.
THEOREM CrashesNeverConflict ==
    ASSUME Faults \subseteq {"power"} \/ Faults \subseteq {"kill"}
    PROVE  Spec => []NoConflictingRelease
<1>1. StoreInv /\ DurableInv => NoConflictingRelease
    <2> SUFFICES ASSUME StoreInv, DurableInv, released # {}
                 PROVE  NoConflictingRelease
        BY DEF NoConflictingRelease
    <2>1. file \in Leavable
        BY DEF StoreInv, Leavable
    <2>2. file \notin {Absent, Torn} /\ released \subseteq RecordsIn(file)
        BY <2>1 DEF DurableInv
    <2>3. file \in Seq(Record) /\ Consistent(file)
        BY <2>2 DEF StoreInv, TypeOK, Contents, ContentsConsistent
    <2> QED
        BY <2>2, <2>3, OneContentHoldsReleased
<1>2. Spec => [](StoreInv /\ DurableInv)
    BY DurableInvariant
<1> QED
    BY <1>1, <1>2, PTL

\* When system calls of a commit may fail, the same holds as long as the handle lives:
\* the record of a failed commit stays in memory and refuses every rival.  A restart is
\* left out, and has to be: the next process does not have what memory answered from
\* (replay.rs:346-361).
THEOREM OneHandleNeverConflicts ==
    ASSUME Faults \subseteq {"io"}
    PROVE  Spec => []NoConflictingRelease
<1>1. StoreInv /\ MemoryInv => NoConflictingRelease
    <2> SUFFICES ASSUME StoreInv, MemoryInv, released # {}
                 PROVE  NoConflictingRelease
        BY DEF NoConflictingRelease
    <2>1. released \subseteq RecordsIn(mem)
        BY DEF MemoryInv
    <2> QED
        BY <2>1, OneContentHoldsReleased DEF StoreInv, TypeOK, ContentsConsistent
<1>2. Spec => [](StoreInv /\ MemoryInv)
    BY MemoryInvariant
<1> QED
    BY <1>1, <1>2, PTL

-----------------------------------------------------------------------------
(* The store implements its promise. *)

\* The records of a content, and a content that is the beginning of another.
Held(c) == IF c \in {Absent, Torn} THEN <<>> ELSE c
Begins(records, all) == \E n \in 0..Len(all) : records = SubSeq(all, 1, n)

\* Until init has finished there are no records anywhere.  From then on whatever a
\* power loss or a kill may leave is the beginning of what a reader would find.
LogInv ==
    /\ LeavableVersions # {Tag} => Leavable \subseteq {Absent, <<>>}
    /\ stage \in {"init"} \cup Persisting /\ pending = NoRecord =>
           mem = <<>> /\ Leavable \subseteq {Absent, <<>>}
    /\ \A c \in Leavable : Begins(Held(c), logView)

\* No records at all are a beginning of every log.
LEMMA EmptyBegins == ASSUME NEW all \in Seq(Record) PROVE Begins(<<>>, all)
BY DEF Begins

\* A log is a beginning of itself.
LEMMA AllBegins == ASSUME NEW all \in Seq(Record) PROVE Begins(all, all)
BY DEF Begins

\* What began the log still begins it when a record is added at its end.
LEMMA AppendBegins ==
    ASSUME NEW all \in Seq(Record), NEW r \in Record
    PROVE  Begins(all, Append(all, r))
<1>1. all = SubSeq(Append(all, r), 1, Len(all)) /\ Len(all) \in 0..Len(Append(all, r))
    OBVIOUS
<1> QED
    BY <1>1 DEF Begins

\* Records only ever disappear from the end.
LEMMA LogInvariant ==
    ASSUME Faults \subseteq {"power"} \/ Faults \subseteq {"kill"}
    PROVE  Spec => [](StoreInv /\ DurableInv /\ LogInv)
<1>1. Init => LogInv
    <2> SUFFICES ASSUME Init PROVE LogInv
        OBVIOUS
    <2>1. Leavable = {Absent} /\ stage = "down" /\ logView = <<>>
        BY DEF Init, Leavable, logView
    <2>2. Begins(<<>>, logView) /\ Held(Absent) = <<>>
        BY <2>1, EmptyIsConsistent, EmptyBegins DEF Held
    <2> QED
        BY <2>1, <2>2 DEF LogInv, Persisting
<1>2. StoreInv /\ DurableInv /\ LogInv /\ [Next]_vars => LogInv'
    <2> SUFFICES ASSUME StoreInv, DurableInv, LogInv, [Next]_vars PROVE LogInv'
        OBVIOUS
    <2>0. /\ mem \in Seq(Record) /\ file \in Contents /\ stage \in Stages
          /\ pending \in Record \cup {NoRecord}
          /\ Leavable \subseteq Contents /\ file \in Leavable
        BY DEF StoreInv, TypeOK, Leavable
    <2> USE SentinelAssumption, EmptyIsConsistent DEF Persisting, Stages, Tag
    <2>1. CASE InitBegin
        BY <2>0, <2>1, EmptyBegins
        DEF InitBegin, LogInv, DurableInv, Leavable, LeavableVersions, logView, Held
    <2>2. CASE InitVersion
        BY <2>2 DEF InitVersion, LogInv, Leavable, LeavableVersions, logView
    <2>3. CASE Open
        <3>1. logView' = logView /\ Leavable' = Leavable /\ LeavableVersions' = LeavableVersions
            BY <2>3 DEF Open, Openable, Leavable, LeavableVersions, logView, disk
        <3> QED
            BY <2>3, <3>1 DEF Open, LogInv
    <2>4. CASE TruncateTmp
        BY <2>4 DEF TruncateTmp, LogInv, Leavable, LeavableVersions, logView
    <2>5. CASE WriteTmp
        BY <2>5 DEF WriteTmp, LogInv, Leavable, LeavableVersions, logView
    <2>6. CASE RenameTmp
        <3>1. tmp = mem /\ Held(mem) = mem /\ Begins(mem, mem)
            BY <2>0, <2>6, AllBegins DEF RenameTmp, StoreInv, Held
        <3>2. Leavable' \subseteq Leavable \cup {mem} /\ logView = mem /\ logView' = mem
            BY <2>6, <3>1 DEF RenameTmp, Leavable, logView
        <3>3. LeavableVersions' = LeavableVersions
            BY <2>6 DEF RenameTmp, LeavableVersions
        <3>4. \A c \in Leavable' : Begins(Held(c), mem)
            BY <3>1, <3>2 DEF LogInv
        <3>5. pending = NoRecord => Leavable' \subseteq {Absent, <<>>}
            BY <2>6, <3>2 DEF RenameTmp, LogInv
        <3>6. pending # NoRecord => LeavableVersions = {Tag}
            BY DEF DurableInv
        <3> QED
            BY <2>6, <3>2, <3>3, <3>4, <3>5, <3>6 DEF RenameTmp, LogInv
    <2>7. CASE FinishInit \/ FinishCommit
        <3>1. file = mem /\ version = Tag
            BY <2>7 DEF FinishInit, FinishCommit, DurableInv
        <3>2. Leavable' = {mem} /\ LeavableVersions' = {Tag} /\ logView' = mem
            BY <2>7, <3>1 DEF FinishInit, FinishCommit, SyncDir, Leavable, LeavableVersions,
                              logView
        <3>3. Held(mem) = mem /\ Begins(mem, mem)
            BY <2>0, AllBegins DEF Held
        <3> QED
            BY <2>7, <3>2, <3>3 DEF FinishInit, FinishCommit, LogInv
    <2>8. ASSUME NEW r \in Record, BeginCommit(r) PROVE LogInv'
        <3>1. Leavable' = {mem} /\ LeavableVersions' = {Tag} /\ logView' = Append(mem, r)
            BY <2>8 DEF BeginCommit, DurableInv, Leavable, LeavableVersions, logView, disk
        <3>2. Held(mem) = mem /\ Begins(mem, Append(mem, r))
            BY <2>0, <2>8, AppendBegins DEF Held
        <3> QED
            BY <2>8, <3>1, <3>2 DEF BeginCommit, LogInv
    <2>9. ASSUME NEW c, Retry(c) PROVE LogInv'
        BY <2>9 DEF Retry, LogInv, Leavable, LeavableVersions, logView, disk
    <2>10. CASE IoError
        BY <2>10 DEF IoError
    <2>11. CASE Kill \/ PowerLoss
        <3>1. Leavable' = {file'} /\ file' \in Leavable /\ stage' = "down"
            BY <2>0, <2>11 DEF Kill, PowerLoss, Leavable, disk
        <3>2. LeavableVersions' # {Tag} => LeavableVersions # {Tag}
            BY <2>11 DEF Kill, PowerLoss, LeavableVersions, disk
        <3>3. logView' = Held(file') /\ Held(file') \in Seq(Record)
            BY <2>0, <3>1 DEF logView, Held, Contents
        <3>4. Begins(Held(file'), Held(file'))
            BY <3>3, AllBegins
        <3> QED
            BY <3>1, <3>2, <3>3, <3>4 DEF LogInv
    <2>12. CASE UNCHANGED vars
        BY <2>12 DEF vars, LogInv, Leavable, LeavableVersions, logView
    <2> QED
        BY <2>1, <2>2, <2>3, <2>4, <2>5, <2>6, <2>7, <2>8, <2>9, <2>10, <2>11, <2>12
        DEF Next
<1> QED
    BY <1>1, <1>2, DurableInvariant, PTL DEF Spec

\* With failing system calls alone there is nothing to read until a handle is there.
LEMMA EmptyInvariant ==
    ASSUME Faults \subseteq {"io"}
    PROVE  Spec => [](StoreInv /\ MemoryInv /\ (stage # "idle" /\ pending = NoRecord
                          => mem = <<>> /\ file \in {Absent, <<>>}))
<1> DEFINE EmptyInv == stage # "idle" /\ pending = NoRecord => mem = <<>> /\ file \in {Absent, <<>>}
<1>1. Init => EmptyInv
    BY DEF Init
<1>2. StoreInv /\ MemoryInv /\ EmptyInv /\ [Next]_vars => EmptyInv'
    BY SentinelAssumption
    DEF StoreInv, TypeOK, MemoryInv, Persisting, Stages, disk, vars, Next,
        InitBegin, InitVersion, Open, TruncateTmp, WriteTmp, RenameTmp, FinishInit,
        FinishCommit, SyncDir, BeginCommit, Retry, IoError, Kill, PowerLoss
<1> QED
    BY <1>1, <1>2, MemoryInvariant, PTL DEF Spec

\* The rules of the promise are the rules of the store.
LEMMA PromiseRules ==
    ASSUME NEW records, NEW r
    PROVE  /\ Promise!Accepted(records, r) = Accepted(records, r)
           /\ Promise!require_signed_payload(r) = require_signed_payload(r)
           /\ Promise!RecordsIn(records) = RecordsIn(records)
           /\ Promise!Record = Record
BY DEF Promise!require_signed_payload, require_signed_payload,
       Promise!RecordsIn, RecordsIn, Promise!Record, Record,
       Promise!Accepted, Accepted, Promise!preflight, preflight,
       Promise!SameRequest, SameRequest, Promise!RetryVerdict, RetryVerdict,
       Promise!SpendVerdict, SpendVerdict, Promise!Original, Original,
       Promise!Overlapping, Overlapping, Promise!Blocks, Blocks,
       Promise!outpoints_overlap, outpoints_overlap, Promise!outputs_commitment,
       outputs_commitment, Promise!is_vault_change_only, is_vault_change_only,
       Promise!outpoints_identical, outpoints_identical, Promise!Classifiable, Classifiable,
       Promise!Externals, Externals, Promise!Changes, Changes, Promise!External, External,
       Promise!ChangeSats, ChangeSats, Promise!replay_id, replay_id

\* The steps that answer a caller or add a record, whatever the faults.
LEMMA CallsKeepPromise ==
    ASSUME StoreInv, pending # NoRecord => pending \in RecordsIn(mem)
    PROVE  /\ \A r \in Record : BeginCommit(r) => Promise!PromiseNext
           /\ \A c : Retry(c) => Promise!PromiseNext
           /\ FinishCommit => Promise!PromiseNext
<1>0. mem \in Seq(Record) /\ Consistent(mem)
    BY DEF StoreInv, TypeOK, ContentsConsistent
<1>1. ASSUME NEW r \in Record, BeginCommit(r) PROVE Promise!Accept(r) /\ r \in Promise!Record
    BY <1>1, PromiseRules DEF BeginCommit, Promise!Accept, logView
<1>2. ASSUME NEW r \in RecordsIn(mem), stage # "down", stage' # "down", mem' = mem,
             released' = released \cup {r}
      PROVE  Promise!Release(r) /\ r \in Promise!Record
    BY <1>0, <1>2, PromiseRules DEF Promise!Release, logView, RecordsIn
<1>3. ASSUME NEW c, Retry(c) PROVE Promise!PromiseNext
    <2>1. Original(mem, c) \in RecordsIn(mem)
        BY <1>0, <1>3, OriginalIsStored DEF Retry
    <2> QED
        BY <1>2, <1>3, <2>1 DEF Retry, Promise!PromiseNext
<1>4. ASSUME FinishCommit PROVE Promise!PromiseNext
    BY <1>2, <1>4 DEF FinishCommit, Promise!PromiseNext
<1> QED
    BY <1>1, <1>3, <1>4 DEF Promise!PromiseNext

\* Steps inside init and commit are not visible.
LEMMA InnerSteps ==
    ASSUME InitVersion \/ TruncateTmp \/ WriteTmp \/ RenameTmp \/ UNCHANGED vars
    PROVE  UNCHANGED <<logView, released>>
BY DEF InitVersion, TruncateTmp, WriteTmp, RenameTmp, vars, logView

\* The store with its files, the steps of init, open and commit, and one kind of
\* fault implements the abstract store: it accepts by the rules, releases only
\* what it has accepted, and loses at most records at the end of which nobody was
\* told (replay.rs:226-368, 440-480).  With failing system calls the log is that of
\* the handle, which lives on: nothing is restarted.
THEOREM StoreKeepsPromise ==
    ASSUME NEW fault \in {"power", "kill", "io"}, Faults \subseteq {fault}
    PROVE  Spec => KeepsPromise
<1>1. Init => Promise!PromiseInit
    BY DEF Init, Promise!PromiseInit, logView
<1>2. CASE fault \in {"power", "kill"}
    <2>1. ASSUME StoreInv, DurableInv, LogInv, [Next]_vars
          PROVE  [Promise!PromiseNext]_(Promise!promiseVars)
        <3>1. pending # NoRecord => pending \in RecordsIn(mem)
            BY <2>1 DEF DurableInv
        <3>2. ASSUME InitBegin \/ Open \/ FinishInit
              PROVE  UNCHANGED <<logView, released>>
            <4>1. CASE InitBegin
                <5>1. file \in {Absent, <<>>}
                    BY <2>1, <4>1, SentinelAssumption DEF InitBegin, LogInv, DurableInv, Tag
                <5> QED
                    BY <4>1, <5>1 DEF InitBegin, logView
            <4>2. CASE Open
                BY <4>2 DEF Open, Openable, logView
            <4>3. CASE FinishInit
                BY <2>1, <4>3 DEF FinishInit, DurableInv, logView
            <4> QED
                BY <3>2, <4>1, <4>2, <4>3
        <3>3. ASSUME Kill \/ PowerLoss
              PROVE  Promise!PromiseNext
            <4>1. file' \in Leavable /\ stage' = "down" /\ released' = released
                BY <2>1, <1>2, <3>3 DEF Kill, PowerLoss, Leavable, disk, StoreInv
            <4>2. logView' = Held(file')
                BY <4>1 DEF logView, Held
            <4>3. PICK n \in 0..Len(logView) : Held(file') = SubSeq(logView, 1, n)
                BY <2>1, <4>1 DEF LogInv, Begins
            <4>4. released \subseteq RecordsIn(Held(file'))
                BY <2>1, <4>1 DEF DurableInv, Held
            <4>5. Promise!Forget(n)
                BY <4>1, <4>2, <4>3, <4>4, PromiseRules DEF Promise!Forget
            <4> QED
                BY <4>5 DEF Promise!PromiseNext
        <3>4. CASE IoError
            BY <1>2, <3>4 DEF IoError
        <3> QED
            BY <2>1, <3>1, <3>2, <3>3, <3>4, CallsKeepPromise, InnerSteps
            DEF Next, Promise!promiseVars
    <2>2. Spec => [](StoreInv /\ DurableInv /\ LogInv)
        BY <1>2, LogInvariant
    <2> QED
        BY <1>1, <2>1, <2>2, PTL DEF Spec, KeepsPromise, Promise!PromiseSpec
<1>3. CASE fault = "io"
    <2>1. ASSUME StoreInv, MemoryInv, [Next]_vars,
                 stage # "idle" /\ pending = NoRecord => mem = <<>> /\ file \in {Absent, <<>>}
          PROVE  [Promise!PromiseNext]_(Promise!promiseVars)
        <3>1. pending # NoRecord => pending \in RecordsIn(mem)
            BY <2>1 DEF MemoryInv
        <3>2. ASSUME InitBegin \/ Open \/ FinishInit
              PROVE  UNCHANGED <<logView, released>>
            <4>1. CASE InitBegin
                BY <2>1, <4>1 DEF InitBegin, MemoryInv, logView
            <4>2. CASE Open
                BY <4>2 DEF Open, Openable, logView
            <4>3. CASE FinishInit
                BY <2>1, <4>3 DEF FinishInit, Openable, logView
            <4> QED
                BY <3>2, <4>1, <4>2, <4>3
        <3>3. ASSUME IoError
              PROVE  UNCHANGED <<logView, released>>
            <4>1. stage # "down" /\ stage # "idle"
                BY <3>3 DEF IoError, Persisting
            <4>2. CASE pending = NoRecord
                BY <2>1, <3>3, <4>1, <4>2 DEF IoError, disk, logView
            <4>3. CASE pending # NoRecord
                BY <3>3, <4>1, <4>3 DEF IoError, logView
            <4> QED
                BY <4>2, <4>3
        <3>4. CASE Kill \/ PowerLoss
            BY <1>3, <3>4 DEF Kill, PowerLoss
        <3> QED
            BY <2>1, <3>1, <3>2, <3>3, <3>4, CallsKeepPromise, InnerSteps
            DEF Next, Promise!promiseVars
    <2>2. Spec => [](StoreInv /\ MemoryInv /\ (stage # "idle" /\ pending = NoRecord
                        => mem = <<>> /\ file \in {Absent, <<>>}))
        BY <1>3, EmptyInvariant
    <2> QED
        BY <1>1, <2>1, <2>2, PTL DEF Spec, KeepsPromise, Promise!PromiseSpec
<1> QED
    BY <1>2, <1>3

\* When only power is lost, an init that finds no VERSION finds no records either,
\* in whatever the disk could come back with, and nothing was ever released
\* (replay.rs:228-247).
THEOREM NeverStartsOver ==
    ASSUME Faults = {"power"}
    PROVE  Spec => NeverReinitialised
<1>1. ASSUME StoreInv, DurableInv, LogInv, [Next]_vars
      PROVE  [InitBegin => released = {} /\ \A c \in recordsMay : c \in {Absent, <<>>}]_vars
    <2>1. ASSUME InitBegin
          PROVE  released = {} /\ \A c \in recordsMay : c \in {Absent, <<>>}
        <3>1. LeavableVersions # {Tag}
            BY <1>1, <2>1, SentinelAssumption DEF InitBegin, DurableInv, Tag
        <3> QED
            BY <1>1, <3>1 DEF DurableInv, LogInv, Leavable
    <2> QED
        BY <2>1
<1>2. Spec => [](StoreInv /\ DurableInv /\ LogInv)
    BY LogInvariant
<1> QED
    BY <1>1, <1>2, PTL DEF Spec, NeverReinitialised

\* When only power is lost, a store that was open once never comes back as one
\* that open refuses: records.json is replaced by rename, never written in place,
\* and VERSION is on disk before init answers (replay.rs:243-287, 440-456).
THEOREM NeverBroken ==
    ASSUME Faults = {"power"}
    PROVE  Spec => StaysOpenable
<1>1. ASSUME StoreInv, DurableInv, stage = "idle" PROVE Reopenable
    <2>1. recordsMay = {mem} /\ versionMay = {Tag} /\ mem \in Seq(Record)
        BY <1>1 DEF StoreInv, TypeOK, DurableInv, Leavable, LeavableVersions
    <2> QED
        BY <2>1, SentinelAssumption DEF Reopenable, Openable, Tag
<1>2. ASSUME StoreInv, DurableInv, Reopenable, [Next]_vars PROVE Reopenable'
    <2>1. version = Tag /\ \A v \in versionMay : v = Tag
        BY <1>2 DEF StoreInv, Reopenable, Openable, Tag
    <2>2. versionMay' \subseteq versionMay \cup {Tag}
        BY <1>2, <2>1, SentinelAssumption
        DEF StoreInv, Next, vars, disk, InitBegin, InitVersion, Open, TruncateTmp, WriteTmp,
            RenameTmp, FinishInit, FinishCommit, SyncDir, BeginCommit, Retry, IoError, Kill,
            PowerLoss, Tag
    <2>3. RenameTmp => tmp \notin {Absent, Torn}
        BY <1>2, SentinelAssumption DEF StoreInv, TypeOK, RenameTmp
    <2>4. \A c \in recordsMay' \ recordsMay : c \notin {Absent, Torn}
        BY <1>2, <2>3
        DEF StoreInv, Next, vars, disk, InitBegin, InitVersion, Open, TruncateTmp, WriteTmp,
            RenameTmp, FinishInit, FinishCommit, SyncDir, BeginCommit, Retry, IoError, Kill,
            PowerLoss
    <2>5. \A c \in recordsMay' : c \notin {Absent, Torn}
        BY <1>2, <2>4 DEF StoreInv, Reopenable, Openable
    <2> QED
        BY <2>1, <2>2, <2>5 DEF Reopenable, Openable, Tag
<1>3. ASSUME StoreInv, DurableInv, [Next]_vars
      PROVE  [stage = "idle" \/ Reopenable => Reopenable']_vars
    BY <1>1, <1>2, <1>3
<1>4. Spec => [](StoreInv /\ DurableInv)
    BY DurableInvariant
<1> QED
    BY <1>3, <1>4, PTL DEF Spec, StaysOpenable

-----------------------------------------------------------------------------
(* What the promise alone is worth. *)

\* Everything released is in the log, and the log obeys the rules of the store.
PromiseInv ==
    /\ logView \in Seq(Record)
    /\ Consistent(logView)
    /\ released \subseteq RecordsIn(logView)

\* What is cut off the end of a consistent log leaves a consistent log.
LEMMA PrefixIsConsistent ==
    ASSUME NEW all \in Seq(Record), Consistent(all), NEW n \in 0..Len(all)
    PROVE  SubSeq(all, 1, n) \in Seq(Record) /\ Consistent(SubSeq(all, 1, n))
<1> DEFINE kept == SubSeq(all, 1, n)
<1>1. kept \in Seq(Record) /\ Len(kept) = n
    OBVIOUS
<1>2. \A i \in DOMAIN kept : i \in DOMAIN all /\ kept[i] = all[i]
    OBVIOUS
<1> QED
    BY <1>1, <1>2 DEF Consistent

\* The promise is enough: any store that accepts by the rules, releases what is in
\* its log, and loses only an end of it that nobody was told about, never has two
\* conflicting payloads outside, whatever its files look like.
THEOREM PromiseIsEnough == KeepsPromise => []NoConflictingRelease
<1>1. Promise!PromiseInit => PromiseInv
    BY EmptyIsConsistent DEF Promise!PromiseInit, PromiseInv
<1>2. PromiseInv /\ [Promise!PromiseNext]_(Promise!promiseVars) => PromiseInv'
    <2> SUFFICES ASSUME PromiseInv, [Promise!PromiseNext]_(Promise!promiseVars)
                 PROVE  PromiseInv'
        OBVIOUS
    <2>1. ASSUME NEW r \in Record, Promise!Accept(r) PROVE PromiseInv'
        <3>1. logView' = Append(logView, r) /\ released' = released
            BY <2>1 DEF Promise!Accept
        <3>2. Append(logView, r) \in Seq(Record) /\ Consistent(Append(logView, r))
            BY <2>1, PromiseRules, AppendKeepsConsistent DEF Promise!Accept, PromiseInv
        <3>3. RecordsIn(Append(logView, r)) = RecordsIn(logView) \cup {r}
            BY AppendAddsOne DEF PromiseInv
        <3> QED
            BY <3>1, <3>2, <3>3 DEF PromiseInv
    <2>2. ASSUME NEW r \in Record, Promise!Release(r) PROVE PromiseInv'
        BY <2>2, PromiseRules DEF Promise!Release, PromiseInv
    <2>3. ASSUME NEW n \in 0..Len(logView), Promise!Forget(n) PROVE PromiseInv'
        BY <2>3, PromiseRules, PrefixIsConsistent DEF Promise!Forget, PromiseInv
    <2>4. CASE UNCHANGED Promise!promiseVars
        BY <2>4 DEF Promise!promiseVars, PromiseInv
    <2> QED
        BY <2>1, <2>2, <2>3, <2>4, PromiseRules DEF Promise!PromiseNext
<1>3. PromiseInv => NoConflictingRelease
    BY OneContentHoldsReleased DEF PromiseInv
<1> QED
    BY <1>1, <1>2, <1>3, PTL DEF KeepsPromise, Promise!PromiseSpec
==============================================================================
