---------------------------- MODULE ReplayStore ----------------------------
(***************************************************************************)
(* ReplayStore of tesaurus-policy/src/replay.rs, one handle on one         *)
(* directory: the records in memory, the directory on disk, and every step *)
(* of init, open, preflight and commit that a fault can separate from the  *)
(* next.                                                                   *)
(*                                                                         *)
(* A file's data is on disk once sync_all has returned, a directory entry  *)
(* once fsync_dir has: until then a power loss may bring back any entry    *)
(* the name had since the last fsync_dir.  recordsMay and versionMay hold  *)
(* those candidates.  Killing the process alone leaves the files as they   *)
(* are.  Any system call of a commit may fail with an I/O error.  Faults   *)
(* says which of the three a behaviour may contain.                        *)
(***************************************************************************)
EXTENDS ReplayRecords

CONSTANTS
    Faults,     \* what may go wrong, a subset of {"power", "kill", "io"}
    Absent,     \* no directory entry of that name
    Torn,       \* a file whose contents do not parse
    NoRecord    \* no commit is in progress

ASSUME FaultsAssumption == Faults \subseteq {"power", "kill", "io"}

ASSUME SentinelAssumption ==
    /\ Absent \notin Seq(Record) /\ Torn \notin Seq(Record) /\ Absent # Torn
    /\ "TESAURUS_REPLAY_V1" \notin {Absent, Torn}
    /\ NoRecord \notin Record

VARIABLES
    stage,      \* where the process is, "down" when it holds no handle
    mem,        \* ReplayStore::records
    pending,    \* the record commit() was called with
    tmp,        \* contents of records.json.tmp
    file,       \* contents of records.json
    recordsMay, \* contents of records.json a power loss may leave
    version,    \* contents of VERSION
    versionMay, \* contents of VERSION a power loss may leave
    released    \* records whose payload a caller was answered Ok with

vars == <<stage, mem, pending, tmp, file, recordsMay, version, versionMay, released>>
disk == <<tmp, file, recordsMay, version, versionMay>>

Persisting == {"truncate", "write", "rename", "sync"}
Stages == {"down", "init", "idle"} \cup Persisting

Contents == Seq(Record) \cup {Absent, Torn}
VersionContents == {Absent, Torn, "TESAURUS_REPLAY_V1"}

\* A plausible bug: a records.json that does not parse is opened all the same.
OpenableWithTag(v, c) == v = "TESAURUS_REPLAY_V1"

\* open() reads VERSION and records.json and refuses anything else.
Openable(v, c) == v = "TESAURUS_REPLAY_V1" /\ c \notin {Absent, Torn}

Init ==
    /\ stage = "down"
    /\ mem = <<>>
    /\ pending = NoRecord
    /\ tmp = Absent
    /\ file = Absent       /\ recordsMay = {Absent}
    /\ version = Absent    /\ versionMay = {Absent}
    /\ released = {}

-----------------------------------------------------------------------------
(* ReplayStore::init: VERSION, then persist_records(dir, &[]), then fsync_dir. *)

\* A plausible bug: an existing VERSION does not stop init.
InitBeginAlways ==
    /\ stage = "down"
    /\ stage' = "init"
    /\ mem' = <<>>
    /\ pending' = NoRecord
    /\ version' = Torn
    /\ versionMay' = versionMay \cup {Torn}
    /\ UNCHANGED <<tmp, file, recordsMay, released>>

\* An existing VERSION file refuses; otherwise it is created, empty so far.
InitBegin ==
    /\ stage = "down"
    /\ version = Absent
    /\ stage' = "init"
    /\ mem' = <<>>
    /\ pending' = NoRecord
    /\ version' = Torn
    /\ versionMay' = versionMay \cup {Torn}
    /\ UNCHANGED <<tmp, file, recordsMay, released>>

\* The tag is written and synced: the data is safe, its directory entry is not.
InitVersion ==
    /\ stage = "init"
    /\ stage' = "truncate"
    /\ version' = "TESAURUS_REPLAY_V1"
    /\ versionMay' = (versionMay \ {Torn}) \cup {"TESAURUS_REPLAY_V1"}
    /\ UNCHANGED <<mem, pending, tmp, file, recordsMay, released>>

Open ==
    /\ stage = "down"
    /\ Openable(version, file)
    /\ stage' = "idle"
    /\ mem' = file
    /\ UNCHANGED <<pending, disk, released>>

-----------------------------------------------------------------------------
(* persist_records and fsync_dir, shared by init and commit. *)

\* A plausible bug: records.json is rewritten in place.
TruncateInPlace ==
    /\ stage = "truncate"
    /\ stage' = "write"
    /\ tmp' = Torn
    /\ file' = Torn
    /\ recordsMay' = recordsMay \cup {Torn}
    /\ UNCHANGED <<mem, pending, version, versionMay, released>>

TruncateTmp ==
    /\ stage = "truncate"
    /\ stage' = "write"
    /\ tmp' = Torn
    /\ UNCHANGED <<mem, pending, file, recordsMay, version, versionMay, released>>

\* A plausible bug: only the new record is written.
WriteTmpNewest ==
    /\ stage = "write"
    /\ stage' = "rename"
    /\ tmp' = IF pending = NoRecord THEN mem ELSE <<pending>>
    /\ UNCHANGED <<mem, pending, file, recordsMay, version, versionMay, released>>

WriteTmp ==
    /\ stage = "write"
    /\ stage' = "rename"
    /\ tmp' = mem
    /\ UNCHANGED <<mem, pending, file, recordsMay, version, versionMay, released>>

RenameTmp ==
    /\ stage = "rename"
    /\ stage' = "sync"
    /\ file' = tmp
    /\ recordsMay' = recordsMay \cup {tmp}
    /\ tmp' = Absent
    /\ UNCHANGED <<mem, pending, version, versionMay, released>>

\* A plausible bug: the directory is not synced after the rename.
NoSyncDir == UNCHANGED disk

SyncDir ==
    /\ recordsMay' = {file}
    /\ versionMay' = {version}
    /\ UNCHANGED <<tmp, file, version>>

\* init ends by opening what it wrote.
FinishInit ==
    /\ stage = "sync"
    /\ pending = NoRecord
    /\ Openable(version, file)
    /\ SyncDir
    /\ stage' = "idle"
    /\ mem' = file
    /\ UNCHANGED <<pending, released>>

\* commit answers Ok: the caller may hand out the payload.
FinishCommit ==
    /\ stage = "sync"
    /\ pending # NoRecord
    /\ SyncDir
    /\ stage' = "idle"
    /\ pending' = NoRecord
    /\ released' = released \cup {pending}
    /\ UNCHANGED mem

-----------------------------------------------------------------------------
(* Calls on an open handle. *)

\* A plausible bug: the caller is answered before the record is persisted.
BeginCommitReleases(r) ==
    /\ stage = "idle"
    /\ Accepted(mem, r)
    /\ require_signed_payload(r)
    /\ stage' = "truncate"
    /\ mem' = Append(mem, r)
    /\ pending' = r
    /\ released' = released \cup {r}
    /\ UNCHANGED disk

\* commit(): a fresh spend or a fee bump enters memory, then the disk.
BeginCommit(r) ==
    /\ stage = "idle"
    /\ Accepted(mem, r)
    /\ require_signed_payload(r)
    /\ stage' = "truncate"
    /\ mem' = Append(mem, r)
    /\ pending' = r
    /\ UNCHANGED <<disk, released>>

\* An honest retry, through evaluate or commit: the cached payload is returned.
Retry(c) ==
    /\ stage = "idle"
    /\ preflight(mem, c) = "Idempotent"
    /\ released' = released \cup {Original(mem, c)}
    /\ UNCHANGED <<stage, mem, pending, disk>>

-----------------------------------------------------------------------------
(* Faults. *)

\* A system call fails: commit returns Err, the handle lives on; a failed init
\* has no handle.  The record stays in memory.
IoError ==
    /\ "io" \in Faults
    /\ stage \in {"init"} \cup Persisting
    /\ stage' = IF pending = NoRecord THEN "down" ELSE "idle"
    /\ pending' = NoRecord
    /\ UNCHANGED <<mem, disk, released>>

Kill ==
    /\ "kill" \in Faults
    /\ stage # "down"
    /\ stage' = "down"
    /\ mem' = <<>>
    /\ pending' = NoRecord
    /\ UNCHANGED <<disk, released>>

PowerLoss ==
    /\ "power" \in Faults
    /\ stage' = "down"
    /\ mem' = <<>>
    /\ pending' = NoRecord
    /\ file' \in recordsMay       /\ recordsMay' = {file'}
    /\ version' \in versionMay    /\ versionMay' = {version'}
    /\ tmp' \in {tmp, Torn, Absent}
    /\ UNCHANGED released

Next ==
    \/ InitBegin \/ InitVersion \/ Open
    \/ TruncateTmp \/ WriteTmp \/ RenameTmp \/ FinishInit \/ FinishCommit
    \/ \E r \in Record : BeginCommit(r)
    \/ \E id \in RequestIds, p \in Psbts, pin \in VaultScripts :
           Retry(from_pin(pin, id, p))
    \/ IoError \/ Kill \/ PowerLoss

Spec == Init /\ [][Next]_vars

\* The system calls of init and commit return, and a caller that has no handle
\* opens the store again.  Nobody is made to call init or commit.
SystemCalls ==
    InitVersion \/ TruncateTmp \/ WriteTmp \/ RenameTmp \/ FinishInit \/ FinishCommit

FairSpec == Spec /\ WF_vars(SystemCalls) /\ WF_vars(Open)

-----------------------------------------------------------------------------
(* Properties. *)

\* Type invariant of the store: records in memory and on disk are records.
TypeOK ==
    /\ stage \in Stages
    /\ mem \in Seq(Record)
    /\ pending \in Record \cup {NoRecord}
    /\ tmp \in Contents
    /\ file \in Contents               /\ recordsMay \in SUBSET Contents
    /\ version \in VersionContents     /\ versionMay \in SUBSET VersionContents
    /\ released \in SUBSET Record

\* Whatever payloads callers were ever answered with, over all retries, faults
\* and restarts, no two of them are in conflict: they spend disjoint coins, or
\* they are the same payment at different fees, or they are the same bytes
\* (replay.rs:7-17; a request id never yields two different signatures).
NoConflictingRelease ==
    \A a, b \in released : Reconcilable(a, b)

\* A released payload is in every file a power loss could leave behind
\* (replay.rs:9 persist before returning Ok): nothing signed is forgotten.
ReleasedIsDurable ==
    released # {} => /\ versionMay = {"TESAURUS_REPLAY_V1"}
                     /\ \A c \in recordsMay : /\ c \notin {Absent, Torn}
                                              /\ released \subseteq RecordsIn(c)

\* The same for a process that dies while the machine stays up: the file a new
\* process opens holds every released payload.
ReleasedIsOnDisk ==
    released # {} => Openable(version, file) /\ released \subseteq RecordsIn(file)

\* Every content the store may come back with passes its own rules: distinct
\* requests, and coins spent again only by a bump of the same payment, with the
\* change strictly falling in the order of the records (replay.rs:415-438).
ContentsConsistent ==
    /\ Consistent(mem)
    /\ \A c \in recordsMay : c \in {Absent, Torn} \/ Consistent(c)

\* The abstract log: what a reader of the store would find.
logView == IF stage # "down" THEN mem
           ELSE IF file \in {Absent, Torn} THEN <<>> ELSE file

Promise == INSTANCE ReplayPromise WITH log <- logView

\* The store keeps the promise of ReplayPromise: releases only what is logged,
\* and loses only a suffix nobody was told about.
KeepsPromise == Promise!PromiseSpec

\* Once a commit was possible, init can never start the store over from empty.
NeverReinitialised ==
    [][InitBegin => released = {} /\ \A c \in recordsMay : c \in {Absent, <<>>}]_vars

\* open would accept whatever a power loss may leave.
Reopenable == \A v \in versionMay, c \in recordsMay : Openable(v, c)

\* From the first open handle on, every step leaves only contents that open
\* accepts: no power loss, in any step of any commit, leaves a missing or broken
\* VERSION or records.json (replay.rs:250-287, 440-456).
StaysOpenable == [][stage = "idle" \/ Reopenable => Reopenable']_vars

\* A store that was once open always comes back, whatever step of a commit its
\* process dies in and however often: no crash leaves a VERSION or a
\* records.json that open refuses (replay.rs:250-287, 440-456).
AlwaysReopens == [](stage = "idle" => []<>(stage = "idle"))

============================================================================
