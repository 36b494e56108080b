--------------------------- MODULE ReplayPromise ---------------------------
(***************************************************************************)
(* What the replay store promises its caller, without files: a log of      *)
(* accepted spends of which a fault may forget a suffix that nobody was    *)
(* told about, and the set of spends that were released.                   *)
(***************************************************************************)
EXTENDS ReplayRecords

VARIABLES log, released

promiseVars == <<log, released>>

PromiseInit ==
    /\ log = <<>>
    /\ released = {}

\* A signed spend that the rules allow after everything in the log.
Accept(r) ==
    /\ Accepted(log, r)
    /\ require_signed_payload(r)
    /\ log' = Append(log, r)
    /\ UNCHANGED released

\* Only a spend in the log is ever handed out.
Release(r) ==
    /\ r \in RecordsIn(log)
    /\ released' = released \cup {r}
    /\ UNCHANGED log

\* A fault loses the end of the log, never anything released.
Forget(n) ==
    /\ released \subseteq RecordsIn(SubSeq(log, 1, n))
    /\ log' = SubSeq(log, 1, n)
    /\ UNCHANGED released

PromiseNext ==
    \/ \E r \in Record : Accept(r) \/ Release(r)
    \/ \E n \in 0..Len(log) : Forget(n)

PromiseSpec == PromiseInit /\ [][PromiseNext]_promiseVars
============================================================================
