----------------------------- MODULE Rejections -----------------------------
(***************************************************************************)
(* How tesaurus-policy's checks are put together: each answers a reject    *)
(* code or Ok, and the first code in code order is the answer.             *)
(***************************************************************************)
EXTENDS Integers, Sequences

Ok == "ok"

\* The `?` of the code: go on to b only when a found nothing to reject.
a ?? b == IF a = Ok THEN b ELSE a

Reject(condition, code) == IF condition THEN code ELSE Ok

\* A loop over s that returns at the first element with something to reject.
FirstReject(s, Check(_)) ==
    LET bad == {i \in DOMAIN s : Check(s[i]) # Ok}
    IN  IF bad = {} THEN Ok ELSE Check(s[CHOOSE i \in bad : \A j \in bad : i <= j])
=============================================================================
