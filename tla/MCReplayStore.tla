--------------------------- MODULE MCReplayStore ---------------------------
(* ReplayStore on a small vault: two coins, one payee and one rival payee.  *)
EXTENDS ReplayStore

CONSTANTS c1, c2, vault, payee, rival, r1, r2, r3, s1, s2, PsbtMenu

MCOutPoints == {c1, c2}
MCScripts == {vault, payee, rival}
MCVaultScripts == {vault}

Out(s, v) == [script |-> s, value |-> v]
Psbt(ins, outs, tag) == [inputs |-> ins, outputs |-> outs, content |-> tag]

Pay        == Psbt({c1}, <<Out(payee, 5), Out(vault, 3)>>, "")
SameTx     == Psbt({c1}, <<Out(payee, 5), Out(vault, 3)>>, "metadata")
Bump       == Psbt({c1}, <<Out(payee, 5), Out(vault, 2)>>, "")
NoChange   == Psbt({c1}, <<Out(payee, 5)>>, "")
Rival      == Psbt({c1}, <<Out(rival, 5), Out(vault, 2)>>, "")
Superset   == Psbt({c1, c2}, <<Out(payee, 5), Out(vault, 2)>>, "")
OtherCoin  == Psbt({c2}, <<Out(payee, 5), Out(vault, 3)>>, "")
TwoPayees  == Psbt({c1}, <<Out(payee, 5), Out(rival, 1), Out(vault, 1)>>, "")

MCPsbts ==
    CASE PsbtMenu = "rules" -> {Pay, SameTx, Bump, NoChange, Rival, Superset, OtherCoin, TwoPayees}
      [] PsbtMenu = "few"   -> {Pay, Bump, Rival, OtherCoin}
============================================================================
