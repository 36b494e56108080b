--------------------------- MODULE MCAgentPolicy ---------------------------
(***************************************************************************)
(* AgentPolicy on a vault with three coins, of which one becomes mature    *)
(* later: two ordinary payments, a bump of the first, its diversion to a   *)
(* rival, and a payment at the confirmation threshold with its bump.       *)
(***************************************************************************)
EXTENDS AgentPolicy

CONSTANTS c1, c2, c3, payee, rival, vault, Menu

MCOutPoints == {c1, c2, c3}
MCScripts == {payee, rival, vault}
MCVaultScripts == {vault}

Out(s, v) == [script |-> s, value |-> v]

In(o) ==
    [outpoint |-> o, witness_utxo |-> Out(vault, 6), prev_tx |-> None,
     witness_script |-> PinWitness, redeem_script |-> FALSE,
     sighash |-> "all", sigs_all |-> TRUE, sigs |-> {Primary}, bip32 |-> {},
     finalized |-> FALSE, sequence |-> CsvBlocks]

Pay(o, outs) ==
    [inputs |-> {o}, outputs |-> outs,
     content |-> [parses |-> TRUE, unknown |-> FALSE, locktime |-> 0, version |-> 2,
                  ins |-> <<In(o)>>]]

Request(id, p, claimed) ==
    [request_id |-> id, psbt |-> p, claimed_external_sats |-> claimed]

MCRequests ==
    {q \in {Request("pay",   Pay(c1, <<Out(payee, 3), Out(vault, 2)>>), 3),
            Request("bump",  Pay(c1, <<Out(payee, 3), Out(vault, 1)>>), 3),
            Request("rival", Pay(c1, <<Out(rival, 3), Out(vault, 2)>>), 3),
            Request("large", Pay(c2, <<Out(payee, 4), Out(vault, 1)>>), 4),
            Request("largeBump", Pay(c2, <<Out(payee, 4)>>), 4),
            Request("late",  Pay(c3, <<Out(payee, 3), Out(vault, 2)>>), 3)} :
        q.request_id \in Menu}

MCPsbts == {q.psbt : q \in MCRequests}
MCRequestIds == {q.request_id : q \in MCRequests}

Fact(height, time) ==
    [txout |-> Out(vault, 6), confirm_height |-> height, header_time |-> time,
     visible_unspent |-> TRUE]

MCFacts == c1 :> Fact(0, 0) @@ c2 :> Fact(0, 0) @@ c3 :> Fact(1, 0)
============================================================================
