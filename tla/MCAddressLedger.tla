--------------------------- MODULE MCAddressLedger ---------------------------
(***************************************************************************)
(* Small instances of AddressLedger for TLC.                               *)
(***************************************************************************)
EXTENDS AddressLedger, FiniteSetsExt

In(t, ref, n, a, v) == [side |-> "in", tx |-> t, ref |-> ref, n |-> n,
                        addr |-> a, value |-> v, unlock |-> 0]
Out(t, n, a, v) == [side |-> "out", tx |-> t, ref |-> t, n |-> n,
                    addr |-> a, value |-> v, unlock |-> 0]
OutLocked(t, n, a, v, u) == [Out(t, n, a, v) EXCEPT !.unlock = u]

MCNoDoc == [side |-> "none"]
MCNoAddr == "noAddr"
MCAddrs == {"A", "B"}

-----------------------------------------------------------------------------
(* A chain that only grows: a coinbase to A with an unspendable output, then *)
(* a payment from A to B with change, part of it locked until height 3.    *)

GrowTxIds == {"t1", "t2", "t3"}
GrowPlan ==
    [t1 |-> << Out("t1", 0, "A", 5), Out("t1", 1, MCNoAddr, 1) >>,
     t2 |-> << In("t2", "t1", 0, "A", 5),
               OutLocked("t2", 0, "B", 3, 3), Out("t2", 1, "A", 2) >>,
     t3 |-> << In("t3", "t2", 1, "A", 2), Out("t3", 0, "A", 2) >>]
GrowBlocks == {"b1", "b2"}
GrowBlockTxs == [b1 |-> <<"t1">>, b2 |-> <<"t2", "t3">>]
GrowHeightOf == [b1 |-> 1, b2 |-> 2]
GrowInit == <<"b1">>
GrowChains == {<<"b1">>, <<"b1", "b2">>}
GrowRaw == {"t3"}

-----------------------------------------------------------------------------
(* A chain that is reorganised at its second and third block; a transaction *)
(* that survives keeps its height.                                          *)

ForkTxIds == {"t1", "t2", "t3", "t4", "t5"}
ForkPlan ==
    [t1 |-> << Out("t1", 0, "A", 5), Out("t1", 1, MCNoAddr, 1) >>,
     t2 |-> << In("t2", "t1", 0, "A", 5), OutLocked("t2", 0, "B", 5, 3) >>,
     t3 |-> << Out("t3", 0, "A", 2) >>,
     t4 |-> << Out("t4", 0, "B", 2) >>,
     t5 |-> << Out("t5", 0, "A", 1) >>]
ForkBlocks == {"b1", "b2", "c2", "c3"}
ForkBlockTxs == [b1 |-> <<"t1">>, b2 |-> <<"t3", "t2">>, c2 |-> <<"t4", "t2">>, c3 |-> <<"t5">>]
ForkHeightOf == [b1 |-> 1, b2 |-> 2, c2 |-> 2, c3 |-> 3]
ForkInit == <<"b1">>
ForkChains == {<<"b1">>, <<"b1", "b2">>, <<"b1", "c2">>, <<"b1", "c2", "c3">>}

-----------------------------------------------------------------------------
(* A fork with a double spend: t2 and t4 spend the same output.             *)

SpendTxIds == {"t1", "t2", "t3", "t4"}
SpendPlan ==
    [t1 |-> << Out("t1", 0, "A", 5) >>,
     t2 |-> << In("t2", "t1", 0, "A", 5), OutLocked("t2", 0, "B", 5, 3) >>,
     t3 |-> << Out("t3", 0, "B", 2) >>,
     t4 |-> << In("t4", "t1", 0, "A", 5) >>]
SpendBlockTxs == [b1 |-> <<"t1">>, b2 |-> <<"t2">>, c2 |-> <<"t3">>, c3 |-> <<"t4">>]
SpendRaw == {"t3"}

=============================================================================
