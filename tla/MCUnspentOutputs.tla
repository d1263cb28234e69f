-------------------------- MODULE MCUnspentOutputs --------------------------
(***************************************************************************)
(* A small instance of UnspentOutputs for TLC: a payment to the address is *)
(* spent by a transaction with two outputs to it, one of which is spent.   *)
(***************************************************************************)
EXTENDS UnspentOutputs

MCOutputs == {"a", "b", "c"}
MCMaker == [o \in MCOutputs |-> IF o = "a" THEN "t0" ELSE "t1"]
MCSpender == [o \in MCOutputs |-> CASE o = "a" -> "t1" [] o = "b" -> "t2" [] OTHER -> "none"]
=============================================================================
