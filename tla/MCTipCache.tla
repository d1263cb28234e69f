----------------------------- MODULE MCTipCache -----------------------------
(***************************************************************************)
(* Small instances of TipCache for TLC.                                    *)
(***************************************************************************)
EXTENDS TipCache

\* Block 2 replaces block 1, the others extend the chain.
ForkHeights == [b \in Blocks |-> IF b <= 1 THEN b + 1 ELSE b]
=============================================================================
