--------------------------- MODULE MCSubscriptions ---------------------------
(***************************************************************************)
(* A small instance of Subscriptions for TLC: two sockets, two transactions *)
(* that share an address, one block, caches that hold one item each.       *)
(***************************************************************************)
EXTENDS Subscriptions

MCTouches == [t1 |-> {"A"}, t2 |-> {"A"}]
=============================================================================
