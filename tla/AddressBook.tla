----------------------------- MODULE AddressBook -----------------------------
(***************************************************************************)
(* What the address ledger promises, without the two writes of a posting,   *)
(* the cursor, the timer and the blocks: a posting is entered or taken back *)
(* in one step, and its value joins or leaves the sum of its address in     *)
(* that same step.                                                         *)
(*                                                                         *)
(* A cut (the process dies) can strike out at most one posting and leave    *)
(* its value in the sum; a value left behind that way is taken up again     *)
(* when its posting is the next to be entered, or stays.                    *)
(***************************************************************************)
EXTENDS Integers

CONSTANTS
    Postings,  \* the inputs and outputs an address may be charged with
    MaxCuts    \* how often the process may die

VARIABLES
    posted,    \* the postings in force
    sum,       \* sum[p]: how often the value of p is in the sum of its address
    cuts       \* how often the process died

bookVars == <<posted, sum, cuts>>

BookInit == posted = {} /\ sum = [p \in Postings |-> 0] /\ cuts = 0

\* The value joins the sum, unless a cut left it there.
Enter(p) ==
    /\ p \notin posted
    /\ posted' = posted \union {p}
    /\ \/ sum' = [sum EXCEPT ![p] = @ + 1]
       \/ sum[p] >= 1 /\ UNCHANGED sum
    /\ UNCHANGED cuts

\* The value leaves the sum.
TakeBack(p) ==
    /\ p \in posted
    /\ posted' = posted \ {p}
    /\ sum' = [sum EXCEPT ![p] = @ - 1]
    /\ UNCHANGED cuts

\* One posting at most is struck out, its value left in the sum.
Cut ==
    /\ cuts < MaxCuts
    /\ cuts' = cuts + 1
    /\ \/ UNCHANGED posted
       \/ \E p \in posted : posted' = posted \ {p}
    /\ UNCHANGED sum

BookNext == (\E p \in Postings : Enter(p) \/ TakeBack(p)) \/ Cut

BookSpec == BookInit /\ [][BookNext]_bookVars
=============================================================================
