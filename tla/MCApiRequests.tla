---------------------------- MODULE MCApiRequests ----------------------------
(***************************************************************************)
(* A small instance of ApiRequests for TLC: a client with a limit of one    *)
(* request in two ticks, a fork at height 2, a block that does not parse at *)
(* all and one that only parses as an object.                              *)
(***************************************************************************)
EXTENDS ApiRequests

MCClients == {"n"}
MCType == [c \in MCClients |-> "normal"]
MCTotalRequests == [t \in Types |-> IF t = "normal" THEN 1 ELSE -1]
MCInterval == [t \in Types |-> 2]

MCChains == {<<"one", "two">>, <<"one", "twin">>, <<"one", "twin", "three">>}
MCParsed == [b \in {"one", "two", "twin", "three"} |->
                CASE b = "two" -> {} [] b = "three" -> {"object"} [] OTHER -> {"bytes"}]
=============================================================================
