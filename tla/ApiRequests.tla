----------------------------- MODULE ApiRequests -----------------------------
(***************************************************************************)
(* The requests of insight-api as setupRoutes (lib/index.js) wires them:    *)
(* each passes the rate limiter before the handlers of its route, and what *)
(* the limiter refuses reaches none of them.  Routes other than those of a *)
(* block only matter to the limiter.                                       *)
(***************************************************************************)
EXTENDS RateLimiter, BlockPages

apiVars == <<limiterVars, pagesVars>>

ApiInit == LimiterInit /\ PagesInit

BlockRequest(c, r, b) == Pass(c) /\ Request(r, b)
OtherRequest(c) == up /\ Pass(c) /\ UNCHANGED pagesVars
RefusedRequest(c) == up /\ Refuse(c) /\ UNCHANGED pagesVars
Timers == Tick \/ \E c \in Clients : Forget(c)

ApiNext ==
    \/ \E c \in Clients :
          \/ OtherRequest(c) \/ RefusedRequest(c)
          \/ \E r \in Slots, b \in Blocks : BlockRequest(c, r, b)
    \/ Timers /\ UNCHANGED pagesVars
    \/ UNCHANGED limiterVars /\ (Outside \/ \E r \in Slots : up /\ (Serve(r) \/ CallFails(r)))

ApiSpec == ApiInit /\ [][ApiNext]_apiVars

\* Calls of bitcoind come back and timers fire; requests and blocks need not come.
FairApiSpec ==
    /\ ApiSpec
    /\ \A r \in Slots : WF_apiVars(up /\ Serve(r) /\ UNCHANGED limiterVars)
    /\ WF_apiVars(Tick /\ UNCHANGED pagesVars)
    /\ \A c \in Clients : WF_apiVars(Forget(c) /\ UNCHANGED pagesVars)
-----------------------------------------------------------------------------
\* Every variable of the limiter and of the pages keeps its type.
ApiTypeOK == LimiterTypeOK /\ PagesTypeOK
=============================================================================
