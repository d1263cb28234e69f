----------------------------- MODULE RateLimiter -----------------------------
(***************************************************************************)
(* The rate limiter every request of insight-api passes first              *)
(* (insight-api/lib/ratelimiter.js).  A client has an entry with a count   *)
(* of visits from its first request until a timer removes it; while the    *)
(* count exceeds the limit of its type, requests are answered with 429.    *)
(* A timer is never early and may be late.                                 *)
(***************************************************************************)
EXTENDS Integers

CONSTANTS
    Clients,          \* names: a header or the remote address
    Type,             \* getClientType: "whitelist", "blacklist" or "normal"
    TotalRequests,    \* of each type; -1 for no limit
    Interval,         \* of each type, in ticks
    MaxVisits         \* bound: the visits of a client without limit

Types == {"whitelist", "blacklist", "normal"}

ASSUME LimiterAssumption ==
    /\ Type \in [Clients -> Types]
    /\ TotalRequests \in [Types -> Nat \union {-1}]
    /\ Interval \in [Types -> Nat \ {0}]
    /\ MaxVisits \in Nat

Limit(c) == TotalRequests[Type[c]]
Window(c) == Interval[Type[c]]
Limited(c) == Limit(c) # -1

\* The last requests of a client that were let through, the latest first
Positions(c) == 1..(2 * Limit(c) + 1)

VARIABLES
    visits,   \* clients[name].visits, 0 without an entry
    left,     \* until the timer of the entry is due
    ages      \* history: how long ago the last requests passed, at most Window(c)

limiterVars == <<visits, left, ages>>

LimiterInit ==
    /\ visits = [c \in Clients |-> 0]
    /\ left = [c \in Clients |-> 0]
    /\ ages = [c \in Clients |-> [k \in Positions(c) |-> Window(c)]]

-----------------------------------------------------------------------------
\* mutant: the first request does not count
VisitsFromZero(c) == visits[c]

\* addClient for a client without entry
VisitsOf(c) == IF visits[c] = 0 THEN 1 ELSE visits[c]

\* mutant: compared before the visit is counted
ExceededLate(c) == Limited(c) /\ VisitsOf(c) > Limit(c) + 1
Exceeded(c) == Limited(c) /\ VisitsOf(c) > Limit(c)

\* mutant: every request starts the window anew
Rearmed(c) == [left EXCEPT ![c] = Window(c)]
Armed(c) == [left EXCEPT ![c] = IF visits[c] = 0 THEN Window(c) ELSE @]

Latest(c) == [k \in Positions(c) |-> IF k = 1 THEN 0 ELSE ages[c][k - 1]]

\* next()
Pass(c) ==
    /\ ~ Exceeded(c)
    /\ Limited(c) \/ visits[c] < MaxVisits
    /\ visits' = [visits EXCEPT ![c] = VisitsOf(c) + 1]
    /\ left' = Armed(c)
    /\ ages' = [ages EXCEPT ![c] = Latest(c)]

\* status 429
Refuse(c) ==
    /\ Exceeded(c)
    /\ visits' = [visits EXCEPT ![c] = VisitsOf(c)]
    /\ left' = Armed(c)
    /\ UNCHANGED ages

\* The timer: delete clients[name]
Forget(c) ==
    /\ visits[c] > 0 /\ left[c] = 0
    /\ visits' = [visits EXCEPT ![c] = 0]
    /\ UNCHANGED <<left, ages>>

Tick ==
    /\ left' = [c \in Clients |-> IF left[c] > 0 THEN left[c] - 1 ELSE 0]
    /\ ages' = [c \in Clients |-> [k \in Positions(c) |->
                  IF ages[c][k] < Window(c) THEN ages[c][k] + 1 ELSE Window(c)]]
    /\ UNCHANGED visits

LimiterNext == Tick \/ \E c \in Clients : Pass(c) \/ Refuse(c) \/ Forget(c)

LimiterSpec == LimiterInit /\ [][LimiterNext]_limiterVars

-----------------------------------------------------------------------------
\* Every variable keeps its type: a client has an entry while its timer runs, and
\* never passes its limit by more than the visit that is refused.
LimiterTypeOK ==
    /\ visits \in [Clients -> Nat]
    /\ \A c \in Clients : Limited(c) => visits[c] <= Limit(c) + 1
    /\ left \in [Clients -> Nat]
    /\ \A c \in Clients : left[c] <= Window(c) /\ (visits[c] = 0 => left[c] = 0)
    /\ ages = [c \in Clients |-> ages[c]]
    /\ \A c \in Clients : ages[c] \in [Positions(c) -> 0..Window(c)]

\* In no time span as long as the interval, wherever it begins, are more than
\* twice the limit let through: of that many and one more, the first is an
\* interval before the last.
SlidingQuota ==
    \A c \in Clients : Limited(c) => ages[c][2 * Limit(c) + 1] = Window(c)

\* A client that is refused is let in again, however it goes on asking.
RefusedForAWhile ==
    \A c \in Clients : (visits[c] > 0 /\ Exceeded(c)) ~> visits[c] = 0
=============================================================================
