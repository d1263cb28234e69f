------------------------------ MODULE TipCache ------------------------------
(***************************************************************************)
(* What the bitcoind service of bitcore-node (lib/services/bitcoind.js)     *)
(* believes about the chain tip, and the caches it drops when the tip       *)
(* changes.                                                                *)
(*                                                                         *)
(* At the start the service polls bitcoind until it is synced and then      *)
(* subscribes to its block notifications.  A notification within a second   *)
(* of the last tip update is delayed by a timer.  A new tip empties the     *)
(* caches that are "valid until there is a new block" and asks for the      *)
(* height of the block.  Meanwhile clients ask for balances, outputs,       *)
(* transactions and blocks; an answer is cached when it arrives.            *)
(*                                                                         *)
(* The blocks are numbered in the order in which bitcoind makes them its    *)
(* best block, so that block messages heard+1..best are on their way.       *)
(***************************************************************************)
EXTENDS Integers, Sequences, FiniteSets

CONSTANTS
    Last,       \* the number of the last block
    HeightOf,   \* the height of a block, equal heights after a reorganisation
    Second,     \* clock ticks per 1000 ms
    Keys,       \* what clients ask for: the keys of the block valid caches
    MaxAsked,   \* bounds: queries in flight, and RPCs that fail
    MaxFaults

Blocks == 0..Last
None == -1

ASSUME TipAssumption ==
    /\ Last \in Nat
    /\ HeightOf \in [Blocks -> Nat]
    /\ Second \in Nat \ {0}
    /\ MaxAsked \in Nat /\ MaxFaults \in Nat

NoTimer == [block |-> None, left |-> 0]

\* A query in flight: the block its answer was computed at, and whether the tip
\* changed since it was sent.  The same of a cached answer.
Query == [key: Keys, at: Blocks \union {None}, crossed: BOOLEAN]
NoAnswer == [at |-> None, crossed |-> FALSE]

VARIABLES
    best,        \* the best block of bitcoind
    faults,
    stage,       \* of _checkSyncedAndSubscribeZmqEvents
    heardFrom,   \* the best block when the subscription began
    heard,       \* the block of the last notification handled
    tip,         \* tiphash
    height,
    heightAsks,  \* getBlock requests for the height of a tip, oldest first
    newest,      \* history: what became of the last of these requests
    age,         \* ticks since lastTip
    timer,       \* lastTipTimeout
    crossing,    \* history: the last block to update at once beside a pending timer
    cache, asked

chainVars == <<best, faults>>
zmqVars   == <<stage, heardFrom, heard>>
tipVars   == <<tip, height, heightAsks, newest>>
clockVars == <<age, timer, crossing>>
queryVars == <<cache, asked>>
vars      == <<chainVars, zmqVars, tipVars, clockVars, queryVars>>

\* After _loadTipFromNode: the height is known, the hash of the tip is not.
Init ==
    /\ best = 0 /\ faults = 0
    /\ stage = "poll" /\ heardFrom = 0 /\ heard = 0
    /\ tip = None /\ height = HeightOf[0] /\ heightAsks = <<>> /\ newest = "none"
    /\ age = Second + 1 /\ timer = NoTimer /\ crossing = None
    /\ cache = [k \in Keys |-> NoAnswer] /\ asked = {}

Mine ==
    /\ best < Last
    /\ best' = best + 1
    /\ UNCHANGED <<faults, zmqVars, tipVars, clockVars, queryVars>>

-----------------------------------------------------------------------------
(* The tip.                                                                *)

CachesKept == cache  \* mutant: the caches survive the tip
CachesReset == [k \in Keys |-> NoAnswer]

HeightOfOldTip(b) == Append(heightAsks, IF tip = None THEN b ELSE tip)  \* mutant: asks for the tip it replaces
HeightAsked(b) == Append(heightAsks, b)

\* _updateTip
UpdateTip(b) ==
    IF b = tip
    THEN UNCHANGED <<tip, heightAsks, newest, queryVars>>
    ELSE /\ tip' = b
         /\ cache' = CachesReset
         /\ heightAsks' = HeightAsked(b) /\ newest' = "asked"
         /\ asked' = {[q EXCEPT !.crossed = TRUE] : q \in asked}

IsNewest(i) == i = Len(heightAsks) /\ newest = "asked"

Without(i) == SubSeq(heightAsks, 1, i - 1) \o SubSeq(heightAsks, i + 1, Len(heightAsks))

\* The answers may come in any order.
HeightAnswer ==
    /\ \E i \in 1..Len(heightAsks) :
          /\ height' = HeightOf[heightAsks[i]]
          /\ heightAsks' = Without(i)
          /\ newest' = IF IsNewest(i) THEN "answered"
                       ELSE IF newest = "answered" THEN "overtaken" ELSE newest
    /\ UNCHANGED <<chainVars, zmqVars, tip, clockVars, queryVars>>

\* The error is emitted and logged, the height stays.
HeightFails ==
    /\ faults < MaxFaults /\ faults' = faults + 1
    /\ \E i \in 1..Len(heightAsks) :
          /\ heightAsks' = Without(i)
          /\ newest' = IF IsNewest(i) THEN "lost" ELSE newest
    /\ UNCHANGED <<best, zmqVars, tip, height, clockVars, queryVars>>

-----------------------------------------------------------------------------
(* _checkSyncedAndSubscribeZmqEvents, for a process the service spawned.    *)

Poll ==
    /\ stage = "poll"
    /\ UpdateTip(best)
    /\ stage' = "check"
    /\ UNCHANGED <<chainVars, heardFrom, heard, height, clockVars>>

\* Not synced yet, or the RPC failed: again at the next interval.
PollAgain ==
    /\ stage = "check"
    /\ stage' = "poll"
    /\ UNCHANGED <<chainVars, heardFrom, heard, tipVars, clockVars, queryVars>>

\* Blocks that became the best one since the poll are never heard of.
Subscribe ==
    /\ stage = "check"
    /\ stage' = "live" /\ heard' = best /\ heardFrom' = best
    /\ UNCHANGED <<chainVars, tipVars, clockVars, queryVars>>

-----------------------------------------------------------------------------
(* _zmqBlockHandler and _rapidProtectedUpdateTip.                           *)

Rapid == age <= Second

Dropped(b) == timer  \* mutant: a rapid block is ignored
NextDelayed(b) == [block |-> b + 1, left |-> Second]  \* mutant: one block too far
Delayed(b) == [block |-> b, left |-> Second]

\* A block that updates at once leaves a pending timer as it is.
Hear ==
    /\ stage = "live" /\ heard < best
    /\ heard' = heard + 1
    /\ IF Rapid
       THEN /\ timer' = Delayed(heard + 1)
            /\ UNCHANGED <<age, crossing, tip, heightAsks, newest, queryVars>>
       ELSE /\ age' = 0 /\ UpdateTip(heard + 1)
            /\ crossing' = IF timer = NoTimer THEN crossing ELSE heard + 1
            /\ UNCHANGED timer
    /\ UNCHANGED <<chainVars, stage, heardFrom, height>>

TimerFires ==
    /\ timer # NoTimer /\ timer.left = 0
    /\ UpdateTip(timer.block)
    /\ timer' = NoTimer
    /\ UNCHANGED <<chainVars, zmqVars, height, age, crossing>>

\* Time passes; a timer that is due may be late.
Tick ==
    /\ age <= Second \/ timer.left > 0
    /\ age' = IF age <= Second THEN age + 1 ELSE age
    /\ timer' = [timer EXCEPT !.left = IF @ > 0 THEN @ - 1 ELSE @]
    /\ UNCHANGED <<chainVars, zmqVars, tipVars, crossing, queryVars>>

-----------------------------------------------------------------------------
(* Queries: getAddressBalance, getAddressUnspentOutputs, getAddressTxids,   *)
(* getBlockOverview, getDetailedTransaction.  What is cached is returned;   *)
(* what is not is asked of bitcoind, whose answer is cached when it comes.  *)

Ask ==
    /\ Cardinality(asked) < MaxAsked
    /\ \E k \in Keys :
          /\ cache[k] = NoAnswer
          /\ asked' = asked \union {[key |-> k, at |-> None, crossed |-> FALSE]}
    /\ UNCHANGED <<chainVars, zmqVars, tipVars, clockVars, cache>>

\* bitcoind computes the answer at its best block.
Compute ==
    /\ \E q \in asked :
          /\ q.at = None
          /\ asked' = (asked \ {q}) \union {[q EXCEPT !.at = best]}
    /\ UNCHANGED <<chainVars, zmqVars, tipVars, clockVars, cache>>

Answered(q) == [at |-> q.at, crossed |-> q.crossed]

Arrive ==
    /\ \E q \in asked :
          /\ q.at # None
          /\ cache' = [cache EXCEPT ![q.key] = Answered(q)]
          /\ asked' = asked \ {q}
    /\ UNCHANGED <<chainVars, zmqVars, tipVars, clockVars>>

AskFails ==
    /\ faults < MaxFaults /\ faults' = faults + 1
    /\ \E q \in asked : asked' = asked \ {q}
    /\ UNCHANGED <<best, zmqVars, tipVars, clockVars, cache>>

-----------------------------------------------------------------------------
Tips == HeightAnswer \/ HeightFails \/ TimerFires \/ Tick
Zmq == Poll \/ PollAgain \/ Subscribe \/ Hear
Queries == Ask \/ Compute \/ Arrive \/ AskFails

Next == Mine \/ Tips \/ Zmq \/ Queries

Spec == Init /\ [][Next]_vars

\* The poll is repeated until it finds bitcoind synced, notifications and answers
\* arrive, time passes and a timer that is due fires.
Fairness ==
    /\ WF_vars(Poll) /\ WF_vars(PollAgain \/ Subscribe) /\ WF_vars(Hear)
    /\ WF_vars(HeightAnswer) /\ WF_vars(Tick) /\ WF_vars(TimerFires)

FairSpec == Spec /\ Fairness

-----------------------------------------------------------------------------
\* Every variable keeps its type; no block is known before bitcoind has it.
TypeOK ==
    /\ best \in Blocks /\ faults \in Nat
    /\ stage \in {"poll", "check", "live"}
    /\ heard \in 0..best /\ heardFrom \in 0..best
    /\ tip \in {None} \union 0..best
    /\ height \in Nat /\ heightAsks \in Seq(Blocks)
    /\ newest \in {"none", "asked", "answered", "lost", "overtaken"}
    /\ age \in 0..(Second + 1)
    /\ timer \in [block: {None} \union 0..best, left: 0..Second]
    /\ crossing \in {None} \union 0..best
    /\ asked \subseteq Query
    /\ cache \in [Keys -> [at: Blocks \union {None}, crossed: BOOLEAN]]

\* A cached answer whose query did not cross a change of the tip was computed at
\* the tip or at a later block: no answer is older than the tip known when it was
\* asked for, so the caches are reset often enough for such queries.
FreshUnlessCrossed ==
    \A k \in Keys : (cache[k] # NoAnswer /\ ~ cache[k].crossed) => cache[k].at \in tip..best

\* "Caches valid until there is a new block": when the service knows the best
\* block and no timer is pending, what is cached was computed at that block.
CachedBetweenBlocks ==
    (tip = best /\ timer = NoTimer) =>
        \A k \in Keys : cache[k] # NoAnswer => cache[k].at = best

\* The chain tip is updated by every block: once bitcoind stands still the tip
\* becomes its best block and stays there, except for blocks that came between the
\* last poll and the subscription.
TipFollows == <>[](tip = best \/ (stage = "live" /\ heardFrom = best))

\* The same of the blocks that did not themselves cross a delayed update: when an
\* older block has set the tip back, or one was missed at the subscription, the
\* next block repairs it, whether it updates at once or is delayed.
TipRecovers == <>[](tip = best \/ (stage = "live" /\ heardFrom = best) \/ crossing = best)

\* The height becomes that of the tip, also after lost answers and answers out of
\* order, unless the last tip's own answer was lost or an older one came after it.
HeightFollows ==
    <>[]((tip # None /\ height = HeightOf[tip]) \/ newest \in {"lost", "overtaken"})
=============================================================================
