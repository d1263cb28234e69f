--------------------------- MODULE TipCacheProofs ---------------------------
(***************************************************************************)
(* Theorems about TipCache, for every number of blocks, every assignment of *)
(* heights, every set of keys and every bound.                             *)
(***************************************************************************)
EXTENDS TipCache, SequenceTheorems, TLAPS

\* Taking one request out of the list leaves a list of requests.
LEMMA RequestRemoved ==
    ASSUME NEW s \in Seq(Blocks), NEW i \in 1..Len(s)
    PROVE  SubSeq(s, 1, i - 1) \o SubSeq(s, i + 1, Len(s)) \in Seq(Blocks)
<1>1. SubSeq(s, 1, i - 1) \in Seq(Blocks)
  BY SubSeqProperties
<1>2. SubSeq(s, i + 1, Len(s)) \in Seq(Blocks)
  BY SubSeqProperties
<1> QED BY <1>1, <1>2, ConcatProperties

\* What UpdateTip does to the variables it may change, for any block bitcoind had.
LEMMA UpdateTipType ==
    ASSUME TypeOK, NEW b \in 0..best, UpdateTip(b)
    PROVE  /\ tip' \in {None} \union 0..best
           /\ heightAsks' \in Seq(Blocks)
           /\ newest' \in {"none", "asked", "answered", "lost", "overtaken"}
           /\ asked' \subseteq Query
           /\ cache' \in [Keys -> [at: Blocks \union {None}, crossed: BOOLEAN]]
<1>1. CASE b = tip
  BY <1>1 DEF UpdateTip, TypeOK, queryVars
<1>2. CASE b # tip
  <2>1. b \in Blocks
    BY TipAssumption DEF TypeOK, Blocks
  <2>2. heightAsks' \in Seq(Blocks)
    <3>1. heightAsks \in Seq(Blocks) BY DEF TypeOK
    <3>2. heightAsks' = Append(heightAsks, b) BY <1>2 DEF UpdateTip, HeightAsked
    <3> QED BY <2>1, <3>1, <3>2, AppendProperties
  <2>3. ASSUME NEW q \in Query PROVE [q EXCEPT !.crossed = TRUE] \in Query
    BY DEF Query
  <2>4. asked' \subseteq Query
    BY <1>2, <2>3 DEF UpdateTip, TypeOK
  <2>5. NoAnswer \in [at: Blocks \union {None}, crossed: BOOLEAN]
    BY DEF NoAnswer
  <2>6. tip' = b /\ newest' = "asked" /\ cache' = [k \in Keys |-> NoAnswer]
    BY <1>2 DEF UpdateTip, CachesReset
  <2> QED BY <2>2, <2>4, <2>5, <2>6
<1> QED BY <1>1, <1>2

\* The initial state is well typed.
LEMMA TypeInit == Init => TypeOK
<1> SUFFICES ASSUME Init PROVE TypeOK
  OBVIOUS
<1>1. 0 \in Blocks /\ HeightOf[0] \in Nat /\ Second \in Nat
  BY TipAssumption DEF Blocks
<1>2. NoTimer \in [block: {None} \union 0..0, left: 0..Second]
  BY <1>1 DEF NoTimer
<1>3. NoAnswer \in [at: Blocks \union {None}, crossed: BOOLEAN]
  BY DEF NoAnswer
<1>4. best = 0 /\ heightAsks \in Seq(Blocks) /\ asked \subseteq Query
  BY DEF Init
<1>5. timer \in [block: {None} \union 0..best, left: 0..Second]
  BY <1>2, <1>4 DEF Init
<1>6. cache \in [Keys -> [at: Blocks \union {None}, crossed: BOOLEAN]]
  BY <1>3 DEF Init
<1>7. faults \in Nat /\ stage \in {"poll", "check", "live"} /\ heard \in 0..best /\ heardFrom \in 0..best
  BY DEF Init
<1>8. tip \in {None} \union 0..best /\ height \in Nat /\ crossing \in {None} \union 0..best
  BY <1>1 DEF Init
<1>9. age \in 0..(Second + 1)
  BY <1>1 DEF Init
<1>10. newest \in {"none", "asked", "answered", "lost", "overtaken"}
  BY DEF Init
<1> QED BY <1>1, <1>4, <1>5, <1>6, <1>7, <1>8, <1>9, <1>10 DEF TypeOK

\* One step per action.
LEMMA TypeNext == TypeOK /\ [Next]_vars => TypeOK'
<1> SUFFICES ASSUME TypeOK, [Next]_vars PROVE TypeOK'
  OBVIOUS
<1> USE TipAssumption
<1>1. CASE Mine
  <2>1. best' \in Blocks /\ 0..best \subseteq 0..best'
    BY <1>1 DEF Mine, TypeOK, Blocks
  <2> QED BY <1>1, <2>1 DEF Mine, TypeOK, zmqVars, tipVars, clockVars, queryVars
<1>2. CASE HeightAnswer
  <2>1. PICK i \in 1..Len(heightAsks) :
           /\ height' = HeightOf[heightAsks[i]]
           /\ heightAsks' = Without(i)
           /\ newest' = IF IsNewest(i) THEN "answered"
                        ELSE IF newest = "answered" THEN "overtaken" ELSE newest
    BY <1>2 DEF HeightAnswer
  <2>2. heightAsks' \in Seq(Blocks)
    BY <2>1, RequestRemoved DEF TypeOK, Without
  <2>3. height' \in Nat
    BY <2>1 DEF TypeOK
  <2>4. newest' \in {"none", "asked", "answered", "lost", "overtaken"}
    BY <2>1 DEF TypeOK
  <2> QED BY <1>2, <2>2, <2>3, <2>4 DEF HeightAnswer, TypeOK, chainVars, zmqVars, clockVars, queryVars
<1>3. CASE HeightFails
  <2>1. PICK i \in 1..Len(heightAsks) :
           /\ heightAsks' = Without(i)
           /\ newest' = IF IsNewest(i) THEN "lost" ELSE newest
    BY <1>3 DEF HeightFails
  <2>2. heightAsks' \in Seq(Blocks)
    BY <2>1, RequestRemoved DEF TypeOK, Without
  <2>3. newest' \in {"none", "asked", "answered", "lost", "overtaken"}
    BY <2>1 DEF TypeOK
  <2>4. faults' \in Nat
    BY <1>3 DEF HeightFails, TypeOK
  <2> QED BY <1>3, <2>2, <2>3, <2>4 DEF HeightFails, TypeOK, zmqVars, clockVars, queryVars
<1>4. CASE Poll
  <2>1. best \in 0..best /\ UpdateTip(best)
    BY <1>4 DEF Poll, TypeOK, Blocks
  <2> QED BY <1>4, <2>1, UpdateTipType DEF Poll, TypeOK, chainVars, clockVars
<1>5. CASE PollAgain
  BY <1>5 DEF PollAgain, TypeOK, chainVars, tipVars, clockVars, queryVars
<1>6. CASE Subscribe
  <2>1. best \in 0..best
    BY DEF TypeOK, Blocks
  <2> QED BY <1>6, <2>1 DEF Subscribe, TypeOK, chainVars, tipVars, clockVars, queryVars
<1>7. CASE Hear
  <2>1. heard + 1 \in 0..best
    BY <1>7 DEF Hear, TypeOK, Blocks
  <2>2. CASE Rapid
    <3>1. timer' \in [block: {None} \union 0..best, left: 0..Second]
      BY <1>7, <2>1, <2>2 DEF Hear, Delayed
    <3> QED BY <1>7, <2>1, <2>2, <3>1 DEF Hear, TypeOK, chainVars, queryVars
  <2>3. CASE ~ Rapid
    <3>1. UpdateTip(heard + 1) /\ age' = 0
      BY <1>7, <2>3 DEF Hear
    <3>2. crossing' \in {None} \union 0..best
      BY <1>7, <2>1, <2>3 DEF Hear, TypeOK
    <3> QED BY <1>7, <2>1, <2>3, <3>1, <3>2, UpdateTipType DEF Hear, TypeOK, chainVars
  <2> QED BY <2>2, <2>3
<1>8. CASE TimerFires
  <2>1. timer.block \in {None} \union 0..best
    BY DEF TypeOK
  <2>2. NoTimer \in [block: {None} \union 0..best, left: 0..Second]
    BY DEF NoTimer
  <2>3. timer.block \in 0..best
    BY <1>8, <2>1 DEF TimerFires, NoTimer, TypeOK
  <2> QED BY <1>8, <2>2, <2>3, UpdateTipType DEF TimerFires, TypeOK, chainVars, zmqVars
<1>9. CASE Tick
  <2>1. timer' \in [block: {None} \union 0..best, left: 0..Second]
    <3>1. timer.left \in 0..Second /\ timer.block \in {None} \union 0..best
      BY DEF TypeOK
    <3>2. timer' = [block |-> timer.block, left |-> IF timer.left > 0 THEN timer.left - 1 ELSE timer.left]
      BY <1>9 DEF Tick, TypeOK
    <3>3. (IF timer.left > 0 THEN timer.left - 1 ELSE timer.left) \in 0..Second
      BY <3>1
    <3> QED BY <3>1, <3>2, <3>3
  <2>2. age' \in 0..(Second + 1)
    <3>1. age \in 0..(Second + 1) /\ Second \in Nat
      BY TipAssumption DEF TypeOK
    <3>2. age' = IF age <= Second THEN age + 1 ELSE age
      BY <1>9 DEF Tick
    <3> QED BY <3>1, <3>2
  <2> QED BY <1>9, <2>1, <2>2 DEF Tick, TypeOK, chainVars, zmqVars, tipVars, queryVars
<1>10. CASE Ask
  <2>1. PICK k \in Keys : asked' = asked \union {[key |-> k, at |-> None, crossed |-> FALSE]}
    BY <1>10 DEF Ask
  <2>2. [key |-> k, at |-> None, crossed |-> FALSE] \in Query
    BY DEF Query
  <2>3. asked' \subseteq Query
    BY <2>1, <2>2 DEF TypeOK
  <2> QED BY <1>10, <2>3 DEF Ask, TypeOK, chainVars, zmqVars, tipVars, clockVars
<1>11. CASE Compute
  <2>1. asked' \subseteq Query
    BY <1>11 DEF Compute, TypeOK, Query
  <2> QED BY <1>11, <2>1 DEF Compute, TypeOK, chainVars, zmqVars, tipVars, clockVars
<1>12. CASE Arrive
  <2>1. PICK q \in asked : /\ cache' = [cache EXCEPT ![q.key] = Answered(q)]
                           /\ asked' = asked \ {q}
    BY <1>12 DEF Arrive
  <2>2. q \in Query
    BY DEF TypeOK
  <2>3. Answered(q) \in [at: Blocks \union {None}, crossed: BOOLEAN]
    BY <2>2 DEF Answered, Query
  <2>4. cache' \in [Keys -> [at: Blocks \union {None}, crossed: BOOLEAN]]
    BY <2>1, <2>3 DEF TypeOK
  <2> QED BY <1>12, <2>1, <2>4 DEF Arrive, TypeOK, chainVars, zmqVars, tipVars, clockVars
<1>13. CASE AskFails
  BY <1>13 DEF AskFails, TypeOK, zmqVars, tipVars, clockVars
<1>14. CASE UNCHANGED vars
  BY <1>14 DEF TypeOK, vars, chainVars, zmqVars, tipVars, clockVars, queryVars
<1> QED BY <1>1, <1>2, <1>3, <1>4, <1>5, <1>6, <1>7, <1>8, <1>9, <1>10, <1>11, <1>12, <1>13, <1>14
        DEF Next, Tips, Zmq, Queries

\* The variables keep their types, and neither the tip nor what was heard is ever
\* ahead of bitcoind.
THEOREM TypeCorrect == Spec => []TypeOK
<1>1. Init => TypeOK
  BY TypeInit
<1>2. TypeOK /\ [Next]_vars => TypeOK'
  BY TypeNext
<1> QED BY <1>1, <1>2, PTL DEF Spec

-----------------------------------------------------------------------------
(* The freshness of the caches.                                            *)

\* What holds of the cached answers holds of the answers under way: one that did
\* not cross a change of the tip is from the tip or a later block, and none is
\* from a block that is still to come.
Computed(x) == x.at # None => x.at \in 0..best /\ (~ x.crossed => x.at >= tip)

FreshInv == /\ \A k \in Keys : Computed(cache[k])
            /\ \A q \in asked : Computed(q)

\* A change of the tip empties the caches and marks what is under way.
LEMMA UpdateTipFresh ==
    ASSUME TypeOK, FreshInv, NEW b \in 0..best, UpdateTip(b), best' = best
    PROVE  FreshInv'
<1>1. CASE b = tip
  BY <1>1 DEF UpdateTip, FreshInv, Computed, queryVars
<1>2. CASE b # tip
  <2>1. \A k \in Keys : Computed(cache[k])'
    BY <1>2 DEF UpdateTip, CachesReset, NoAnswer, Computed
  <2>2. \A q \in asked' : Computed(q)'
    <3> TAKE q \in asked'
    <3>1. PICK p \in asked : q = [p EXCEPT !.crossed = TRUE]
      BY <1>2 DEF UpdateTip
    <3>2. p \in Query /\ Computed(p)
      BY DEF TypeOK, FreshInv
    <3>3. q.at = p.at /\ q.crossed
      BY <3>1, <3>2 DEF Query
    <3> QED BY <3>2, <3>3 DEF Computed
  <2> QED BY <2>1, <2>2 DEF FreshInv
<1> QED BY <1>1, <1>2

\* A step that leaves the tip, the caches and the queries alone; the best block
\* only grows.
LEMMA FreshStill ==
    ASSUME TypeOK, TypeOK', FreshInv, UNCHANGED <<tip, cache, asked>>, best' >= best
    PROVE  FreshInv'
<1>1. best \in Int /\ best' \in Int
  BY DEF TypeOK, Blocks
<1>2. 0..best \subseteq 0..best'
  BY <1>1
<1> QED BY <1>2 DEF FreshInv, Computed

\* One step per action that touches the tip, the caches or the queries.
LEMMA FreshNext == TypeOK /\ TypeOK' /\ FreshInv /\ [Next]_vars => FreshInv'
<1> SUFFICES ASSUME TypeOK, TypeOK', FreshInv, [Next]_vars PROVE FreshInv'
  OBVIOUS
<1>a. best \in Nat /\ best \in 0..best
  BY TipAssumption DEF TypeOK, Blocks
<1>1. CASE Mine
  <2>1. best' >= best
    BY <1>1, <1>a DEF Mine
  <2> QED BY <1>1, <2>1, FreshStill DEF Mine, tipVars, queryVars
<1>2. CASE HeightAnswer \/ HeightFails \/ Tick \/ PollAgain \/ Subscribe \/ UNCHANGED vars
  <2>1. UNCHANGED <<best, tip, cache, asked>>
    BY <1>2 DEF HeightAnswer, HeightFails, Tick, PollAgain, Subscribe, vars, chainVars, zmqVars,
                tipVars, clockVars, queryVars
  <2> QED BY <1>a, <2>1, FreshStill
<1>3. CASE Poll
  BY <1>3, <1>a, UpdateTipFresh DEF Poll, chainVars
<1>4. CASE Hear
  <2>1. heard + 1 \in 0..best /\ best' = best
    BY <1>4 DEF Hear, TypeOK, Blocks, chainVars
  <2>2. CASE Rapid
    BY <1>4, <1>a, <2>1, <2>2, FreshStill DEF Hear, queryVars
  <2>3. CASE ~ Rapid
    BY <1>4, <2>1, <2>3, UpdateTipFresh DEF Hear
  <2> QED BY <2>2, <2>3
<1>5. CASE TimerFires
  <2>1. timer.block \in 0..best
    BY <1>5 DEF TimerFires, NoTimer, TypeOK
  <2> QED BY <1>5, <2>1, UpdateTipFresh DEF TimerFires, chainVars
<1>6. CASE Ask
  <2>1. PICK k \in Keys : asked' = asked \union {[key |-> k, at |-> None, crossed |-> FALSE]}
    BY <1>6 DEF Ask
  <2>2. \A q \in asked' : q \in asked \/ q.at = None
    BY <2>1
  <2> QED BY <1>6, <2>2 DEF Ask, FreshInv, Computed, chainVars, tipVars
<1>7. CASE Compute
  <2>1. PICK q \in asked : asked' = (asked \ {q}) \union {[q EXCEPT !.at = best]}
    BY <1>7 DEF Compute
  <2>2. q \in Query
    BY DEF TypeOK
  <2>3. [q EXCEPT !.at = best].at = best
    BY <2>2 DEF Query
  <2>4. tip <= best
    BY <1>a DEF TypeOK, None
  <2>5. UNCHANGED <<best, tip, cache>>
    BY <1>7 DEF Compute, chainVars, tipVars
  <2>6. \A p \in asked' : p \in asked \/ p.at = best
    BY <2>1, <2>3
  <2> QED BY <1>a, <2>4, <2>5, <2>6 DEF FreshInv, Computed
<1>8. CASE Arrive
  <2>1. PICK q \in asked : /\ cache' = [cache EXCEPT ![q.key] = Answered(q)]
                           /\ asked' = asked \ {q}
    BY <1>8 DEF Arrive
  <2>2. q \in Query /\ Computed(q)
    BY DEF TypeOK, FreshInv
  <2>3. UNCHANGED <<best, tip>>
    BY <1>8 DEF Arrive, chainVars, tipVars
  <2>4. \A k \in Keys : Computed(cache[k])'
    <3> TAKE k \in Keys
    <3>1. cache'[k] = IF k = q.key THEN Answered(q) ELSE cache[k]
      BY <2>1 DEF TypeOK
    <3>2. Computed(cache[k])
      BY DEF FreshInv
    <3> QED BY <2>2, <2>3, <3>1, <3>2 DEF Computed, Answered
  <2> QED BY <2>1, <2>3, <2>4 DEF FreshInv, Computed
<1>9. CASE AskFails
  BY <1>9 DEF AskFails, FreshInv, Computed, tipVars
<1> QED BY <1>1, <1>2, <1>3, <1>4, <1>5, <1>6, <1>7, <1>8, <1>9
        DEF Next, Tips, Zmq, Queries

\* No cached answer is older than the tip known when it was asked for, unless the
\* tip changed while it was under way.
THEOREM CachesAreFresh == Spec => []FreshUnlessCrossed
<1>1. Init => TypeOK /\ FreshInv
  BY TypeInit DEF Init, FreshInv, Computed, NoAnswer
<1>2. TypeOK /\ FreshInv /\ [Next]_vars => (TypeOK /\ FreshInv)'
  BY TypeNext, FreshNext
<1>3. TypeOK /\ FreshInv => FreshUnlessCrossed
  <2> SUFFICES ASSUME TypeOK, FreshInv, NEW k \in Keys,
                      cache[k] # NoAnswer, ~ cache[k].crossed
               PROVE  cache[k].at \in tip..best
    BY DEF FreshUnlessCrossed
  <2>1. cache[k] \in [at: Blocks \union {None}, crossed: BOOLEAN]
    BY DEF TypeOK
  <2>2. cache[k].at # None
    BY <2>1 DEF NoAnswer
  <2>3. cache[k].at \in 0..best /\ cache[k].at >= tip
    BY <2>2 DEF FreshInv, Computed
  <2> QED BY <2>3 DEF TypeOK, None, Blocks
<1> QED BY <1>1, <1>2, <1>3, PTL DEF Spec
=============================================================================
