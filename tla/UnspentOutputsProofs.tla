------------------------ MODULE UnspentOutputsProofs ------------------------
(***************************************************************************)
(* What holds of the answers of getAddressUnspentOutputs for every set of  *)
(* transactions, chain and number of queries.  A list and a mempool are    *)
(* compared through the transactions that were confirmed at the block each  *)
(* was computed at, which some history of the chain gives.                 *)
(***************************************************************************)
EXTENDS UnspentOutputs, TLAPS

PCs == {"idle", "mempool", "deltas", "outputs", "list", "done"}
Lists == [outputs: SUBSET Outputs, at: Nat]
Records == [pc: PCs, mempool: BOOLEAN, list: Lists, cached: BOOLEAN, deltas: SUBSET Txs,
            readAt: Nat, then: SUBSET Outputs, unspent: SUBSET Outputs, spent: SUBSET Outputs,
            replaced: BOOLEAN]

\* Who spends an output has its maker with it.
Closed(ts) == \A o \in Outputs : Spender[o] \in ts => Maker[o] \in ts

\* Types, and what bitcoind keeps: a transaction is in the mempool or in a block,
\* and after those it spends from, also when the last block is replaced.
Shapes ==
    /\ pool \subseteq Txs /\ mined \subseteq Txs /\ pool \intersect mined = {}
    /\ last \subseteq mined /\ best \in Nat \ {0}
    /\ Closed(mined \ last) /\ Closed(mined) /\ Closed(pool \union mined)
    /\ cache \in Lists /\ queries \in [Queries -> Records]

\* A list is what was unspent in the blocks it was computed from.
ListTold(past, top, list) ==
    list.at # 0 => list.at \in 1..top /\ list.outputs = UnspentIn(past[list.at])

\* The mempool was read when its transactions were not in those blocks.
MempoolTold(past, top, x) ==
    x.readAt # 0 =>
        /\ x.readAt \in 1..top
        /\ x.deltas \intersect past[x.readAt] = {}
        /\ x.then = UnspentIn(x.deltas \union past[x.readAt])
        /\ x.unspent \subseteq UnspentIn(x.deltas \union past[x.readAt])
        /\ x.spent \subseteq SpentIn(x.deltas \union past[x.readAt])

UnderWay(x) == x.pc \notin {"idle", "done"}

\* What a query knows of now: of the transactions, and of those that are confirmed.
NowTold(past, all, confirmed, x) ==
    UnderWay(x) =>
        /\ x.unspent \subseteq UnspentIn(all) /\ x.spent \subseteq SpentIn(all)
        /\ x.readAt # 0 /\ ~ x.replaced => past[x.readAt] \subseteq confirmed

\* What a query that asked for a list has when it has it.
AskedTold(past, x) ==
    (x.pc \in {"list", "done"} /\ x.mempool /\ ~ x.cached) =>
        /\ x.list.at # 0
        /\ x.unspent \intersect SpentIn(past[x.list.at]) = {}
        /\ ~ x.replaced => past[x.readAt] \subseteq past[x.list.at]

Told(past, top, all, confirmed, x) ==
    /\ ListTold(past, top, x.list) /\ MempoolTold(past, top, x)
    /\ NowTold(past, all, confirmed, x) /\ AskedTold(past, x)
    /\ x.pc \notin {"idle", "mempool"} /\ x.mempool => x.readAt # 0

\* past[a]: the transactions confirmed when block a was the best
History(past) ==
    /\ past \in [1..best -> SUBSET Txs] /\ past[best] = mined
    /\ \A a \in 1..best : Closed(past[a])
    /\ ListTold(past, best, cache)
    /\ \A q \in Queries : Told(past, best, pool \union mined, mined, queries[q])

Inv == Shapes /\ \E past : History(past)

-----------------------------------------------------------------------------
\* A query that has not begun knows nothing.
LEMMA IdleRecord ==
    /\ Idle \in Records /\ NoList \in Lists
    /\ \A past, top, all, confirmed :
          Told(past, top, all, confirmed, Idle) /\ ListTold(past, top, NoList)
<1>1. NoList \in Lists
  BY DEF NoList, Lists
<1>2. Idle \in Records
  BY <1>1 DEF Idle, Records, PCs
<1>3. Idle.pc = "idle" /\ Idle.readAt = 0 /\ Idle.list.at = 0 /\ NoList.at = 0
  BY DEF Idle, NoList
<1> QED BY <1>1, <1>2, <1>3
        DEF Told, ListTold, MempoolTold, NowTold, AskedTold, UnderWay

\* At the beginning the history is the first block.
LEMMA InvInit == Init => Inv
<1> SUFFICES ASSUME Init PROVE Inv
  OBVIOUS
<1>1. Shapes
  <2>1. Closed(Confirmed)
    BY OutputsAssumption DEF Closed
  <2>2. pool \union mined = Confirmed /\ mined \ last = Confirmed
    BY DEF Init
  <2> QED BY <2>1, <2>2, IdleRecord, OutputsAssumption DEF Init, Shapes
<1>2. History([a \in 1..1 |-> Confirmed])
  <2> DEFINE past == [a \in 1..1 |-> Confirmed]
  <2>1. past \in [1..best -> SUBSET Txs] /\ past[best] = mined
    BY OutputsAssumption DEF Init
  <2>2. \A a \in 1..best : Closed(past[a])
    BY OutputsAssumption DEF Init, Closed
  <2> HIDE DEF past
  <2>3. /\ ListTold(past, best, cache)
        /\ \A q \in Queries : Told(past, best, pool \union mined, mined, queries[q])
    BY IdleRecord DEF Init
  <2> QED BY <2>1, <2>2, <2>3 DEF History, past
<1> QED BY <1>1, <1>2 DEF Inv

-----------------------------------------------------------------------------
(* bitcoind.                                                               *)

\* What is made and spent are outputs.
LEMMA OutputSets ==
    ASSUME NEW ts
    PROVE  UnspentIn(ts) \in SUBSET Outputs /\ SpentIn(ts) \in SUBSET Outputs
BY DEF UnspentIn, MadeIn, SpentIn

\* What a step of bitcoind leaves of the record x of a query: it keeps of its sets
\* what holds still, and learns whether a block was replaced.
Saw(x, y, U, S) ==
    /\ y \in Records
    /\ ~ UnderWay(x) => y = x
    /\ UnderWay(x) =>
          /\ y.unspent = x.unspent \intersect U /\ y.spent = x.spent \intersect S
          /\ x.replaced => y.replaced
          /\ y.pc = x.pc /\ y.mempool = x.mempool /\ y.list = x.list /\ y.cached = x.cached
          /\ y.deltas = x.deltas /\ y.readAt = x.readAt /\ y.then = x.then

\* Every query sees a step of bitcoind.
LEMMA ObservedSaw ==
    ASSUME Shapes, NEW U \in SUBSET Outputs, NEW S \in SUBSET Outputs, NEW flag \in BOOLEAN,
           Observed(U, S, flag)
    PROVE  /\ queries' \in [Queries -> Records]
           /\ \A q \in Queries :
                 /\ Saw(queries[q], queries'[q], U, S)
                 /\ UnderWay(queries[q]) /\ flag => queries'[q].replaced
<1> DEFINE seen(x) == [x EXCEPT !.unspent = @ \intersect U, !.spent = @ \intersect S,
                                !.replaced = @ \/ flag]
<1>1. ASSUME NEW q \in Queries
      PROVE  /\ queries[q] \in Records
             /\ queries'[q] = IF UnderWay(queries[q]) THEN seen(queries[q]) ELSE queries[q]
  BY DEF Shapes, Observed, Active, UnderWay
<1>2. ASSUME NEW x \in Records
      PROVE  /\ seen(x) \in Records
             /\ seen(x).unspent = x.unspent \intersect U /\ seen(x).spent = x.spent \intersect S
             /\ (x.replaced => seen(x).replaced) /\ (flag => seen(x).replaced)
             /\ seen(x).pc = x.pc /\ seen(x).mempool = x.mempool /\ seen(x).list = x.list
             /\ seen(x).cached = x.cached /\ seen(x).deltas = x.deltas
             /\ seen(x).readAt = x.readAt /\ seen(x).then = x.then
  BY <1>2 DEF Records
<1>3. ASSUME NEW q \in Queries
      PROVE  /\ Saw(queries[q], queries'[q], U, S)
             /\ UnderWay(queries[q]) /\ flag => queries'[q].replaced
  <2> HIDE DEF seen
  <2> QED BY <1>1, <1>2 DEF Saw
<1>4. queries' \in [Queries -> Records]
  <2>1. queries' = [q \in Queries |-> queries'[q]]
    BY DEF Observed
  <2> QED BY <1>3, <2>1 DEF Saw
<1> QED BY <1>3, <1>4

\* A step of bitcoind, for the queries and for the history.
Seen ==
    \A q \in Queries :
        /\ Saw(queries[q], queries'[q], UnspentIn(pool' \union mined'),
               SpentIn(pool' \union mined'))
        /\ UnderWay(queries[q]) /\ ~ queries'[q].replaced => mined \subseteq mined'

Continues(past, future) ==
    /\ best' \in {best, best + 1}
    /\ future \in [1..best' -> SUBSET Txs] /\ future[best'] = mined'
    /\ \A a \in 1..best : future[a] = past[a]

\* After it the history goes on.
LEMMA ObservedStep ==
    ASSUME Shapes, NEW past, History(past), NEW future, Continues(past, future),
           Closed(mined'), cache' = cache, Seen
    PROVE  History(future)'
<1> USE DEF Seen, Continues
<1> DEFINE U == UnspentIn(pool' \union mined')
           S == SpentIn(pool' \union mined')
<1>4. best \in Nat \ {0} /\ 1..best \subseteq 1..best'
  BY DEF Shapes
<1>5. \A a \in 1..best' : Closed(future[a])
  <2> SUFFICES ASSUME NEW a \in 1..best' PROVE Closed(future[a])
    OBVIOUS
  <2>1. CASE a \in 1..best
    BY <2>1 DEF History
  <2>2. CASE a \notin 1..best
    <3>1. a = best'
      BY <1>4, <2>2
    <3> QED BY <3>1
  <2> QED BY <2>1, <2>2
<1>6. ASSUME NEW list, ListTold(past, best, list) PROVE ListTold(future, best', list)
  BY <1>4, <1>6 DEF ListTold
<1>7. ASSUME NEW q \in Queries
      PROVE  Told(future, best', pool' \union mined', mined', queries'[q])
  <2> DEFINE x == queries[q]
             y == queries'[q]
  <2>1. /\ x \in Records /\ Told(past, best, pool \union mined, mined, x)
        /\ Saw(x, y, U, S)
        /\ UnderWay(x) /\ ~ y.replaced => mined \subseteq mined'
    BY DEF History, Shapes
  <2> HIDE DEF U, S, x, y
  <2>2. /\ y.unspent \subseteq x.unspent /\ y.spent \subseteq x.spent
        /\ (UnderWay(x) => y.unspent \subseteq U /\ y.spent \subseteq S)
        /\ (x.replaced => y.replaced)
        /\ y.pc = x.pc /\ y.mempool = x.mempool /\ y.list = x.list /\ y.cached = x.cached
        /\ y.deltas = x.deltas /\ y.readAt = x.readAt /\ y.then = x.then
    BY <2>1 DEF Saw
  <2>3. x.readAt # 0 => x.readAt \in 1..best /\ future[x.readAt] = past[x.readAt]
    BY <2>1 DEF Told, MempoolTold
  <2>4. x.list.at # 0 => x.list.at \in 1..best /\ future[x.list.at] = past[x.list.at]
    BY <2>1 DEF Told, ListTold
  <2>5. ListTold(future, best', y.list)
    BY <1>6, <2>1, <2>2 DEF Told
  <2>6. MempoolTold(future, best', y)
    BY <1>4, <2>1, <2>2, <2>3 DEF Told, MempoolTold
  <2>7. NowTold(future, pool' \union mined', mined', y)
    BY <2>1, <2>2, <2>3 DEF Told, NowTold, UnderWay, U, S
  <2>8. AskedTold(future, y)
    BY <2>1, <2>2, <2>3, <2>4 DEF Told, AskedTold
  <2> QED BY <2>1, <2>2, <2>5, <2>6, <2>7, <2>8 DEF Told, y
<1>8. ListTold(future, best', cache')
  BY <1>6 DEF History
<1> QED BY <1>5, <1>7, <1>8 DEF History

\* A transaction is relayed: no block changes.
LEMMA RelayInv ==
    ASSUME Inv, NEW t \in Txs, Relay(t)
    PROVE  Inv'
<1>1. PICK past : History(past)
  BY DEF Inv
<1>2. /\ Shapes /\ t \notin pool \union mined /\ Parents(t) \subseteq pool \union mined
      /\ pool' = pool \union {t} /\ UNCHANGED <<mined, last, best, cache>>
      /\ Observed(UnspentIn(pool' \union mined), SpentIn(pool' \union mined), FALSE)
  BY DEF Inv, Relay
<1>3. Closed(pool' \union mined')
  BY <1>2 DEF Shapes, Closed, Parents
<1>4. queries' \in [Queries -> Records] /\ Seen
  BY <1>2, ObservedSaw, OutputSets DEF Seen
<1>5. History(past)'
  <2>1. best \in Nat \ {0} /\ Closed(mined') /\ cache' = cache
    BY <1>2 DEF Shapes
  <2>2. Continues(past, past)
    BY <1>1, <1>2, <2>1 DEF History, Continues
  <2> QED BY <1>1, <1>2, <1>4, <2>1, <2>2, ObservedStep
<1>6. Shapes'
  BY <1>2, <1>3, <1>4 DEF Shapes
<1> QED BY <1>5, <1>6 DEF Inv

\* A block, on top of the chain or in place of the last: no transaction is lost.
LEMMA NewBlockInv ==
    ASSUME Inv, NEW ts, NEW base, NEW waiting, ts \subseteq waiting,
           \/ NewBlock(ts, base, waiting, FALSE) /\ base = mined /\ waiting = pool
           \/ NewBlock(ts, base, waiting, TRUE) /\ base = mined \ last /\ waiting = pool \union last
    PROVE  Inv'
<1>1. PICK past : History(past)
  BY DEF Inv
<1>2. /\ Shapes /\ best' = best + 1 /\ mined' = base \union ts /\ last' = ts
      /\ pool' = waiting \ ts /\ cache' = cache
      /\ \A t \in ts : Parents(t) \subseteq base \union ts
  BY DEF Inv, NewBlock
<1>3. /\ Closed(base) /\ base \intersect waiting = {}
      /\ base \union waiting = pool \union mined
  <2>1. CASE base = mined /\ waiting = pool
    BY <1>2, <2>1 DEF Shapes
  <2>2. CASE base = mined \ last /\ waiting = pool \union last
    BY <1>2, <2>2 DEF Shapes
  <2> QED BY <2>1, <2>2
<1>4. /\ Closed(mined') /\ mined' \ last' = base /\ pool' \union mined' = pool \union mined
      /\ pool' \intersect mined' = {} /\ mined' \subseteq Txs /\ pool' \subseteq Txs
  <2>1. Closed(mined')
    BY <1>2, <1>3 DEF Closed, Parents
  <2>2. mined' \subseteq pool \union mined /\ pool' \subseteq pool \union mined
    BY <1>2, <1>3
  <2> QED BY <1>2, <1>3, <2>1, <2>2 DEF Shapes
<1>5. queries' \in [Queries -> Records] /\ Seen
  <2>1. CASE NewBlock(ts, base, waiting, FALSE) /\ base = mined
    <3>1. Observed(UnspentIn(pool' \union mined'), SpentIn(pool' \union mined'), FALSE)
      BY <2>1 DEF NewBlock
    <3> QED BY <1>2, <2>1, <3>1, ObservedSaw, OutputSets DEF Seen
  <2>2. CASE NewBlock(ts, base, waiting, TRUE)
    <3>1. Observed(UnspentIn(pool' \union mined'), SpentIn(pool' \union mined'), TRUE)
      BY <2>2 DEF NewBlock
    <3> QED BY <1>2, <3>1, ObservedSaw, OutputSets DEF Seen
  <2> QED BY <2>1, <2>2
<1>6. best \in Nat \ {0} /\ best' \in Nat \ {0}
  BY <1>2 DEF Shapes
<1>7. \E future : Continues(past, future)
  <2> DEFINE f == [a \in 1..(best + 1) |-> IF a = best + 1 THEN mined' ELSE past[a]]
  <2>1. /\ best' \in {best, best + 1} /\ f[best'] = mined'
        /\ \A a \in 1..best : f[a] = past[a]
    BY <1>2, <1>6
  <2>2. f \in [1..best' -> SUBSET Txs]
    <3>1. \A a \in 1..(best + 1) : a # best + 1 => past[a] \in SUBSET Txs
      BY <1>1, <1>6 DEF History
    <3> QED BY <1>2, <1>4, <3>1
  <2> HIDE DEF f
  <2>3. Continues(past, f)
    BY <2>1, <2>2 DEF Continues
  <2> WITNESS f
  <2> QED BY <2>3
<1>8. PICK future : Continues(past, future)
  BY <1>7
<1>9. History(future)'
  BY <1>1, <1>2, <1>4, <1>5, <1>8, ObservedStep
<1>10. Shapes'
  BY <1>2, <1>3, <1>4, <1>5, <1>6 DEF Shapes
<1> QED BY <1>9, <1>10 DEF Inv

-----------------------------------------------------------------------------
(* The queries.                                                            *)

\* A step of one query, which may put its list into the cache.
LEMMA QueryStep ==
    ASSUME Shapes, NEW past, History(past), NEW q \in Queries, NEW x \in Records,
           Becomes(q, x), Told(past, best, pool \union mined, mined, x),
           UNCHANGED bitcoind,
           cache' \in Lists, ListTold(past, best, cache')
    PROVE  Inv'
<1>1. /\ queries' \in [Queries -> Records]
      /\ \A p \in Queries : queries'[p] = IF p = q THEN x ELSE queries[p]
  BY DEF Shapes, Becomes
<1>2. UNCHANGED <<pool, mined, last, best>>
  BY DEF bitcoind
<1>3. History(past)'
  BY <1>1, <1>2 DEF History
<1>4. Shapes'
  BY <1>1, <1>2 DEF Shapes
<1> QED BY <1>3, <1>4 DEF Inv

\* A query begins with the list in the cache, if there is one, and observes what is
\* unspent and spent now.
LEMMA AskInv ==
    ASSUME Inv, NEW q \in Queries, NEW withMempool \in BOOLEAN, Ask(q, withMempool)
    PROVE  Inv'
<1>1. PICK past : History(past)
  BY DEF Inv
<1> DEFINE all == pool \union mined
           cached == cache # NoList
           x == [Idle EXCEPT
              !.pc = IF withMempool THEN "mempool" ELSE IF cached THEN "done" ELSE "outputs",
              !.mempool = withMempool, !.list = cache, !.cached = cached,
              !.unspent = UnspentIn(all), !.spent = SpentIn(all)]
<1>2. Becomes(q, x) /\ UNCHANGED <<bitcoind, cache>>
  BY DEF Ask
<1>3. /\ x \in Records /\ x.readAt = 0 /\ x.list = cache /\ x.mempool = withMempool
      /\ x.cached = cached /\ x.unspent = UnspentIn(all) /\ x.spent = SpentIn(all)
      /\ x.pc = IF withMempool THEN "mempool" ELSE IF cached THEN "done" ELSE "outputs"
  <2>1. UnspentIn(all) \in SUBSET Outputs /\ SpentIn(all) \in SUBSET Outputs /\ cache \in Lists
    BY OutputSets DEF Inv, Shapes
  <2>2. Idle \in Records /\ Idle.readAt = 0
    BY IdleRecord DEF Idle
  <2> HIDE DEF all
  <2> QED BY <2>1, <2>2 DEF Records, PCs
<1> HIDE DEF x
<1>4. Told(past, best, all, mined, x)
  BY <1>1, <1>3 DEF Told, ListTold, MempoolTold, NowTold, AskedTold, UnderWay, History
<1> QED BY <1>1, <1>2, <1>3, <1>4, QueryStep DEF Inv, Shapes, History

\* The mempool is read at the present block.
LEMMA ReadMempoolInv ==
    ASSUME Inv, NEW q \in Queries, ReadMempool(q)
    PROVE  Inv'
<1>1. PICK past : History(past)
  BY DEF Inv
<1> DEFINE all == pool \union mined
           w == queries[q]
           x == [w EXCEPT !.pc = "deltas", !.deltas = pool, !.readAt = best,
                          !.then = UnspentIn(all)]
<1>2. Becomes(q, x) /\ UNCHANGED <<bitcoind, cache>> /\ w.pc = "mempool"
  BY DEF ReadMempool
<1>3. w \in Records /\ Told(past, best, all, mined, w)
  BY <1>1 DEF Inv, Shapes, History
<1> HIDE DEF w
<1>4. /\ x \in Records /\ x.pc = "deltas" /\ x.deltas = pool /\ x.readAt = best
      /\ x.then = UnspentIn(all) /\ x.unspent = w.unspent /\ x.spent = w.spent
      /\ x.list = w.list /\ x.mempool = w.mempool /\ x.replaced = w.replaced
  <2>1. UnspentIn(all) \in SUBSET Outputs /\ pool \in SUBSET Txs /\ best \in Nat
    BY OutputSets DEF Inv, Shapes
  <2> HIDE DEF all
  <2> QED BY <1>3, <2>1 DEF Records, PCs
<1> HIDE DEF x
<1>5. past[best] = mined /\ best \in 1..best /\ best # 0 /\ pool \intersect mined = {}
  BY <1>1 DEF History, Inv, Shapes
<1>6. ListTold(past, best, x.list)
  BY <1>3, <1>4 DEF Told
<1>7. x.unspent \subseteq UnspentIn(all) /\ x.spent \subseteq SpentIn(all)
  BY <1>2, <1>3, <1>4 DEF Told, NowTold, UnderWay
<1>8. MempoolTold(past, best, x)
  BY <1>4, <1>5, <1>7 DEF MempoolTold
<1>9. NowTold(past, all, mined, x) /\ AskedTold(past, x)
  BY <1>4, <1>5, <1>7 DEF NowTold, AskedTold
<1>10. Told(past, best, all, mined, x)
  BY <1>4, <1>5, <1>6, <1>8, <1>9 DEF Told
<1> QED BY <1>1, <1>2, <1>4, <1>10, QueryStep DEF Inv, Shapes, History

\* Its answer arrives: the query is done if it found a list, or asks for one.
LEMMA MempoolArrivesInv ==
    ASSUME Inv, NEW q \in Queries, MempoolArrives(q)
    PROVE  Inv'
<1>1. PICK past : History(past)
  BY DEF Inv
<1> DEFINE w == queries[q]
           x == [w EXCEPT !.pc = AfterMempool(w)]
<1>2. Becomes(q, x) /\ UNCHANGED <<bitcoind, cache>> /\ w.pc = "deltas"
  BY DEF MempoolArrives
<1>3. w \in Records /\ Told(past, best, pool \union mined, mined, w)
  BY <1>1 DEF Inv, Shapes, History
<1> HIDE DEF w
<1>4. /\ x \in Records /\ x.pc = IF w.cached THEN "done" ELSE "outputs"
      /\ x.deltas = w.deltas /\ x.readAt = w.readAt /\ x.cached = w.cached
      /\ x.then = w.then /\ x.unspent = w.unspent /\ x.spent = w.spent
      /\ x.list = w.list /\ x.mempool = w.mempool /\ x.replaced = w.replaced
  BY <1>3 DEF Records, PCs, AfterMempool
<1> HIDE DEF x
<1>5. Told(past, best, pool \union mined, mined, x)
  BY <1>2, <1>3, <1>4 DEF Told, ListTold, MempoolTold, NowTold, AskedTold, UnderWay
<1> QED BY <1>1, <1>2, <1>4, <1>5, QueryStep DEF Inv, Shapes, History

\* The list is computed at the present block.
LEMMA ReadOutputsInv ==
    ASSUME Inv, NEW q \in Queries, ReadOutputs(q)
    PROVE  Inv'
<1>1. PICK past : History(past)
  BY DEF Inv
<1> DEFINE w == queries[q]
           list == [outputs |-> UnspentIn(mined), at |-> best]
           x == [w EXCEPT !.pc = "list", !.list = list]
<1>2. Becomes(q, x) /\ UNCHANGED <<bitcoind, cache>> /\ w.pc = "outputs"
  BY DEF ReadOutputs
<1>3. w \in Records /\ Told(past, best, pool \union mined, mined, w)
  BY <1>1 DEF Inv, Shapes, History
<1>4. list \in Lists /\ list.outputs = UnspentIn(mined) /\ list.at = best
  <2>1. UnspentIn(mined) \in SUBSET Outputs /\ best \in Nat
    BY OutputSets DEF Inv, Shapes
  <2> QED BY <2>1 DEF Lists
<1> HIDE DEF w, list
<1>5. /\ x \in Records /\ x.pc = "list" /\ x.list = list
      /\ x.deltas = w.deltas /\ x.readAt = w.readAt /\ x.cached = w.cached
      /\ x.then = w.then /\ x.unspent = w.unspent /\ x.spent = w.spent
      /\ x.mempool = w.mempool /\ x.replaced = w.replaced
  BY <1>3, <1>4 DEF Records, PCs
<1> HIDE DEF x
<1>6. past[best] = mined /\ best \in 1..best /\ best # 0
  BY <1>1 DEF History, Inv, Shapes
<1>7. x.unspent \intersect SpentIn(mined) = {}
  BY <1>2, <1>3, <1>5 DEF Told, NowTold, UnderWay, UnspentIn, SpentIn, MadeIn
<1>8. Told(past, best, pool \union mined, mined, x)
  BY <1>2, <1>3, <1>4, <1>5, <1>6, <1>7
     DEF Told, ListTold, MempoolTold, NowTold, AskedTold, UnderWay
<1> QED BY <1>1, <1>2, <1>5, <1>8, QueryStep DEF Inv, Shapes, History

\* It arrives, and is cached for the queries to come.
LEMMA OutputsArriveInv ==
    ASSUME Inv, NEW q \in Queries, OutputsArrive(q)
    PROVE  Inv'
<1>1. PICK past : History(past)
  BY DEF Inv
<1> DEFINE w == queries[q]
           x == [w EXCEPT !.pc = "done"]
<1>2. Becomes(q, x) /\ UNCHANGED bitcoind /\ cache' = w.list /\ w.pc = "list"
  BY DEF OutputsArrive
<1>3. w \in Records /\ Told(past, best, pool \union mined, mined, w)
  BY <1>1 DEF Inv, Shapes, History
<1> HIDE DEF w
<1>4. /\ x \in Records /\ x.pc = "done" /\ x.list = w.list
      /\ x.deltas = w.deltas /\ x.readAt = w.readAt /\ x.cached = w.cached
      /\ x.then = w.then /\ x.unspent = w.unspent /\ x.spent = w.spent
      /\ x.mempool = w.mempool /\ x.replaced = w.replaced
  BY <1>3 DEF Records, PCs
<1> HIDE DEF x
<1>5. Told(past, best, pool \union mined, mined, x)
  BY <1>2, <1>3, <1>4 DEF Told, ListTold, MempoolTold, NowTold, AskedTold, UnderWay
<1>6. cache' \in Lists /\ ListTold(past, best, cache')
  BY <1>2, <1>3 DEF Records, Told
<1> QED BY <1>1, <1>2, <1>4, <1>5, <1>6, QueryStep DEF Inv

\* An error ends the query.
LEMMA FailsInv ==
    ASSUME Inv, NEW q \in Queries, Fails(q)
    PROVE  Inv'
<1>1. PICK past : History(past)
  BY DEF Inv
<1>2. Becomes(q, Idle) /\ UNCHANGED <<bitcoind, cache>>
  BY DEF Fails
<1> QED BY <1>1, <1>2, IdleRecord, QueryStep DEF Inv, Shapes, History

\* The caches are reset some time after the block.
LEMMA TipUpdateInv ==
    ASSUME Inv, TipUpdate
    PROVE  Inv'
<1>1. PICK past : History(past)
  BY DEF Inv
<1>2. UNCHANGED <<pool, mined, last, best, queries>> /\ cache' = NoList
  BY DEF TipUpdate, bitcoind
<1>3. History(past)'
  BY <1>1, <1>2, IdleRecord DEF History
<1>4. Shapes'
  BY <1>2, IdleRecord DEF Inv, Shapes
<1> QED BY <1>3, <1>4 DEF Inv

\* One step per action.
LEMMA InvNext == Inv /\ [Next]_vars => Inv'
<1> SUFFICES ASSUME Inv, [Next]_vars PROVE Inv'
  OBVIOUS
<1>1. CASE \E t \in Txs : Relay(t)
  BY <1>1, RelayInv
<1>2. CASE Mine
  <2>1. PICK ts \in SUBSET pool : NewBlock(ts, mined, pool, FALSE)
    BY <1>2 DEF Mine
  <2> QED BY <2>1, NewBlockInv
<1>3. CASE Reorganise
  <2>1. PICK ts \in SUBSET (pool \union last) :
            NewBlock(ts, mined \ last, pool \union last, TRUE)
    BY <1>3 DEF Reorganise
  <2> QED BY <2>1, NewBlockInv
<1>4. CASE TipUpdate
  BY <1>4, TipUpdateInv
<1>5. CASE \E q \in Queries : Query(q)
  BY <1>5, AskInv, ReadMempoolInv, MempoolArrivesInv, ReadOutputsInv, OutputsArriveInv, FailsInv
     DEF Query
<1>6. CASE UNCHANGED vars
  BY <1>6 DEF vars, bitcoind, Inv, Shapes, History
<1> QED BY <1>1, <1>2, <1>3, <1>4, <1>5, <1>6 DEF Next, Chain

-----------------------------------------------------------------------------
(* What the answers say.                                                   *)

\* An answer whose parts are of one block is what was unspent then.
LEMMA OneMomentFollows == Inv => OneMoment
<1> SUFFICES ASSUME Inv, NEW q \in Queries,
                    queries[q].pc = "done", queries[q].mempool,
                    queries[q].list.at = queries[q].readAt
             PROVE  /\ Answer(q) = queries[q].then
                    /\ FromMempool(q) \intersect FromList(q) = {}
  BY DEF OneMoment
<1>1. PICK past : History(past)
  BY DEF Inv
<1> DEFINE x == queries[q]
           D == x.deltas
           M == past[x.readAt]
<1>2. /\ x.readAt # 0 /\ x.list.outputs = UnspentIn(M) /\ D \intersect M = {}
      /\ x.then = UnspentIn(D \union M) /\ Closed(M)
  BY <1>1 DEF History, Told, ListTold, MempoolTold
<1>3. FromMempool(q) = MadeIn(D) \ SpentIn(D) /\ FromList(q) = UnspentIn(M) \ SpentIn(D)
  BY <1>2 DEF FromMempool, FromList, SpentBy
<1> HIDE DEF x, D, M
<1> QED BY <1>2, <1>3 DEF Answer, UnspentIn, MadeIn, SpentIn, Closed, x

\* An answer that asked for its list has what was unspent all the time and nothing
\* that was spent all the time.
LEMMA NothingMissedFollows == Inv => NothingMissed
<1> SUFFICES ASSUME Inv, NEW q \in Queries,
                    queries[q].pc = "done", queries[q].mempool,
                    ~ queries[q].cached, ~ queries[q].replaced
             PROVE  /\ queries[q].unspent \subseteq Answer(q)
                    /\ Answer(q) \intersect queries[q].spent = {}
  BY DEF NothingMissed
<1>1. PICK past : History(past)
  BY DEF Inv
<1> DEFINE x == queries[q]
           D == x.deltas
           M == past[x.readAt]
           N == past[x.list.at]
<1>2. /\ x.readAt # 0 /\ D \intersect M = {} /\ Closed(M)
      /\ x.unspent \subseteq UnspentIn(D \union M) /\ x.spent \subseteq SpentIn(D \union M)
      /\ x.list.outputs = UnspentIn(N) /\ x.unspent \intersect SpentIn(N) = {} /\ M \subseteq N
  BY <1>1 DEF History, Told, ListTold, MempoolTold, AskedTold
<1>3. FromMempool(q) = MadeIn(D) \ SpentIn(D) /\ FromList(q) = UnspentIn(N) \ SpentIn(D)
  BY <1>2 DEF FromMempool, FromList, SpentBy
<1> HIDE DEF x, D, M, N
<1>4. x.unspent \subseteq Answer(q)
  BY <1>2, <1>3 DEF Answer, UnspentIn, MadeIn, SpentIn
<1>5. Answer(q) \intersect x.spent = {}
  BY <1>2, <1>3 DEF Answer, UnspentIn, MadeIn, SpentIn, Closed
<1> QED BY <1>4, <1>5 DEF x

\* Both parts of one block make an answer of one moment, with nothing listed twice,
\* for every set of transactions and however many queries share the cache.
THEOREM AnswersOfOneMoment == Spec => []OneMoment
<1> QED BY InvInit, InvNext, OneMomentFollows, PTL DEF Spec

\* Parts of different blocks miss nothing that was unspent from the beginning to the
\* end of the query, as long as no block was replaced and the list was asked for.
THEOREM AnswersMissNothing == Spec => []NothingMissed
<1> QED BY InvInit, InvNext, NothingMissedFollows, PTL DEF Spec

-----------------------------------------------------------------------------
(* The types.                                                              *)

\* What the history does not need: the caches trail bitcoind, and only a query that
\* found no list asks for one.
AsksIfUncached(x) == x.pc \in {"outputs", "list"} => ~ x.cached

RestOK ==
    /\ best \in 1..MaxBlocks /\ tip \in 1..best
    /\ \A q \in Queries : AsksIfUncached(queries[q])

\* At the beginning no query has begun.
LEMMA RestInit == Init => RestOK
BY OutputsAssumption DEF Init, RestOK, AsksIfUncached, Idle

\* A step of bitcoind leaves the tip behind, and no query asks because of it.
LEMMA RestSeen ==
    ASSUME RestOK, best' \in best..MaxBlocks, tip' = tip,
           NEW U, NEW S, NEW flag, Observed(U, S, flag), Shapes
    PROVE  RestOK'
<1>1. ASSUME NEW q \in Queries
      PROVE  queries'[q].pc = queries[q].pc /\ queries'[q].cached = queries[q].cached
  <2>1. queries[q] \in Records
    BY DEF Shapes
  <2> DEFINE seen == [queries[q] EXCEPT !.unspent = @ \intersect U, !.spent = @ \intersect S,
                                        !.replaced = @ \/ flag]
  <2>2. seen.pc = queries[q].pc /\ seen.cached = queries[q].cached
    BY <2>1 DEF Records
  <2>3. queries'[q] = IF Active(q) THEN seen ELSE queries[q]
    BY DEF Observed
  <2> QED BY <2>2, <2>3
<1>2. best' \in 1..MaxBlocks /\ tip' \in 1..best'
  BY OutputsAssumption DEF RestOK
<1> QED BY <1>1, <1>2 DEF RestOK, AsksIfUncached

\* A step of one query leaves both blocks alone.
LEMMA RestQuery ==
    ASSUME RestOK, Shapes, NEW q \in Queries, NEW x, Becomes(q, x), AsksIfUncached(x),
           UNCHANGED <<bitcoind, tip>>
    PROVE  RestOK'
<1>1. \A p \in Queries : queries'[p] = IF p = q THEN x ELSE queries[p]
  BY DEF Shapes, Becomes
<1>2. best' = best /\ tip' = tip
  BY DEF bitcoind
<1> QED BY <1>1, <1>2 DEF RestOK

\* One step per action.
LEMMA RestNext == Inv /\ RestOK /\ [Next]_vars => RestOK'
<1> SUFFICES ASSUME Shapes, RestOK, [Next]_vars PROVE RestOK'
  BY DEF Inv
<1>0. best \in 1..MaxBlocks /\ MaxBlocks \in Nat /\ \A q \in Queries : queries[q] \in Records
  BY OutputsAssumption DEF RestOK, Shapes
<1>1. ASSUME NEW t \in Txs, Relay(t) PROVE RestOK'
  <2>1. /\ best' = best /\ tip' = tip
        /\ Observed(UnspentIn(pool' \union mined), SpentIn(pool' \union mined), FALSE)
    BY <1>1 DEF Relay
  <2>2. best' \in best..MaxBlocks
    BY <1>0, <2>1
  <2> QED BY <2>1, <2>2, RestSeen
<1>2. ASSUME NEW ts, NEW base, NEW waiting, NEW flag, NewBlock(ts, base, waiting, flag)
      PROVE  RestOK'
  <2>1. /\ best' \in best..MaxBlocks /\ tip' = tip
        /\ Observed(UnspentIn(pool' \union mined'), SpentIn(pool' \union mined'), flag)
    BY <1>0, <1>2 DEF NewBlock
  <2> QED BY <2>1, RestSeen
<1>3. CASE TipUpdate
  BY <1>0, <1>3 DEF TipUpdate, bitcoind, RestOK
<1>4. ASSUME NEW q \in Queries, NEW withMempool \in BOOLEAN, Ask(q, withMempool) PROVE RestOK'
  <2> DEFINE cached == cache # NoList
             U == UnspentIn(pool \union mined)
             S == SpentIn(pool \union mined)
             x == [Idle EXCEPT
                !.pc = IF withMempool THEN "mempool" ELSE IF cached THEN "done" ELSE "outputs",
                !.mempool = withMempool, !.list = cache, !.cached = cached,
                !.unspent = U, !.spent = S]
  <2>1. Becomes(q, x) /\ UNCHANGED <<bitcoind, tip>>
    BY <1>4 DEF Ask
  <2>2. AsksIfUncached(x)
    <3>1. x.cached = cached
      BY DEF Idle
    <3>2. x.pc = IF withMempool THEN "mempool" ELSE IF cached THEN "done" ELSE "outputs"
      BY DEF Idle
    <3> HIDE DEF x, cached
    <3> QED BY <3>1, <3>2 DEF AsksIfUncached
  <2> HIDE DEF x
  <2> QED BY <2>1, <2>2, RestQuery
<1>5. ASSUME NEW q \in Queries,
             ReadMempool(q) \/ MempoolArrives(q) \/ ReadOutputs(q) \/ OutputsArrive(q) \/ Fails(q)
      PROVE  RestOK'
  <2>1. queries[q] \in Records /\ AsksIfUncached(queries[q])
    BY <1>0 DEF RestOK
  <2>2. CASE ReadMempool(q)
    <3> DEFINE U == UnspentIn(pool \union mined)
               x == [queries[q] EXCEPT !.pc = "deltas", !.deltas = pool, !.readAt = best,
                                       !.then = U]
    <3>1. Becomes(q, x) /\ UNCHANGED <<bitcoind, tip>>
      BY <2>2 DEF ReadMempool
    <3>2. x.pc = "deltas"
      BY <2>1 DEF Records
    <3> HIDE DEF x
    <3> QED BY <3>1, <3>2, RestQuery DEF AsksIfUncached
  <2>3. CASE MempoolArrives(q)
    <3> DEFINE x == [queries[q] EXCEPT !.pc = AfterMempool(queries[q])]
    <3>1. Becomes(q, x) /\ UNCHANGED <<bitcoind, tip>>
      BY <2>3 DEF MempoolArrives
    <3>2. AsksIfUncached(x)
      BY <2>1 DEF Records, AsksIfUncached, AfterMempool
    <3> HIDE DEF x
    <3> QED BY <3>1, <3>2, RestQuery
  <2>4. CASE ReadOutputs(q)
    <3> DEFINE list == [outputs |-> UnspentIn(mined), at |-> best]
               x == [queries[q] EXCEPT !.pc = "list", !.list = list]
    <3>1. Becomes(q, x) /\ UNCHANGED <<bitcoind, tip>> /\ queries[q].pc = "outputs"
      BY <2>4 DEF ReadOutputs
    <3>2. AsksIfUncached(x)
      <4> HIDE DEF list
      <4> QED BY <2>1, <3>1 DEF Records, AsksIfUncached
    <3> HIDE DEF x
    <3> QED BY <3>1, <3>2, RestQuery
  <2>5. CASE OutputsArrive(q)
    <3> DEFINE x == [queries[q] EXCEPT !.pc = "done"]
    <3>1. Becomes(q, x) /\ UNCHANGED <<bitcoind, tip>>
      BY <2>5 DEF OutputsArrive
    <3>2. x.pc = "done"
      BY <2>1 DEF Records
    <3> HIDE DEF x
    <3> QED BY <3>1, <3>2, RestQuery DEF AsksIfUncached
  <2>6. CASE Fails(q)
    <3>1. Becomes(q, Idle) /\ UNCHANGED <<bitcoind, tip>> /\ AsksIfUncached(Idle)
      BY <2>6 DEF Fails, AsksIfUncached, Idle
    <3> QED BY <3>1, RestQuery
  <2> QED BY <1>5, <2>2, <2>3, <2>4, <2>5, <2>6
<1>6. CASE UNCHANGED vars
  BY <1>6 DEF vars, bitcoind, RestOK
<1> QED BY <1>1, <1>2, <1>3, <1>4, <1>5, <1>6 DEF Next, Chain, Query, Mine, Reorganise

\* The types and the facts of the history give the type invariant.
LEMMA TypesFollow == Inv /\ RestOK => TypeOK
<1> SUFFICES ASSUME Inv, RestOK PROVE TypeOK
  OBVIOUS
<1>1. PICK past : History(past)
  BY DEF Inv
<1>2. \A t \in pool \union mined : Parents(t) \subseteq pool \union mined
  BY DEF Inv, Shapes, Closed, Parents
<1>3. cache.outputs \subseteq Outputs /\ cache.at \in 0..best
  <2>1. cache.outputs \subseteq Outputs /\ cache.at \in Nat /\ best \in Nat
    BY DEF Inv, Shapes, Lists
  <2>2. cache.at # 0 => cache.at \in 1..best
    BY <1>1 DEF History, ListTold
  <2> QED BY <2>1, <2>2
<1>4. ASSUME NEW q \in Queries
      PROVE  /\ queries[q].pc \in PCs
             /\ queries[q].deltas \subseteq Txs /\ queries[q].list.outputs \subseteq Outputs
  BY DEF Inv, Shapes, Records, Lists
<1>5. pool \subseteq Txs /\ mined \subseteq Txs \ pool /\ last \subseteq mined
  BY DEF Inv, Shapes
<1> QED BY <1>2, <1>3, <1>4, <1>5 DEF TypeOK, RestOK, AsksIfUncached, PCs

\* Every variable keeps its type; bitcoind has the parents of every transaction it has,
\* also after the last block is replaced, the cached list is of no block to come, and
\* only a query that found no list asks for one.
THEOREM TypeCorrect == Spec => []TypeOK
<1>1. Inv /\ RestOK /\ [Next]_vars => Inv' /\ RestOK'
  BY InvNext, RestNext
<1> QED BY <1>1, InvInit, RestInit, TypesFollow, PTL DEF Spec
=============================================================================
