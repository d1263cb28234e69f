---------------------------- MODULE UnspentOutputs ----------------------------
(***************************************************************************)
(* getAddressUnspentOutputs of services/bitcoind.js for one address: the    *)
(* answer is put together from two calls of bitcoind, first what its        *)
(* mempool does to the address, then its confirmed unspent outputs.  The   *)
(* second is cached until the next tip, and a query looks into the cache   *)
(* when it begins, before it waits for the first.                          *)
(***************************************************************************)
EXTENDS Integers, FiniteSets

CONSTANTS
    Outputs, Txs,
    Maker,        \* the transaction of an output,
    Spender,      \* and the one that spends it, if any
    Confirmed,    \* transactions confirmed at the beginning
    Queries,
    MaxBlocks     \* bound

ASSUME OutputsAssumption ==
    /\ Maker \in [Outputs -> Txs] /\ Spender \in [Outputs -> Txs \union {"none"}]
    /\ Confirmed \subseteq Txs /\ "none" \notin Txs
    /\ \A o \in Outputs : Spender[o] \in Confirmed => Maker[o] \in Confirmed
    /\ MaxBlocks \in Nat \ {0}

Parents(t) == {Maker[o] : o \in {x \in Outputs : Spender[x] = t}}

VARIABLES
    pool, mined,  \* of bitcoind: transactions in the mempool and in blocks,
    last,         \* those of the last block that may be replaced,
    best,         \* and the number of the best block
    tip,          \* the block the caches were last reset for
    cache,        \* utxosCache
    queries

bitcoind == <<pool, mined, last, best>>
vars == <<bitcoind, tip, cache, queries>>

\* A list of confirmed outputs, and the block it was computed at
NoList == [outputs |-> {}, at |-> 0]

\* `list`: the list the query found or received; `deltas`: the transactions the
\* mempool answered with.  History: the block and the unspent outputs when the
\* mempool was read; the outputs that were unspent, and those that were spent,
\* all the time since the query began; whether a block was replaced meanwhile.
Idle == [pc |-> "idle", mempool |-> TRUE, list |-> NoList, cached |-> FALSE, deltas |-> {},
         readAt |-> 0, then |-> {}, unspent |-> {}, spent |-> {}, replaced |-> FALSE]

-----------------------------------------------------------------------------
MadeIn(ts) == {o \in Outputs : Maker[o] \in ts}
SpentIn(ts) == {o \in Outputs : Spender[o] \in ts}
UnspentIn(ts) == MadeIn(ts) \ SpentIn(ts)

Init ==
    /\ pool = {} /\ mined = Confirmed /\ last = {} /\ best = 1
    /\ tip = 1 /\ cache = NoList
    /\ queries = [q \in Queries |-> Idle]

Active(q) == queries[q].pc \notin {"idle", "done"}

\* The history of the queries under way
Observed(unspentNow, spentNow, replaces) ==
    queries' = [q \in Queries |->
        IF Active(q) THEN [queries[q] EXCEPT !.unspent = @ \intersect unspentNow,
                                             !.spent = @ \intersect spentNow,
                                             !.replaced = @ \/ replaces]
        ELSE queries[q]]

-----------------------------------------------------------------------------
(* bitcoind.                                                               *)

Relay(t) ==
    /\ t \in Txs \ (pool \union mined) /\ Parents(t) \subseteq pool \union mined
    /\ pool' = pool \union {t}
    /\ Observed(UnspentIn(pool' \union mined), SpentIn(pool' \union mined), FALSE)
    /\ UNCHANGED <<mined, last, best, tip, cache>>

\* A block with the transactions `ts` on top of the chain, or in place of the
\* last block, whose other transactions go back to the mempool.
NewBlock(ts, base, waiting, replaces) ==
    /\ best < MaxBlocks /\ best' = best + 1
    /\ \A t \in ts : Parents(t) \subseteq base \union ts
    /\ mined' = base \union ts /\ last' = ts /\ pool' = waiting \ ts
    /\ Observed(UnspentIn(pool' \union mined'), SpentIn(pool' \union mined'), replaces)
    /\ UNCHANGED <<tip, cache>>

Mine == \E ts \in SUBSET pool : NewBlock(ts, mined, pool, FALSE)
Reorganise == /\ last # {}
              /\ \E ts \in SUBSET (pool \union last) :
                    NewBlock(ts, mined \ last, pool \union last, TRUE)

\* _updateTip, some time after the block
TipUpdate ==
    /\ tip < best
    /\ tip' = best /\ cache' = NoList
    /\ UNCHANGED <<bitcoind, queries>>

-----------------------------------------------------------------------------
(* A query.                                                                *)

Becomes(q, query) == queries' = [queries EXCEPT ![q] = query]

\* What the answer holds: the outputs the mempool makes, then the confirmed ones,
\* both without those the mempool spends.
SpentByTx(ts) == {o \in Outputs : \E x \in SpentIn(ts) : Maker[x] = Maker[o]}  \* mutant: without the index
SpentBy(ts) == SpentIn(ts)
FromMempool(q) == MadeIn(queries[q].deltas) \ SpentBy(queries[q].deltas)
ListUnfiltered(q) == queries[q].list.outputs  \* mutant: only what the mempool makes is filtered
FromList(q) == queries[q].list.outputs \ SpentBy(queries[q].deltas)
Answer(q) == FromMempool(q) \union FromList(q)

Ask(q, withMempool) ==
    /\ ~ Active(q)
    /\ LET cached == cache # NoList
       IN  Becomes(q, [Idle EXCEPT
              !.pc = IF withMempool THEN "mempool" ELSE IF cached THEN "done" ELSE "outputs",
              !.mempool = withMempool, !.list = cache, !.cached = cached,
              !.unspent = UnspentIn(pool \union mined), !.spent = SpentIn(pool \union mined)])
    /\ UNCHANGED <<bitcoind, tip, cache>>

\* bitcoind computes what the mempool does to the address ...
ReadMempool(q) ==
    /\ queries[q].pc = "mempool"
    /\ Becomes(q, [queries[q] EXCEPT !.pc = "deltas", !.deltas = pool, !.readAt = best,
                                     !.then = UnspentIn(pool \union mined)])
    /\ UNCHANGED <<bitcoind, tip, cache>>

AsksAgain(query) == "outputs"  \* mutant: the cache is not used
AfterMempool(query) == IF query.cached THEN "done" ELSE "outputs"

\* ... and the answer arrives: finish.
MempoolArrives(q) ==
    /\ queries[q].pc = "deltas"
    /\ Becomes(q, [queries[q] EXCEPT !.pc = AfterMempool(queries[q])])
    /\ UNCHANGED <<bitcoind, tip, cache>>

ReadOutputs(q) ==
    /\ queries[q].pc = "outputs"
    /\ Becomes(q, [queries[q] EXCEPT !.pc = "list",
                                     !.list = [outputs |-> UnspentIn(mined), at |-> best]])
    /\ UNCHANGED <<bitcoind, tip, cache>>

OutputsArrive(q) ==
    /\ queries[q].pc = "list"
    /\ cache' = queries[q].list
    /\ Becomes(q, [queries[q] EXCEPT !.pc = "done"])
    /\ UNCHANGED <<bitcoind, tip>>

\* An error of either call is the answer.
Fails(q) ==
    /\ queries[q].pc \in {"mempool", "outputs"}
    /\ Becomes(q, Idle)
    /\ UNCHANGED <<bitcoind, tip, cache>>

-----------------------------------------------------------------------------
Chain == (\E t \in Txs : Relay(t)) \/ Mine \/ Reorganise
Query(q) == \/ \E withMempool \in BOOLEAN : Ask(q, withMempool)
            \/ ReadMempool(q) \/ MempoolArrives(q) \/ ReadOutputs(q) \/ OutputsArrive(q) \/ Fails(q)

Next == Chain \/ TipUpdate \/ \E q \in Queries : Query(q)

Spec == Init /\ [][Next]_vars

-----------------------------------------------------------------------------
\* Every variable keeps its type, bitcoind spends what was made, and only a query
\* that found no list asks for one.
TypeOK ==
    /\ pool \subseteq Txs /\ mined \subseteq Txs \ pool /\ last \subseteq mined
    /\ \A t \in pool \union mined : Parents(t) \subseteq pool \union mined
    /\ best \in 1..MaxBlocks /\ tip \in 1..best
    /\ cache.outputs \subseteq Outputs /\ cache.at \in 0..best
    /\ \A q \in Queries :
          /\ queries[q].pc \in {"idle", "mempool", "deltas", "outputs", "list", "done"}
          /\ queries[q].pc \in {"outputs", "list"} => ~ queries[q].cached
          /\ queries[q].deltas \subseteq Txs /\ queries[q].list.outputs \subseteq Outputs

\* When both parts of an answer are of the same block, cached or not, the answer is
\* what was unspent when the mempool was read, and lists nothing twice.
OneMoment ==
    \A q \in Queries :
        (queries[q].pc = "done" /\ queries[q].mempool /\ queries[q].list.at = queries[q].readAt)
            => /\ Answer(q) = queries[q].then
               /\ FromMempool(q) \intersect FromList(q) = {}

\* An answer that did not use the cache misses no output that was unspent all the
\* time, and has none that was spent all the time, though a block move transactions
\* from the mempool to the chain between the two calls.
NothingMissed ==
    \A q \in Queries :
        (queries[q].pc = "done" /\ queries[q].mempool
            /\ ~ queries[q].cached /\ ~ queries[q].replaced)
            => queries[q].unspent \subseteq Answer(q) /\ Answer(q) \intersect queries[q].spent = {}
=============================================================================
