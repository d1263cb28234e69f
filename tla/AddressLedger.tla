---------------------------- MODULE AddressLedger ----------------------------
(***************************************************************************)
(* The address ledger of the explorer: the MongoDB collections that        *)
(* bitcore-node/lib/services/MongoDBGetAddressTransaction.js keeps in step  *)
(* with the block chain of bitcoind.                                       *)
(*                                                                         *)
(* One process walks the chain from a persisted cursor and posts every     *)
(* input and output to the document of its address, in two writes: the sum *)
(* in `address`, then a record in `txInput` or `txOutput` that makes the   *)
(* posting idempotent.  Every minute it looks for recorded blocks the chain *)
(* no longer holds, takes their postings back (record first, sum second)    *)
(* and posts the block that now has their height.  The chain moves, reads   *)
(* of bitcoind fail, the process dies between any two writes, and the      *)
(* writes nobody waits for land late or, in a crash, never.                *)
(*                                                                         *)
(* Sums are kept as counts: amount[d] says how many times the value of     *)
(* record d is in the sum of its address, so                                *)
(* Received = sum of amount[d] * d.value over the output records d of the   *)
(* address, and Sented the same over its input records.                     *)
(***************************************************************************)
EXTENDS Integers, Sequences, FiniteSets

CONSTANTS
    TxIds,         \* transaction ids
    Addrs,         \* addresses; a script without one has NoAddr
    NoAddr,
    Plan,          \* Plan[t]: the inputs, then the outputs, of transaction t
    Blocks,        \* block hashes
    BlockTxs,      \* BlockTxs[b]: the transaction ids of block b, in order
    HeightOf,      \* HeightOf[b]: the height of block b
    InitChain,     \* the best chain at the start: position = height, without the genesis block
    Chains,        \* the best chains bitcoind may ever report
    Window,        \* 300 in the code: how many block documents are kept
    RawFetchable,  \* transactions an API client may ask for in raw form
    NoDoc,         \* no record
    SlowWrites,    \* whether a write nobody waits for may take longer than a minute
    MaxReorgs,     \* bounds on what the environment does
    MaxCrashes,
    MaxFaults

Sides == {"in", "out"}

\* One element of vin or vout: `ref` is the transaction whose output it names
\* (prevTxid for an input, the transaction itself for an output) and `n` the
\* number of that output.
Entry == [side: Sides, tx: TxIds, ref: TxIds, n: Nat,
          addr: Addrs \union {NoAddr}, value: Nat, unlock: Nat]

ASSUME PlanAssumption ==
    /\ NoAddr \notin Addrs
    /\ Plan \in [TxIds -> Seq(Entry)]
    /\ \A t \in TxIds : \A i \in 1..Len(Plan[t]) :
          /\ Plan[t][i].tx = t
          /\ Plan[t][i].side = "out" => Plan[t][i].ref = t

ASSUME ChainAssumption ==
    /\ BlockTxs \in [Blocks -> Seq(TxIds)]
    /\ HeightOf \in [Blocks -> Nat \ {0}]
    /\ Chains \subseteq Seq(Blocks)
    /\ InitChain \in Chains
    /\ \A c \in Chains : \A i \in 1..Len(c) : HeightOf[c[i]] = i

ASSUME BoundAssumption ==
    /\ Window \in Nat \ {0, 1}
    /\ RawFetchable \subseteq TxIds
    /\ SlowWrites \in BOOLEAN
    /\ MaxReorgs \in Nat /\ MaxCrashes \in Nat /\ MaxFaults \in Nat

-----------------------------------------------------------------------------
(* The documents of txInput and txOutput, and the pointers of `address`.   *)

\* A zero value or a script without address is skipped.
Valid(e) == e.value # 0 /\ e.addr # NoAddr

AllEntries == UNION {{Plan[t][i] : i \in 1..Len(Plan[t])} : t \in TxIds}
Entries == {e \in AllEntries : Valid(e)}

\* The record is what the existence query matches: for an input it lacks the
\* number of the output spent.
Doc(e) ==
    IF e.side = "in"
    THEN [side |-> "in", txid |-> e.tx, prevTxid |-> e.ref,
          value |-> e.value, address |-> e.addr]
    ELSE [side |-> "out", txid |-> e.tx, outputIndex |-> e.n,
          value |-> e.value, address |-> e.addr]

Docs == {Doc(e) : e \in Entries}

\* inputIndex and outputIndex of an address: the output posted last.
IndexOf(e) == <<e.n, e.ref>>
NoIndex == <<-1, "_">>
Indexes == {IndexOf(e) : e \in Entries} \union {NoIndex}

Locked(e, height) == e.side = "out" /\ e.unlock > height

\* array.splice(array.indexOf(x), 1), for arrays that hold x at most once
Spliced(s, x) ==
    IF \E i \in 1..Len(s) : s[i] = x
    THEN LET i == CHOOSE j \in 1..Len(s) : s[j] = x
         IN  SubSeq(s, 1, i - 1) \o SubSeq(s, i + 1, Len(s))
    ELSE s

Elements(s) == {s[i] : i \in 1..Len(s)}
InSeq(x, s) == x \in Elements(s)

Zero == [d \in Docs |-> 0]
NoFlight == [blockIn |-> {}, blockOut |-> {}, lockIn |-> Zero, lockOut |-> Zero]
NoWrite == -1

-----------------------------------------------------------------------------
VARIABLES
    \* bitcoind and the environment
    chain, reorgs, crashes, faults,
    \* MongoDB
    cursor,       \* `block`, the document with id 1
    blockDocs,    \* `block`, the others, in insertion order
    recorded,     \* `txInput` and `txOutput`
    lockDocs,     \* `lockedTx`: how many documents per output record
    amount,       \* `address`: Sented and Received, as counts
    last,         \* `address`: inputIndex and outputIndex
    txs,          \* `address`: txs, the newest first
    locked,       \* `address`: lockedValue, the principals in it
    interest,     \*   ... and how often addMany was subtracted from it
    \* writes issued and not yet applied
    cursorWrite, flight,
    \* the process
    rawCached,    \* transactions rawTransactionCache holds in raw form
    pc, mode,     \* where the walk is, and whether it syncs or clears
    ready,        \* 'ready' was emitted
    info,         \* the timer holds a heightInfo object
    db, goal,     \* heightInfo.dbHeight and heightInfo.blockHeight
    work,         \* the transactions of the block not handled yet
    todo,         \* the inputs and outputs of the transaction not handled yet
    stale,        \* the block documents clearErrorData has not looked at yet
    undo,         \* the records of the transaction still to take back
    doc,          \* the record removed whose sum is not yet corrected
    lockSeen      \* the lockedTx documents found for it

env     == <<chain, reorgs, crashes, faults>>
records == <<recorded, lockDocs>>
book    == <<amount, last, txs, locked, interest>>
writes  == <<cursor, cursorWrite, blockDocs, flight>>
process == <<pc, mode, ready, info, db, goal, work, todo, stale, undo, doc, lockSeen>>
vars    == <<env, records, book, writes, rawCached, process>>

Init ==
    /\ chain = InitChain /\ reorgs = 0 /\ crashes = 0 /\ faults = 0
    /\ cursor = 0 /\ blockDocs = <<>> /\ recorded = {} /\ lockDocs = Zero
    /\ amount = Zero /\ locked = Zero /\ interest = Zero
    /\ last = [s \in Sides |-> [a \in Addrs |-> NoIndex]]
    /\ txs = [a \in Addrs |-> <<>>]
    /\ cursorWrite = NoWrite /\ flight = NoFlight
    /\ rawCached = {}
    /\ pc = "begin" /\ mode = "sync" /\ ready = FALSE /\ info = TRUE
    /\ db = 0 /\ goal = 0
    /\ work = <<>> /\ todo = <<>> /\ stale = <<>>
    /\ undo = {} /\ doc = NoDoc /\ lockSeen = Zero

-----------------------------------------------------------------------------
(* The environment.                                                        *)

IsPrefixOf(c, d) == Len(c) <= Len(d) /\ \A i \in 1..Len(c) : c[i] = d[i]

Mine ==
    /\ \E c \in Chains : c # chain /\ IsPrefixOf(chain, c) /\ chain' = c
    /\ UNCHANGED <<reorgs, crashes, faults, records, book, writes, rawCached, process>>

\* The best chain never loses length, but may lose blocks.
Reorganize ==
    /\ reorgs < MaxReorgs
    /\ \E c \in Chains : /\ Len(c) >= Len(chain) /\ ~ IsPrefixOf(chain, c)
                         /\ chain' = c
    /\ reorgs' = reorgs + 1
    /\ UNCHANGED <<crashes, faults, records, book, writes, rawCached, process>>

\* getRawTransaction leaves a Buffer in rawTransactionCache, where
\* getRawTransactionJson will find it.
FetchRaw ==
    /\ pc # "down"
    /\ \E t \in RawFetchable \ rawCached : rawCached' = rawCached \union {t}
    /\ UNCHANGED <<env, records, book, writes, process>>

\* The process is gone, and with it everything it had not persisted.
Stop ==
    /\ pc' = "down" /\ mode' = "sync" /\ ready' = FALSE /\ info' = TRUE
    /\ db' = 0 /\ goal' = 0
    /\ work' = <<>> /\ todo' = <<>> /\ stale' = <<>>
    /\ undo' = {} /\ doc' = NoDoc /\ lockSeen' = Zero
    /\ cursorWrite' = NoWrite /\ flight' = NoFlight /\ rawCached' = {}
    /\ UNCHANGED <<cursor, blockDocs, records, book>>

Crash ==
    /\ crashes < MaxCrashes
    /\ pc # "down"
    /\ crashes' = crashes + 1
    /\ Stop
    /\ UNCHANGED <<chain, reorgs, faults>>

Restart ==
    /\ pc = "down"
    /\ pc' = "begin"
    /\ UNCHANGED <<env, records, book, writes, rawCached, mode, ready, info, db, goal,
                   work, todo, stale, undo, doc, lockSeen>>

\* An RPC that fails costs one fault.
Fault == faults < MaxFaults /\ faults' = faults + 1

-----------------------------------------------------------------------------
(* Writes nobody waits for.                                                *)

\* Successive updates of the cursor document are applied in order.
IssueCursor(h) ==
    /\ cursor' = IF cursorWrite = NoWrite THEN cursor ELSE cursorWrite
    /\ cursorWrite' = h

DeliverCursor ==
    /\ cursorWrite # NoWrite
    /\ cursor' = cursorWrite /\ cursorWrite' = NoWrite
    /\ UNCHANGED <<env, records, book, blockDocs, flight, rawCached, process>>

\* find by hash; when absent insert, and drop the oldest document if the list,
\* read before or after the insert, is full.
InsertedByHeight(b) ==  \* mutant: looks the block up by its height
    IF \E x \in Elements(blockDocs) : HeightOf[x] = HeightOf[b]
    THEN {blockDocs} ELSE {Append(blockDocs, b)}

Inserted(b) ==
    IF InSeq(b, blockDocs)
    THEN {blockDocs}
    ELSE {Append(IF Len(blockDocs) + seen >= Window /\ blockDocs # <<>>
                 THEN Tail(blockDocs) ELSE blockDocs, b) : seen \in {0, 1}}

DeliverBlockIn ==
    /\ \E b \in flight.blockIn :
          /\ blockDocs' \in Inserted(b)
          /\ flight' = [flight EXCEPT !.blockIn = @ \ {b}]
    /\ UNCHANGED <<env, records, book, cursor, cursorWrite, rawCached, process>>

DeliverBlockOut ==
    /\ \E b \in flight.blockOut :
          /\ blockDocs' = Spliced(blockDocs, b)
          /\ flight' = [flight EXCEPT !.blockOut = @ \ {b}]
    /\ UNCHANGED <<env, records, book, cursor, cursorWrite, rawCached, process>>

DeliverLockIn ==
    /\ \E d \in Docs :
          /\ flight.lockIn[d] > 0
          /\ lockDocs' = [lockDocs EXCEPT ![d] = @ + 1]
          /\ flight' = [flight EXCEPT !.lockIn[d] = @ - 1]
    /\ UNCHANGED <<env, recorded, book, cursor, cursorWrite, blockDocs, rawCached, process>>

\* The documents found when the removal was issued, and no later ones.
DeliverLockOut ==
    /\ \E d \in Docs :
          /\ flight.lockOut[d] > 0
          /\ lockDocs' = [lockDocs EXCEPT ![d] = @ - flight.lockOut[d]]
          /\ flight' = [flight EXCEPT !.lockOut[d] = 0]
    /\ UNCHANGED <<env, recorded, book, cursor, cursorWrite, blockDocs, rawCached, process>>

Deliver == \/ DeliverCursor \/ DeliverBlockIn \/ DeliverBlockOut
           \/ DeliverLockIn \/ DeliverLockOut

-----------------------------------------------------------------------------
(* synchroizedBlockAdressTxToMongoDB: walk from the cursor to the tip.     *)

\* The cursor is written ahead of the block, so the block under it is redone.
ResumeAtCursor(height) == height       \* mutant: trusts the cursor block
ResumeUnguarded(height) == height - 1  \* mutant: no lower bound
ResumeFromGenesis(height) == 0         \* mutant: walks the whole chain again
ResumeHeight(height) == IF height > 0 THEN height - 1 ELSE 0

ReadHeights ==
    /\ pc = "begin"
    /\ db' = ResumeHeight(cursor) /\ goal' = Len(chain)
    /\ mode' = "sync" /\ pc' = "loop"
    /\ UNCHANGED <<env, records, book, writes, rawCached, ready, info,
                   work, todo, stale, undo, doc, lockSeen>>

\* Both reads `return err` instead of calling back: nothing runs any more.
ReadHeightsFails ==
    /\ pc = "begin" /\ Fault
    /\ pc' = "dead"
    /\ UNCHANGED <<chain, reorgs, crashes, records, book, writes, rawCached, mode, ready,
                   info, db, goal, work, todo, stale, undo, doc, lockSeen>>

NextBlock ==
    /\ pc = "loop" /\ goal > db
    /\ db' = db + 1
    /\ IssueCursor(db + 1)
    /\ pc' = "fetch"
    /\ UNCHANGED <<env, records, book, blockDocs, flight, rawCached, mode, ready, info, goal,
                   work, todo, stale, undo, doc, lockSeen>>

SyncDone ==
    /\ pc = "loop" /\ goal <= db
    /\ IssueCursor(goal)
    /\ ready' = TRUE /\ info' = TRUE
    /\ pc' = "idle"
    /\ UNCHANGED <<env, records, book, blockDocs, flight, rawCached, mode, db, goal,
                   work, todo, stale, undo, doc, lockSeen>>

-----------------------------------------------------------------------------
(* processBlockByHeight: post the block at heightInfo.dbHeight.            *)

FetchBlock ==
    /\ pc = "fetch" /\ db \in 1..Len(chain)
    /\ work' = BlockTxs[chain[db]]
    /\ flight' = [flight EXCEPT !.blockIn = @ \union {chain[db]}]
    /\ pc' = "entry"
    /\ UNCHANGED <<env, records, book, cursor, cursorWrite, blockDocs, rawCached, mode, ready,
                   info, db, goal, todo, stale, undo, doc, lockSeen>>

\* clearErrorData gives up until the next tick, and the timer is armed again
\* without a heightInfo.
Abort ==
    /\ pc' = "idle" /\ info' = FALSE
    /\ work' = <<>> /\ todo' = <<>> /\ stale' = <<>>
    /\ UNCHANGED <<records, book, writes, rawCached, mode, ready, db, goal,
                   undo, doc, lockSeen>>

\* The height is gone or the RPC fails.  The sync has no callback to report it
\* to and throws, which ends the process.
FetchBlockFails ==
    /\ pc = "fetch"
    /\ \/ db > Len(chain) /\ UNCHANGED faults
       \/ Fault
    /\ IF mode = "clear" THEN Abort ELSE Stop
    /\ UNCHANGED <<chain, reorgs, crashes>>

\* A transaction cached in raw form has neither vin nor vout.
NextTx ==
    /\ pc = "entry" /\ todo = <<>> /\ work # <<>>
    /\ todo' = IF Head(work) \in rawCached THEN <<>> ELSE Plan[Head(work)]
    /\ work' = Tail(work)
    /\ UNCHANGED <<env, records, book, writes, rawCached, pc, mode, ready, info, db, goal,
                   stale, undo, doc, lockSeen>>

\* The handler goes on after reporting the error and reads a field of an
\* undefined transaction.
NextTxFails ==
    /\ pc = "entry" /\ todo = <<>> /\ work # <<>> /\ Head(work) \notin rawCached
    /\ Fault
    /\ Stop
    /\ UNCHANGED <<chain, reorgs, crashes>>

SkipEntry ==
    /\ pc = "entry" /\ todo # <<>>
    /\ LET e == Head(todo) IN ~ Valid(e) \/ Doc(e) \in recorded
    /\ todo' = Tail(todo)
    /\ UNCHANGED <<env, records, book, writes, rawCached, pc, mode, ready, info, db, goal, work,
                   stale, undo, doc, lockSeen>>

NeverLast(e) == FALSE  \* mutant: the index is not consulted
LastByNumber(e) ==  \* mutant: compares the number of the output only
    last[e.side][e.addr][1] = e.n
AlreadyLast(e) == last[e.side][e.addr] = IndexOf(e)

Pushed(t, s) == Append(s, t)  \* mutant: push instead of unshift
Listed(t, s) == IF InSeq(t, s) THEN s ELSE <<t>> \o s

\* doAddSentedValue and doAddReceivedValue: one update of the address, unless
\* its index says that this output was posted last.
Post(e) ==
    LET a == e.addr
        d == Doc(e)
        isLocked == Locked(e, db)
    IN  /\ IF ~ AlreadyLast(e)
           THEN /\ amount' = [amount EXCEPT ![d] = @ + 1]
                /\ last' = [last EXCEPT ![e.side][a] = IndexOf(e)]
                /\ txs' = [txs EXCEPT ![a] = Listed(e.tx, @)]
                /\ locked' = [locked EXCEPT ![d] = IF isLocked THEN @ + 1 ELSE @]
           ELSE UNCHANGED <<amount, last, txs, locked>>
        /\ flight' = [flight EXCEPT !.lockIn[d] = IF isLocked THEN @ + 1 ELSE @]
        /\ UNCHANGED interest

PostEntry ==
    /\ pc = "entry" /\ todo # <<>>
    /\ Valid(Head(todo)) /\ Doc(Head(todo)) \notin recorded
    /\ Post(Head(todo))
    /\ pc' = "record"
    /\ UNCHANGED <<env, records, cursor, cursorWrite, blockDocs, rawCached, mode, ready, info,
                   db, goal, work, todo, stale, undo, doc, lockSeen>>

\* addEixstInputForMongo and addEixstOutputForMongo
RecordEntry ==
    /\ pc = "record"
    /\ recorded' = recorded \union {Doc(Head(todo))}
    /\ todo' = Tail(todo)
    /\ pc' = "entry"
    /\ UNCHANGED <<env, lockDocs, book, writes, rawCached, mode, ready, info, db, goal, work,
                   stale, undo, doc, lockSeen>>

StaleRemoved == [flight EXCEPT !.blockOut = @ \union {Head(stale)}]

\* A sync goes on to the next height, a clear drops the stale block document.
BlockDone ==
    /\ pc = "entry" /\ todo = <<>> /\ work = <<>>
    /\ IF mode = "sync"
       THEN pc' = "loop" /\ UNCHANGED <<stale, flight>>
       ELSE /\ pc' = "scan" /\ stale' = Tail(stale)
            /\ flight' = StaleRemoved
    /\ UNCHANGED <<env, records, book, cursor, cursorWrite, blockDocs, rawCached, mode, ready,
                   info, db, goal, work, todo, undo, doc, lockSeen>>

-----------------------------------------------------------------------------
(* timer and clearErrorData: every minute, compare the recorded blocks with *)
(* the chain.                                                              *)

Tick ==
    /\ pc = "idle"
    /\ SlowWrites \/ (cursorWrite = NoWrite /\ flight = NoFlight)
    /\ stale' = blockDocs
    /\ mode' = "clear" /\ pc' = "scan"
    /\ UNCHANGED <<env, records, book, writes, rawCached, ready, info, db, goal, work, todo,
                   undo, doc, lockSeen>>

DiffersInHeight(b) == HeightOf[chain[HeightOf[b]]] # HeightOf[b]  \* mutant: compares heights
Differs(b) == chain[HeightOf[b]] # b  \* block.hash !== blockObj.result.hash

ScanMatch ==
    /\ pc = "scan" /\ stale # <<>>
    /\ HeightOf[Head(stale)] <= Len(chain) /\ ~ Differs(Head(stale))
    /\ stale' = Tail(stale)
    /\ UNCHANGED <<env, records, book, writes, rawCached, pc, mode, ready, info, db, goal, work,
                   todo, undo, doc, lockSeen>>

Mismatch == HeightOf[Head(stale)] <= Len(chain) /\ Differs(Head(stale))

ScanMismatch ==
    /\ pc = "scan" /\ stale # <<>> /\ Mismatch
    /\ info
    /\ db' = HeightOf[Head(stale)]
    /\ work' = BlockTxs[Head(stale)]
    /\ pc' = "undo"
    /\ UNCHANGED <<env, records, book, writes, rawCached, mode, ready, info, goal, todo, stale,
                   undo, doc, lockSeen>>

\* Without a heightInfo the assignment to its dbHeight throws.
ScanThrows ==
    /\ pc = "scan" /\ stale # <<>> /\ Mismatch
    /\ ~ info
    /\ Stop
    /\ UNCHANGED env

ScanFails ==
    /\ pc = "scan" /\ stale # <<>>
    /\ \/ HeightOf[Head(stale)] > Len(chain) /\ UNCHANGED faults
       \/ Fault
    /\ Abort
    /\ UNCHANGED <<chain, reorgs, crashes>>

ScanDone ==
    /\ pc = "scan" /\ stale = <<>>
    /\ pc' = "begin"
    /\ UNCHANGED <<env, records, book, writes, rawCached, mode, ready, info, db, goal, work,
                   todo, stale, undo, doc, lockSeen>>

-----------------------------------------------------------------------------
(* eachTxidForBlock: take back the postings of a stale block.              *)

InputRecordsOf(t) == {d \in recorded : d.txid = t /\ d.side = "in"}  \* mutant: inputs only
RecordsOf(t) == {d \in recorded : d.txid = t}

UndoTx ==
    /\ pc = "undo" /\ undo = {} /\ work # <<>>
    /\ undo' = RecordsOf(Head(work))
    /\ work' = Tail(work)
    /\ UNCHANGED <<env, records, book, writes, rawCached, pc, mode, ready, info, db, goal, todo,
                   stale, doc, lockSeen>>

\* The lockedTx documents of the transaction and the address of output d,
\* whichever of its outputs they were written for.
LocksFound(d) ==
    [x \in Docs |-> IF d.side = "out" /\ x.txid = d.txid /\ x.address = d.address
                    THEN lockDocs[x] ELSE 0]

\* clearErrorDataForInput for the inputs, then clearErrorDataForOutput: the
\* record goes first ...
UndoRecord ==
    /\ pc = "undo"
    /\ \E d \in undo :
          /\ d.side = "out" => \A x \in undo : x.side = "out"
          /\ recorded' = recorded \ {d}
          /\ doc' = d
          /\ lockSeen' = LocksFound(d)
          /\ flight' = [flight EXCEPT !.lockOut =
                           [x \in Docs |-> IF LocksFound(d)[x] > 0 THEN LocksFound(d)[x] ELSE @[x]]]
    /\ pc' = "undoSum"
    /\ UNCHANGED <<env, lockDocs, book, cursor, cursorWrite, blockDocs, rawCached, mode, ready,
                   info, db, goal, work, todo, stale, undo>>

AmountKept(d) == amount  \* mutant: the sum is not corrected
AmountWithout(d) == [amount EXCEPT ![d] = @ - 1]

LastKept(d) == last  \* mutant: the index is not reset
LastWithout(d) == [last EXCEPT ![d.side][d.address] = NoIndex]

TxsKept(d) == txs  \* mutant: the transaction stays in the history
TxsWithout(d) == [txs EXCEPT ![d.address] = Spliced(@, d.txid)]

LockedKept == locked  \* mutant: lockedValue is not corrected
LockedWithout == [x \in Docs |-> locked[x] - lockSeen[x]]

\* ... and the sums of the address after it.
UndoSum ==
    /\ pc = "undoSum"
    /\ amount' = AmountWithout(doc)
    /\ txs' = TxsWithout(doc)
    /\ last' = LastWithout(doc)
    /\ locked' = LockedWithout
    /\ interest' = [x \in Docs |-> interest[x] + lockSeen[x]]
    /\ undo' = undo \ {doc}
    /\ doc' = NoDoc /\ lockSeen' = Zero
    /\ pc' = "undo"
    /\ UNCHANGED <<env, records, writes, rawCached, mode, ready, info, db, goal, work, todo,
                   stale>>

\* modifyCorrectDate: post the block the chain now has at this height.
UndoDone ==
    /\ pc = "undo" /\ undo = {} /\ work = <<>>
    /\ pc' = "fetch"
    /\ UNCHANGED <<env, records, book, writes, rawCached, mode, ready, info, db, goal, work,
                   todo, stale, undo, doc, lockSeen>>

-----------------------------------------------------------------------------
Sync == \/ ReadHeights \/ NextBlock \/ SyncDone
Walk == \/ FetchBlock \/ NextTx \/ SkipEntry \/ PostEntry \/ RecordEntry \/ BlockDone
Clear == \/ Tick \/ ScanMatch \/ ScanMismatch \/ ScanThrows \/ ScanDone
         \/ UndoTx \/ UndoRecord \/ UndoSum \/ UndoDone
Failures == \/ ReadHeightsFails \/ FetchBlockFails \/ NextTxFails \/ ScanFails
Environment == \/ Mine \/ Reorganize \/ FetchRaw \/ Crash \/ Restart

Next == \/ Sync \/ Walk \/ Clear \/ Failures \/ Deliver \/ Environment

Spec == Init /\ [][Next]_vars

\* The process is one chain of callbacks, each of which comes back, and MongoDB
\* applies what it was sent.
Fairness ==
    /\ WF_vars(Sync \/ Walk \/ Clear)
    /\ WF_vars(DeliverCursor) /\ WF_vars(DeliverBlockIn) /\ WF_vars(DeliverBlockOut)
    /\ WF_vars(DeliverLockIn) /\ WF_vars(DeliverLockOut)

FairSpec == Spec /\ Fairness
-----------------------------------------------------------------------------
(* Type correctness.                                                       *)

PCs == {"down", "dead", "begin", "loop", "fetch", "entry", "record",
        "idle", "scan", "undo", "undoSum"}

\* The collections, the environment and what is in flight.
StoreTypeOK ==
    /\ chain \in Chains
    /\ reorgs \in Nat /\ crashes \in Nat /\ faults \in Nat
    /\ cursor \in Nat /\ cursorWrite \in Nat \union {NoWrite}
    /\ blockDocs \in Seq(Blocks)
    /\ recorded \subseteq Docs
    /\ lockDocs \in [Docs -> Int]
    /\ amount \in [Docs -> Int] /\ locked \in [Docs -> Int] /\ interest \in [Docs -> Int]
    /\ last \in [Sides -> [Addrs -> Indexes]]
    /\ txs \in [Addrs -> Seq(TxIds)]
    /\ flight \in [blockIn: SUBSET Blocks, blockOut: SUBSET Blocks,
                   lockIn: [Docs -> Int], lockOut: [Docs -> Int]]
    /\ rawCached \subseteq TxIds

ProcessTypeOK ==
    /\ pc \in PCs /\ mode \in {"sync", "clear"} /\ ready \in BOOLEAN /\ info \in BOOLEAN
    /\ db \in Nat /\ goal \in Nat
    /\ work \in Seq(TxIds) /\ stale \in Seq(Blocks) /\ todo \in Seq(AllEntries)
    /\ undo \subseteq Docs
    /\ lockSeen \in [Docs -> Int]

\* What the process holds where: something to record while a record is
\* outstanding, and a stale block while one is being replaced.
PlaceOK ==
    /\ pc = "record" => todo # <<>> /\ Head(todo) \in Entries
    /\ pc = "undoSum" => doc \in undo
    /\ pc = "loop" => mode = "sync"
    /\ pc \in {"scan", "undo", "undoSum"} => mode = "clear"
    /\ mode = "clear" /\ pc \in {"fetch", "entry", "record", "undo", "undoSum"} => stale # <<>>

\* Every variable keeps its type, and the process is where the code can be.
TypeOK == StoreTypeOK /\ ProcessTypeOK /\ PlaceOK

-----------------------------------------------------------------------------
(* What a crash can cost.                                                  *)

\* The record d is posted and on its way to be recorded, or removed and on its
\* way to be taken out of the sum.
Between(d) == \/ pc = "record" /\ d = Doc(Head(todo))
              \/ pc = "undoSum" /\ d = doc

Due(d) == IF d \in recorded \/ Between(d) THEN 1 ELSE 0

\* Two records whose last-posted pointers cannot be told apart: the same output
\* spent by two transactions.
Contested(d) == \E e, f \in Entries :
    /\ Doc(e) = d /\ Doc(f) # d
    /\ e.side = f.side /\ e.addr = f.addr /\ IndexOf(e) = IndexOf(f)

\* A posting is in the sum of its address once for its record, plus at most once
\* for every crash so far: the two writes of a posting are not atomic, and the
\* index of the address and the existence query are all there is against it.  It
\* is never missing from the sum, whatever the order of crashes, reorganisations
\* and failures.
DriftBoundedByCrashes ==
    \A d \in Docs : ~ Contested(d) => amount[d] - Due(d) \in 0..crashes
\* Why it holds: what is being posted has no record yet and what is being taken
\* back has one until it is removed,
WindowsMatchRecords ==
    /\ pc = "record" => Doc(Head(todo)) \notin recorded
    /\ pc = "undo" => undo \subseteq recorded
    /\ undo # {} => pc \in {"undo", "undoSum"}
    /\ pc = "undoSum" => doc \notin recorded /\ undo \ {doc} \subseteq recorded

\* and the posting an index points to is in the sum.
LastIsPosted ==
    \A e \in Entries :
        (~ Contested(Doc(e)) /\ last[e.side][e.addr] = IndexOf(e)) => amount[Doc(e)] >= 1

LedgerInv == TypeOK /\ WindowsMatchRecords /\ LastIsPosted /\ DriftBoundedByCrashes

-----------------------------------------------------------------------------
(* What the persisted cursor promises.                                     *)

Posted(b) ==
    \A i \in 1..Len(BlockTxs[b]) : \A e \in Entries :
        e.tx = BlockTxs[b][i] => Doc(e) \in recorded

\* While the chain only grows and no transaction was read in raw form: every
\* block below the cursor is recorded in full, and so is every block below the
\* update of the cursor still in flight.  The cursor is written ahead of its
\* block, so this is why redoing one block after a crash is enough.
CursorCovered ==
    (reorgs = 0 /\ RawFetchable = {}) =>
        \A k \in {cursor, cursorWrite} : \A h \in 1..(k - 1) :
            h <= Len(chain) /\ Posted(chain[h])

\* ... and a block posted again after a crash leaves every value in its sum
\* once: the posting cut off between its two writes is still the last one of
\* its address.
RedoPostsOnce ==
    (reorgs = 0 /\ RawFetchable = {}) => \A d \in Docs : amount[d] <= 1

\* ... and the service announces itself, and rests, with everything posted up to
\* the height it read.
RestsWithTipPosted ==
    (reorgs = 0 /\ RawFetchable = {} /\ pc = "idle") =>
        \A h \in 1..goal : Posted(chain[h])

\* The cursor never moves back while the chain only grows, whatever crashes.
CursorMonotone == [][reorgs' = 0 => cursor' >= cursor]_vars

-----------------------------------------------------------------------------
(* What a reader finds when nothing is under way: the sync is waiting for   *)
(* its timer, every write has landed, the cursor is at the tip and the      *)
(* block documents are those of the chain.                                  *)

Settled ==
    /\ pc = "idle"
    /\ cursorWrite = NoWrite /\ flight = NoFlight
    /\ cursor = Len(chain)
    /\ Elements(blockDocs) = Elements(chain)

OnChain(t) == \E h \in 1..Len(chain) : InSeq(t, BlockTxs[chain[h]])

Occurrences(d) ==
    Cardinality({i \in 1..Len(Plan[d.txid]) :
                    Plan[d.txid][i] \in Entries /\ Doc(Plan[d.txid][i]) = d})

\* Every input and output of the chain is in the sum of its address exactly as
\* often as it occurs, and nothing else is.
SettledSumsMatchChain ==
    Settled => \A d \in Docs :
        amount[d] = IF OnChain(d.txid) THEN Occurrences(d) ELSE 0

\* The history of an address names the transactions of the chain that touch it,
\* each once.
SettledHistoryMatchesChain ==
    Settled => \A a \in Addrs :
        /\ Elements(txs[a]) = {d.txid : d \in {x \in Docs : x.address = a /\ OnChain(x.txid)}}
        /\ Len(txs[a]) = Cardinality(Elements(txs[a]))

HeightOfTx(t) == CHOOSE h \in 1..Len(chain) : InSeq(t, BlockTxs[chain[h]])

\* The history of an address is in block order, the newest first.
SettledHistoryInBlockOrder ==
    Settled => \A a \in Addrs : \A i, j \in 1..Len(txs[a]) :
        (i < j /\ OnChain(txs[a][i]) /\ OnChain(txs[a][j])) =>
            HeightOfTx(txs[a][i]) >= HeightOfTx(txs[a][j])

\* What the documentation says of an address summary: `appearances` is the number
\* of its confirmed transactions.
AppearancesAreConfirmed ==
    Settled => \A a \in Addrs :
        Len(txs[a]) =
            Cardinality({d.txid : d \in {x \in Docs : x.address = a /\ OnChain(x.txid)}})

\* Whatever is recorded can still be taken back: its transaction is on the
\* chain, or in a block whose document is kept or on its way.
OrphansAreTracked ==
    \A d \in recorded :
        \/ OnChain(d.txid)
        \/ \E b \in Elements(blockDocs) \union flight.blockIn : InSeq(d.txid, BlockTxs[b])

-----------------------------------------------------------------------------
(* The locked value of an address.                                         *)

\* No other output of the transaction pays the address.
Alone(d) == \A x \in Docs : x.txid = d.txid /\ x.address = d.address /\ x.side = "out" => x = d

\* As long as nothing is cut off, the principals in lockedValue are those of the
\* lockedTx documents, with the inserts and removals still in flight, also in the
\* middle of a posting or of a rollback.
LockedMatchesLockDocs ==
    (crashes = 0 /\ faults = 0 /\ reorgs <= 1) => \A d \in Docs :
        (d.side = "out" /\ Alone(d)) =>
            locked[d] - lockSeen[d] = lockDocs[d] + flight.lockIn[d] - flight.lockOut[d]

-----------------------------------------------------------------------------
(* Liveness.                                                               *)

\* Every block document the chain does not hold is found and dropped, and none
\* comes back once the chain stands still.
StaleBlocksDropped == <>[](Elements(blockDocs) \subseteq Elements(chain))

\* Once the chain stands still the sums of all addresses become those of the
\* chain, and stay.
LedgerConverges ==
    <>[](\A d \in Docs : amount[d] = IF OnChain(d.txid) THEN Occurrences(d) ELSE 0)

-----------------------------------------------------------------------------
(* The ledger as a book: a posting under way counts as entered from its     *)
(* first write on, and as taken back from the last one.                     *)

Uncontested == {d \in Docs : ~ Contested(d)}

Book == INSTANCE AddressBook WITH
    Postings <- Uncontested,
    MaxCuts  <- MaxCrashes,
    posted   <- {d \in Uncontested : Due(d) = 1},
    sum      <- [d \in Uncontested |-> amount[d]],
    cuts     <- crashes

\* Readers of the sums see postings entered and taken back as if each were one
\* step, whatever the sync, the rollback, the chain and the failures do in
\* between; only the end of the process can strike one out with its value left
\* in the sum, and then only the one under way.
ImplementsBook == Book!BookSpec
=============================================================================
