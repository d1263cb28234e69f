# A formal model of the ELT block explorer

The repository is a fork of the Bitcore stack: a Node.js process (`bitcore-node`) that runs beside
`bitcoind`, keeps a MongoDB ledger of addresses in step with the block chain, and serves an HTTP and
web socket API (`insight-api`) to a browser user interface (`insight-ui`).  This directory holds TLA+
models of the parts where schedules, failures and reorganisations decide whether the explorer tells the
truth, the TLC runs that check them, and theorems about them that TLAPS checks.

Paths below are relative to `src/bitcore`; `MDGAT` is
`bitcore-node/lib/services/MongoDBGetAddressTransaction.js` and `bitcoind.js` is
`bitcore-node/lib/services/bitcoind.js`.

## 1. Inventory

| Component | State it keeps | Operations | Interacts with | What is hard | What makes it correct |
|---|---|---|---|---|---|
| **Address ledger synchronizer** (MDGAT) | MongoDB: `block` (cursor document with id 1, and the last 300 blocks), `address` (Received, Sented, txs, lockedValue, inputIndex, outputIndex), `txInput`, `txOutput`, `lockedTx`; in memory: `heightInfo`, `first` | `synchroizedBlockAdressTxToMongoDB`, `processBlockByHeight`, `timer`, `clearErrorData` and what they call | RPC to bitcoind, MongoDB; emits `ready` on the bitcoind service; its collections are read by the address queries | no transactions in MongoDB: a posting is two writes, a block many; writes nobody waits for; crashes; reorganisations during a walk; failed RPCs; error paths that throw or return silently | every block under the cursor is posted; every value is in its sum once; what was posted for a lost block is taken back; histories are those of the chain |
| **bitcoind service: tip and caches** (`bitcoind.js` 126-145, 438-445, 527-595, 661-725, 781-800) | `tiphash`, `height`, `lastTip`, `lastTipTimeout`, six caches valid until a new block, five valid for ever, the ZMQ known sets | poll until synced, ZMQ handlers, `_updateTip`, `_resetCaches` | ZMQ and RPC from bitcoind; `tip`, `block`, `synced` events to insight-api | delayed updates, answers out of order, answers that cross a reset | the tip becomes bitcoind's best block; caches are not older than the tip |
| **bitcoind service: start, spawn, reindex, stop** (`bitcoind.js` 661-1019, 2465-2490) | `spawn.process`, `nodes`, `_reindex` | `start`, `_spawnChildProcess`, `_connectProcess`, `stop` | the operating system, `Node` | respawn timer against stop, a pid file that lags behind, error paths that end the restarts, retries, shutdown timeout | the daemons of a process take turns; a stop ends the process; a daemon that answered is told to stop |
| **Node** (`node.js` 132-306, `service.js`, `scaffold/start.js` 195-248) | `services`, `_unloadedServices`, `stopping` | `getServiceOrder`, `start`, `stop`, exit handlers | every service | stop during start, exceptions during stop | dependencies start first and stop last |
| **Publish and subscribe** (`bitcoind.js` 224-304, 623-659, `bus.js`, `services/web.js` 174-260) | emitter lists per event and per address, one bus per socket | subscribe, unsubscribe, close, notify | ZMQ handlers, web sockets, `insight-api/lib/index.js` 260-293 | double subscriptions, a socket that closes while it is notified | lists are as asked; a closed client is in none; a subscribed one is told, once |
| **Queries** (`bitcoind.js` 1063-2450) | the caches | balance, unspent outputs, history, summary, details, blocks | RPC, MongoDB | answers put together from several queries at different moments; error paths that go on | an answer is one a single state could give, or misses nothing |
| **insight-api** | `blockCache`, rate limiter clients, currency rate | controllers, `RateLimiter` | bitcoind service | windows, cached confirmations of blocks that leave the chain | quota per window; confirmations are those of a tip of the chain; a request is answered |
| **bitcore-lib** | none | blocks, Merkle blocks, transactions, scripts, encodings | used by all | whether bytes parse | a library, not modelled |
| **Unlock sweeper** (`UnlockTransaction.js`) | none | required at `bitcoind.js:23`, never called | | | dead code |
| **insight-ui, cli, scaffold, tests** | | presentation, files, options | | | not modelled |

The hazards of the code, each at its line, are in `PROJECT.json` under `hazards`, with the properties that
would notice them going wrong.

How they interact.  `Node` starts the services one after the other and stops them in reverse; `bitcoind.js`
spawns the daemon, follows its tip and starts the ledger synchronizer when the chain is loaded
(`_initChain`; it emits `ready` after its first walk);
the ZMQ handlers of `bitcoind.js` feed the emitter lists that web sockets and insight-api subscribe to;
insight-api answers HTTP requests, behind its rate limiter, from the queries of `bitcoind.js`, which read
the daemon, their caches and the ledger.  Each model takes what it needs of its neighbours as an
environment: TipCache has the notifications and answers of bitcoind, AddressLedger the chain, BlockPages the
height that TipCache delivers late, Subscriptions the overlapping polls that make several listeners.

## 2. What is modelled

### AddressLedger (with MCAddressLedger, AddressLedgerProofs, AddressCursorProofs, AddressForkProofs)

The whole of MDGAT as one process (`pc`) over the MongoDB collections.  Node.js runs one callback at a
time, so an action is what happens between two waits, and everything that can happen in between (the chain
moves, a write lands, the process dies) is an action of its own.

| Code | Model |
|---|---|
| `synchroizedBlockAdressTxToMongoDB` | `ReadHeights`, `ReadHeightsFails`, `NextBlock`, `SyncDone` (pc `begin`, `loop`, `idle`) |
| `processBlockByHeight`, `getTxListAndBlockMessageFromHight`, `insertBlockToMongodb` | `FetchBlock`, `FetchBlockFails`, `BlockDone`, `Inserted` (pc `fetch`, `entry`) |
| `processTxList`, `processTransaction` | `NextTx`, `NextTxFails` |
| `processEachInput`, `processEachOutput`, `doAddSentedValue`, `doAddReceivedValue` | `SkipEntry`, `PostEntry` with `Post` |
| `addEixstInputForMongo`, `addEixstOutputForMongo` | `RecordEntry` (pc `record`) |
| `timer`, `clearErrorData` | `Tick`, `ScanMatch`, `ScanMismatch`, `ScanThrows`, `ScanFails`, `ScanDone` (pc `scan`) |
| `eachTxidForBlock`, `clearErrorDataForInput`, `clearErrorDataForOutput` | `UndoTx`, `UndoRecord`, `UndoSum` (pc `undo`, `undoSum`) |
| `modifyCorrectDate` | `UndoDone`, then `FetchBlock` ... in mode `clear` |
| writes without a wait (cursor, block documents, lockedTx) | `cursorWrite`, `flight`, delivered by `DeliverCursor`, `DeliverBlockIn`, `DeliverBlockOut`, `DeliverLockIn`, `DeliverLockOut` |
| the exit handler, a kill, an exception | `Stop`, used by `Crash` and by the failures that throw |
| `rawTransactionCache`, shared with the HTTP API | `rawCached`, `FetchRaw` |

Abstractions.  A sum is kept as the number of times each record is in it (`amount`), which tells more
than the number; `lockedValue` is `locked` (the principals) and `interest` (the `addMany` that rollbacks
subtract and postings never add).  An input record has the key the code looks it up by, which lacks the
number of the spent output.  A block is a constant with a height and a list of transactions, a chain one of
the sequences of `Chains`, and `getBlockByNumber` returns the block of the chain at that height.  The read
and the update of one address are one step because the process is the only writer of that collection.  A
MongoDB call that fails is not told apart from a process that ends at the same place.  The LRU eviction of
the raw transaction cache is left out; the genesis block is not in a chain.

### AddressBook (its refinement is proved in AddressLedgerProofs)

What the ledger promises its readers, as an abstract specification: a posting is entered or taken back in
one step (`Enter`, `TakeBack`), and only a `Cut`, the end of the process, may strike one out with its value
left in the sum; such a value is taken up again when the posting is entered anew, or stays.
`AddressLedger!Book` is the mapping: `posted` are the records of which exactly one posting is due, counting
one under way from its first write on, and `sum` is `amount`.  Records whose index cannot be told from that
of another one (`Contested`) are not in the book.  `ImplementsBook` is the refinement.

### TipCache (with MCTipCache, TipCacheProofs)

| Code | Model |
|---|---|
| `_checkSyncedAndSubscribeZmqEvents`, `_subscribeZmqEvents` | `Poll`, `PollAgain`, `Subscribe` (`stage`) |
| `_zmqBlockHandler`, `_rapidProtectedUpdateTip` | `Hear`, `Rapid`, `Delayed`, `TimerFires`, `Tick` (`age`, `timer`) |
| `_updateTip`, `_resetCaches` | `UpdateTip`, `CachesReset`, `HeightAsked`, `HeightAnswer`, `HeightFails` (with `Without`) |
| the queries that cache until the next block | `Ask`, `Compute`, `Arrive`, `AskFails` |

Blocks are numbered in the order in which bitcoind makes them its best block (so a reorganisation is just
the next number, with a height that need not be larger: `HeightOf`).  The caches are one function from keys
to answers: an answer is the block it was computed at, and whether the tip changed on its way.  History, which
the code has no field for and no action reads: `crossed`; `newest`, what became of the newest request for a
height (asked, answered, lost, overtaken by an older answer); `crossing`, the last block that updated at once
beside the pending timer of an older one.  One bitcoind node; polls do not overlap; eviction is left out.

### NodeLifecycle (with MCNodeLifecycle, NodeLifecycleProofs)

`node.js`, `scaffold/start.js` and the daemon of `bitcoind.js` as what they are at run time: chains of
callbacks of one event loop that nothing cancels.  Only `node.stopping`, `spawn.process` and the daemon
itself connect them.

| Code | Model |
|---|---|
| `getServiceOrder` (addToStack), `stop`'s reverse | `ServiceOrder` (a recursive function), `StopOrder` |
| `Node.start`, `_startService` | `StartNext`, `ServiceStarted`, `ServiceFails`, `Ready` (`toStart`, `startPc`, `loaded`, `started`) |
| `Node.stop` | one record of `runs` per call: `StopService`, `ChildExited`, `ShutdownTimesOut`, `End` |
| `exitHandler`, `registerExitHandlers`, `cleanShutdown` | `Sigint`, `Throw`, `StartError` |
| `_spawnChildProcess`, `_stopSpawnedBitcoin` | `StopOther`, `LookedUp`, `Spawn`, `LaunchFails`, `LookAgain`, `RestartTimer` (`launch`, `handle`) |
| `bitcoind.pid`, which bitcoind writes and removes | `pidFile`, `WritesPid`, `RemovesPid` |
| `async.retry` around `_loadTipFromNode`, `_initChain` | `Try`, `Answered`, `Unanswered`, `AttemptTimer`, `ChainFails`, `SpawnError` (`attempt`, per daemon) |
| the `exit` handlers of the child (respawn, stop) | `DaemonExits` |

One `Tick` is 5 s, the common divisor of the timers.  Before time passes the event loop does what it has
ready (`Idle`).  A daemon of an earlier process (0) may run at the beginning, and its pid file may be there
or not, whether it runs or not.  What the code looks at before it spawns is that file (`Other`), never the
daemon: bitcoind writes it some time after the spawn and removes it when it stops in order, so it may be
absent, without a number (which the code treats alike) or name a process that is gone.  A restart that cannot
load the configuration, read the file, signal the process or spawn is logged, and no timer is set again
(`LaunchFails`, `Spawn`).  A restart begins a new `this.spawn`, so `handle` is 0 until it has spawned, and a
stop that comes then does not wait.  `had`, in a call of `stop`, is history: the services loaded when it
began.  Left out: the wait for a reindex (`_checkReindex`), nodes given by the `connect` option, and a pid
that the system has given to another program; daemon process ids are the numbers of the spawns.

### Subscriptions (with MCSubscriptions, SubscriptionsProofs)

| Code | Model |
|---|---|
| `subscribe`, `unsubscribe` (a plain list per event) | `Subscribe`, `Unsubscribe` with `Pushed`, `Spliced` |
| `subscribeAddress`, `unsubscribeAddress`, `unsubscribeAddressAll` | `SubscribeAddress`, `UnsubscribeAddress`, `Removed`, `AllOf` |
| `insight-api/lib/index.js` `subscribe`, `unsubscribe` | `SubscribeInv`, `UnsubscribeInv` |
| `web.js` `socketHandler`, `bus.js` `close` | `Open`, `Close` |
| `_subscribeZmqEvents`, bitcoind's messages | `Listen`, `Publish` |
| `_zmqTransactionHandler`, `_zmqBlockHandler`, `_notifyAddressTxidSubscribers` | `Deliver` with `Known`, `Refreshed`, `Stored`, `Tell` |
| `checkAndSubscribe` emitting the best block | `Poll` |

A list is the sequence of sockets in the order of the array, so that a walk and a `splice` do what they do
in the code; the LRU caches are sequences, the oldest key first.  The history variables `asked`, `doubled`,
`told`, `forgotten` and `polls` say what sockets asked for and one of them, the watcher, was told; no
action reads them.  A client that subscribes to addresses without naming any makes `subscribeAddress` throw
(bitcoind.js:252): that ends the process as any other exception does, which is NodeLifecycle's `Throw`.

### RateLimiter, BlockPages, ApiRequests (with MCApiRequests, ApiRequestsProofs)

RateLimiter is `insight-api/lib/ratelimiter.js`; BlockPages the pages of a block; ApiRequests composes the
two as `setupRoutes` does: what the limiter refuses reaches no handler.

| Code | Model |
|---|---|
| `_middleware`, `addClient`, `exceeded`, the timer of an entry | `Pass`, `Refuse`, `Forget`, `Tick` |
| `BlockController.block`, `checkBlockHash`, `show`, `rawBlock` | `Request`, `Informed`, `Show`, `Errs` |
| `getBlock` and its two fallbacks, `getRawBlock` | `GetBytes`, `GetObject`, `GetByNumber`, `GetOther` |
| `getInfo`, `transformBlocIncludeConfirmTimes` | `GetInfo`, `Informed`, `Deep` |
| the header that it writes back (`block.js` 92-111, `blockheader.js` 173-222) | `InBytes`, `NotWhole` (`whole`) |
| the handlers in which an error goes on to read a missing answer | `CallFails`, `Throws` |

A cached block is an object that several pages share, so a page that finds it changes what another shows
(`shared`).  A page whose header lacks what `toBufferWriter` writes is not `whole`: a block taken from an object
has a next hash that is no buffer, a block off the chain -1 confirmations, and both throw when the page is
made.  Heights reach the service late, or never (`announced`): in what order is TipCache's matter.
Left out: hits in `rawBlockCache` and the eviction of the LRU caches; a hash that looks like a number does
not pass `checkBlockHash`.  An exception ends the process at once here; how, is in NodeLifecycle.  `ages`,
`tips` and `cachedLate` are history variables.

### UnspentOutputs (with MCUnspentOutputs, UnspentOutputsProofs)

`getAddressUnspentOutputs` for one address.  A query looks into the cache when it begins, then waits for
`getAddressMempool` (`ReadMempool`, `MempoolArrives`), then, without a cached list, for `getAddressUtxos`
(`ReadOutputs`, `OutputsArrive`), while bitcoind relays, mines and reorganises (`Relay`, `Mine`,
`Reorganise`) and the service resets its caches some time after a block (`TipUpdate`).  The answer is
`Answer`: what the mempool makes and the list, each without what the mempool spends.  Left out: mempool eviction and
double spends, for which the code has no rule either.  `then`, `unspent`, `spent`, `replaced` are history.

## 3. Runs

All bounds are constants of the modules and appear by name in the `.cfg` files.

| Run | Instance | Shows |
|---|---|---|
| `ledger_crash` | two blocks, three transactions (a coinbase, a payment with change, a spend of the change in the same block), two crashes, one failed RPC | `CursorCovered`, `RedoPostsOnce`, `RestsWithTipPosted`, `SettledHistoryInBlockOrder`, `CursorMonotone`: the resume rule of MDGAT:40 is enough, and the index of an address catches the posting cut in two |
| `ledger_reorg` | a fork at heights 2 and 3 with a transaction in both branches, two reorganisations at any moment, nothing fails, deadlock checked | `SettledSumsMatchChain`, `SettledHistoryMatchesChain`, `OrphansAreTracked`, `LockedMatchesLockDocs`, and under fairness `StaleBlocksDropped`, `LedgerConverges` |
| `ledger_all` | a double spend across a fork, one reorganisation, one crash, one failed RPC, raw reads, a window of three block documents (less than the blocks recorded) | `TypeOK`, `DriftBoundedByCrashes`, and the refinement `ImplementsBook` |
| `tip_four` | four blocks, one key, two queries in flight, one failed RPC | `TypeOK`, `FreshUnlessCrossed`, and under fairness `TipRecovers`, `HeightFollows` |
| `node` | three services with bitcoind named last, one unexpected exit of the daemon, one fault (an exception, a failing service, a failing launch or spawn), SIGINT at any moment, perhaps an old daemon, perhaps a stale pid file | `TypeOK`, `OneOwnDaemon`, `DependenciesStarted`, `AnsweringDaemonToldToStop`, `DependentsStopFirst`, and under fairness `StopEnds`, `DaemonComesBack` |
| `sockets` | two sockets, one address and one odd string, one plain event, two transactions and a block, two listeners, two messages, caches that hold one item | `TypeOK`, `ListedAsAsked`, `ToldOnce`, `ClosedHearsNothing`, and under fairness `SubscriberTold` |
| `requests` | a client with a limit of one in two ticks, two requests under way, a fork at height 2, a block that only parses as an object and one that parses in no form | `ApiTypeOK`, `SlidingQuota`, `ConfirmationsOfSomeTip`, `CachedStays`, and under fairness `RefusedForAWhile`, `PageAnswered` |
| `unspent` | three transactions, three outputs, two queries, two new blocks | `TypeOK`, `OneMoment`, `NothingMissed` |
| `ledger_raw` (violation) | the growing chain, one transaction read in raw form | a confirmed transaction is never posted |
| `tip_three` (violation) | three blocks | `TipFollows`: the pending timer of a delayed block sets the tip back behind a later one |
| `tip_stale` (violation) | two blocks, one query | an answer of the previous block is cached after the reset |
| `node_respawn` (violation) | the configuration of the scaffold, one unexpected exit | a restart during the stop leaves a daemon behind that nobody told to stop |

The violation runs check what the documentation or a comment of the repository says; `PROJECT.json`
quotes the line under `findings`.

Some limits of the ledger are known from the model and have no run.  They are where the hypotheses of the
theorems of section 4 come from; each was found or confirmed by TLC on an instance without the hypothesis:

* after a rollback the order of a history is that of the posting, not of the chain, so
  `SettledHistoryInBlockOrder` is claimed of a chain that only grows;
* a crash in the middle of a block that is then replaced leaves its first transactions listed, since no
  block document leads to them;
* a transaction that the new chain has at another height loses its record, its value in the sum and its
  place in the history when its old block is taken back after the new one was walked;
* when a removal of `lockedTx` documents takes longer than a minute, the next comparison finds them again
  and takes them out of `lockedValue` twice;
* the chain may return to a block while that block is being taken back, which takes a third reorganisation.

**Why the bounds are enough.**  The shortest chains with everything the code distinguishes have three
heights: one common block, one that is replaced, one above it.  Inputs and outputs of every kind occur: a
script without address, a locked output, change to the sender, a spend within the same block, a double
spend.  Two crashes allow a crash in the redo of a crash; more add nothing to `ledger_crash`, and
`DriftBoundedByCrashes` is proved for any number.  `Window` is 300 in the code.  `ledger_reorg` takes it
larger than the number of blocks: with a smaller window `OrphansAreTracked` fails, because a walk over the
new chain pushes stale documents out before the rollback reads them.  That is the real limit of the
code, a reorganisation found after more than 300 further blocks.  `SlowWrites = FALSE` says that a write
nobody waits for lands before the timer fires a minute later; of the theorems only `CursorNeverBack` and
`LockedValuesMatch` assume it.

In TipCache `Second = 2` ticks is the least in which a notification can come before, while and after a delay.
Two blocks cannot show a timer that is pending when a later block updates at once, three can: `TipFollows`
fails in `tip_three`.  With four the third may cross the delayed second, and the fourth repair what that
broke: `tip_four` has all of it, and `TipRecovers` says that the tip stays behind only while the last block
is itself one that crossed.  `Keys` has one element because the caches of different keys do not interact.

In NodeLifecycle the timers keep the proportions of the code (5, 5, 10 and 15 s).  `Tries` is 60 in the
code; two are enough for an attempt that is repeated and one that is given up.  One unexpected exit gives
two daemons, and the respawn of one overlapping the stop of the other; one fault and one SIGINT give two
overlapping calls of `stop`.  The one fault may instead end a launch or a spawn, the first or the restart.
The configuration names a service before those it needs, and bitcoind last, so that the order is not that
of the configuration; `OrderSound` proves it of every acyclic one.  `DependentsStopFirst` holds for stops
that begin while services are starting: only a service created after a stop began is excused, since that
stop never sees it.  `DaemonComesBack` excuses a restart that fails, since the code gives up then.

In Subscriptions two messages are enough for the same one twice, and for a second transaction that pushes
the first out of a cache of one item (5000 and 50 in the code); two listeners deliver each message twice.
Two sockets share each list; `MaxSubscribed = 2` lets one be in it twice.

In `requests` a limit of one and an interval of two ticks let two requests pass in less than an interval,
the worst case that `SlidingQuota` allows; `Confirmations = 2` and `ReorgDepth = 1` keep the relation of the
code: six confirmations, and no reorganisation that deep.  Two slots are enough for pages that share an
object, one that changes it and one that is shown after.

In `unspent` an output is made and spent within the mempool, within a block and across one; two new blocks
allow a block between the two calls of a query and a reorganisation after it, and a second query uses the
list the first one cached.

**Deadlock.**  `CHECK_DEADLOCK FALSE` where the system may stop: after `ReadHeightsFails` nothing runs any more
(`ledger_crash`, `ledger_all`); the tip is quiescent when bitcoind makes no more blocks; the process of
`node` ends; the sockets of `sockets` have closed and its messages are used up; a service that has thrown
answers no more (`requests`); the blocks of `unspent` are bounded.

**Fairness.**  The synchronizer is one chain of callbacks and timers: some step of `Sync \/ Walk \/ Clear`
is enabled until it stops, so weak fairness of their disjunction says that callbacks come back.  MongoDB
applies what it was sent, so each delivery is weakly fair.  Nothing is assumed of the chain, of crashes or
of failures.  In TipCache the poll is repeated by an interval, notifications and answers arrive, timers
fire: weak fairness of each.  Queries and blocks need not happen.  In NodeLifecycle the event loop runs what
is ready, time passes, and a call to the daemon ends in an answer or an error; nothing makes a daemon exit,
not even SIGINT, which is why `StopEnds` needs the shutdown timeout.  In Subscriptions a message that
arrived is handled (per item, since each is an event of its own).  In ApiRequests calls of bitcoind end and
timers fire; no request, block or height need come.  UnspentOutputs states safety only.

## 4. Proofs

TLAPS checks the following for every value of the constants under the assumptions named in the modules
(`PlanAssumption`, `ChainAssumption`, `BoundAssumption`; `TipAssumption`; `ConfigAssumption`,
`TimeAssumption`; `SubscriptionAssumption`; `LimiterAssumption`, `PagesAssumption`; `OutputsAssumption`): any
plan of transactions, any set of chains, any window of at least two, any number of crashes, reorganisations,
faults, blocks, sockets, listeners, clients and queries.

* `AddressLedgerProofs!TypeCorrect`: `Spec => []TypeOK`.  The type invariant includes `PlaceOK`, what the
  process holds where: without it `Head(stale)` or `Head(todo)` would be the head of an empty list.
* `AddressLedgerProofs!DriftIsBounded`: `Spec => []DriftBoundedByCrashes`.  The sum of an address holds a
  recorded value once, plus at most once per crash, and never less.  Alone this is not inductive: a second
  posting of the same record must be excluded by the record that is missing (`WindowsMatchRecords`: what is
  being posted has no record, what is being taken back has one until it is removed), and the early exit of
  `Post` leaves the sum alone, so the posting an index points to must be in the sum already
  (`LastIsPosted`).  The inductive invariant is `LedgerInv`, their conjunction with `TypeOK`.  Records whose
  index cannot be told from that of another record (`Contested`: the same output spent by two transactions)
  are excluded, because there the early exit may skip a posting that was never made.
* `AddressCursorProofs!CursorIsCovered`, `RestsWhenPosted`, `CursorNeverBack`: `[]CursorCovered`,
  `[]RestsWithTipPosted` and `CursorMonotone`, all of a chain that only grows.  The cursor is written without
  a wait and read after a crash, so the two heights it may hold are related to what the walk still has in its
  hands.  `CursorInv` says three things while no block was replaced: no posting is ever taken back
  (`NothingStale`), everything below the cursor and below the walk is recorded except what is left of the
  block at hand (`Covered`, with `Upto` and `Left`), and the cursor written last is never ahead of the walk
  (`Ordered`, with `Latest`).  `CursorNeverBack` assumes `~ SlowWrites`: an update that lands after the next
  run has started may be read too late.
* `AddressCursorProofs!RedoIsSafe`, `SumsMatchGrowingChain`, `HistoryMatchesGrowingChain`,
  `HistoryInBlockOrder`: `[]RedoPostsOnce`, and `SettledSumsMatchChain`, `SettledHistoryMatchesChain`,
  `SettledHistoryInBlockOrder` of a chain that only grows, across any number of crashes.  A value in a sum
  without a record is the one a crash cut off; it must be shown to be still the last one of its address when
  the redo reaches it.  So `GrowInv` orders the whole plan: the walk leaves nothing unrecorded behind it
  (`InOrder`), a value without a record belongs to the first entry of the chain that is not recorded and
  its index is in place (`PostedOnce` with `First`), what is recorded is on the chain (`OnlyChain`), and a
  history names what is recorded or next, once, in the order of the blocks (`Histories`, `BlockOrder`).
* `AddressForkProofs`: one reorganisation, at any moment of the walk or of the rollback, while nothing
  crashes or fails (`Quiet`).  `LeftFor(c)` says that all the process has noted is of the chain or of the one
  branch `c` it was left for, and that only blocks of `c` that are gone are taken back.
  - `LockedValuesMatch`: `[]LockedMatchesLockDocs`, also in the middle of a posting or of a rollback.  A
    removal in flight takes documents counted when it was issued, so the invariant must rule out a second
    removal of the same documents: `Removals` says that one in flight is of a block that is gone and whose
    records have been taken back (`UndoneWith`), and none of them is posted again before it lands.
  - `OrphansStayTracked`: `Quiet => OrphansAreTracked`.  `TrackInv` says whose block each record is of
    (`Tracked`), that the block at hand is noted (`FromOne`), and that of a block being replaced only what is
    still to be taken back, or on the chain, is recorded (`TakenBack`).
  - `SumsMatchAfterFork`, `HistoryMatchesAfterFork`: at rest, the sums and the histories are those of the
    chain.  `NotedPosted` says that a noted block of the chain is recorded in full, at hand, or about to be
    posted again in place of the one at its height; `ForkHistories` that a history names what is due, once,
    except for the transaction that is being taken back.
  - `WideWindowDropsNothing`: `[][DropsFinal]_vars`, the temporal hypothesis of the last three, holds whenever
    the window exceeds the number of blocks.
* `AddressLedgerProofs!LedgerImplementsBook`: `Spec => ImplementsBook`, the refinement, by the steps of the
  ledger under `LedgerInv`: `BookStep` says what a step may do to the postings in force and the sums, and a
  lemma per action that it does one of these.
* `TipCacheProofs!TypeCorrect`: `Spec => []TypeOK`, which includes that the tip, the last notification and a
  pending update are never ahead of bitcoind.
* `TipCacheProofs!CachesAreFresh`: `Spec => []FreshUnlessCrossed`, from `FreshInv`, which says of the
  queries under way what the property says of the cached answers.
* `NodeLifecycleProofs!TypeCorrect`, `DependenciesHaveStarted`, `DependentsAreStoppedFirst`,
  `AnsweringDaemonsAreTold`, `DaemonsTakeTurns`: the five safety properties of the run `node`.  `OrderSound` says
  of `ServiceOrder`, a recursive function, that for every acyclic graph it lists each service once and after
  those it needs.  The induction is on the number of services not listed yet; the library's induction
  theorems cannot be instantiated, so it is done by a least counterexample among the naturals.  `NodeInv`
  relates the start to its list (what is loaded, starting and started is a beginning of it), `ToldInv` each
  daemon to the calls of `stop` and the flags that say who told it to stop, `StopInv` each call of `stop` to
  the services it has passed.  `DaemonsTakeTurns` is from `SpawnInv`, which says nothing of the pid file: a
  daemon of this process that runs is the one in `spawn.process`, and none runs while a restart is under way,
  because only its exit begins one.  So no look at the file can find a daemon of this process.  `TypeOK` is in
  three parts, `StartTypeOK`, `ShutdownTypeOK` and `DaemonTypeOK`.
* `SubscriptionsProofs`: `TypeCorrect`, `ListsAreAsAsked`, `NobodyIsToldTwice`, `ClosedAreGone`.  The
  lemmas on lists say what `push`, `splice` and the LRU operations do to the members and to how often each
  is there.  `RequestsInv` is the part about requests (types, `ListedAsAsked`, and `DoubledTold`: a socket
  that is twice in a plain list is in `doubled`); `MessagesInv` the part about messages (types and
  `ToldTold`: what the watcher was told is bounded by the caches it is in and those it fell out of, which
  `ToldOnce` alone does not say).
* `ApiRequestsProofs!TypeCorrect`: `ApiSpec => []ApiTypeOK`, of the composition.
* `ApiRequestsProofs!QuotaHolds`, `QuotaHoldsForApi`: `[]SlidingQuota` of the limiter alone, and behind the
  routes.  `QuotaInv` relates the counter of an entry and its timer to the ages of the requests that passed:
  those before the entry are an interval old when its timer ends.
* `ApiRequestsProofs!ConfirmationsHold`: `ApiSpec => []ConfirmationsOfSomeTip`, from `TipsInv`, which says for
  every active page what it has, what it shares and what the service may be told are all heights of `tips`.
* `ApiRequestsProofs!CachedBlocksStay`: `ApiSpec => []CachedStays`, from `PagesInv`: every block that a page
  has found deep, or that is cached, is buried (`Buried`: on every chain bitcoind can still report), because
  a chain that shares all but the last `ReorgDepth` blocks shares that one.
* `UnspentOutputsProofs!TypeCorrect`: `Spec => []TypeOK`, which includes that bitcoind has the parents of what
  it has.  A reorganisation drops the last block, so the parents must be in earlier blocks or in the mempool
  (`RestOK`), and a list may only be asked for by a query that found none (`AsksIfUncached`).
* `UnspentOutputsProofs!AnswersOfOneMoment`, `AnswersMissNothing`: from an invariant that quantifies over the
  past: there is a function from the blocks to the transactions confirmed then (`History`) such that every
  list is the unspent outputs of its block and every query was told the truth at each of its reads.

**What the theorems assume.**  Besides the assumptions of the modules some theorems name hypotheses.  Each
excludes something of which section 3 or the model says why the property fails with it, and the instances
of the runs that check these properties satisfy them:

| Hypothesis | Says | Without it |
|---|---|---|
| `RawFetchable = {}` | no transaction is read in raw form over the API | run `ledger_raw`: the transaction is never posted |
| `NoDoubleSpend` | no two transactions of the plan spend one output | the index of an address may skip a posting never made (`Contested`) |
| `NoneAlike` | no two inputs of a transaction have the same record | the existence query of an input (MDGAT:278) skips the second |
| `OncePerChain` | no chain has a transaction twice | the second occurrence is taken for posted; bitcoind excludes it since BIP 30/34 |
| `StaysInPlace` | a transaction of two branches has one height | it is lost when its old block is taken back (section 3) |
| `~ SlowWrites` | a write lands within the minute of the timer | an update read too late, a removal counted twice |
| `[][DropsFinal]_vars` | the window of 300 block documents drops only blocks that no reorganisation reaches, or that were replaced | an orphan is never found: the limit at MDGAT:207 |

`ConfigAssumption` has the set of services finite and its dependencies acyclic, `PagesAssumption` that blocks
are chained (a block has one height and one past, whichever chain holds it), and `OutputsAssumption` room for one new
block at least.

Only model-checked: the properties under fairness (`StaleBlocksDropped`, `LedgerConverges`, `TipRecovers`,
`HeightFollows`, `StopEnds`, `DaemonComesBack`, `SubscriberTold`, `PageAnswered`, `RefusedForAWhile`), which
are out of the prover's reach, as is `ENABLED`; and the ledger at rest and its orphans after a second
reorganisation, which `ledger_reorg` checks and the theorems above leave out: what was left for one branch
may be left for another, or come back, and the invariant speaks of one.

## 5. Plan

Done: the ledger and its abstract book, the tip, the life of the node, subscriptions, the requests of
insight-api for blocks, unspent outputs, with the theorems above.

Left, in the order of importance: the theorems of `AddressForkProofs` for two reorganisations, and
for a crash between blocks; the wait for a reindex, where two overlapping answers call back twice; several
bitcoind nodes behind one service (`nodes`, `_tryAllClients`).

## 6. Not modelled, and why

`UnlockTransaction.js` is never called.  The user interface, the command line and the scaffolding read and
write files and pages and keep no state that a schedule can spoil.  Most lines of the repository are of this
kind or third-party code that it bundles: `bitcore-lib/bitcore-lib.js` (the browser bundle of the library
beside it), `insight-ui/public` (angular, moment and other vendored libraries, and the compiled assets of
the interface).  bitcore-lib itself parses and encodes: data transformations and cryptography without
control; BlockPages has whether bytes parse as a constant.  The histories, summaries and transaction
details of `bitcoind.js` read the ledger and reformat one answer; the other controllers of insight-api do
the same, and keep no state but the currency rate, which one interval overwrites.  MongoDB and bitcoind are
external: they are modelled from how MDGAT and `bitcoind.js` use them.  Several bitcoind nodes behind one
service are left out: the configuration of this repository spawns one.  The tests need a live bitcoind.
