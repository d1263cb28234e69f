------------------------- MODULE AddressCursorProofs -------------------------
(***************************************************************************)
(* What AddressLedger keeps while the chain only grows, for every chain,   *)
(* plan and number of crashes: the blocks below the persisted cursor are   *)
(* recorded in full, the walk rests with everything posted and the cursor  *)
(* never moves back; no value is in a sum twice, and at rest the sums and  *)
(* the histories of the addresses are those of the chain, in block order.  *)
(***************************************************************************)
EXTENDS AddressLedgerProofs, FiniteSetTheorems

\* Every input and output of block b has its record.
PostedIn(b, posted) ==
    \A i \in 1..Len(BlockTxs[b]) : \A e \in Entries :
        e.tx = BlockTxs[b][i] => Doc(e) \in posted

\* Every block of chain c up to height n is there, and recorded in full.
Upto(c, posted, n) == \A h \in 1..n : h <= Len(c) /\ PostedIn(c[h], posted)

\* What of block b is not recorded yet is in what is left of the block, or of the
\* transaction at hand.
Left(b, posted, transactions, entries) ==
    \A e \in Entries :
        e.tx \in Elements(BlockTxs[b]) =>
            \/ Doc(e) \in posted
            \/ e.tx \in Elements(transactions)
            \/ e \in Elements(entries)

-----------------------------------------------------------------------------
(* The inductive invariant, in three parts, all of a chain that only grows. *)

\* Every block that is noted, on its way to be noted or looked at is one of the
\* chain, so nothing is taken back and nothing is posted anew.
NothingStale ==
    /\ Elements(blockDocs) \subseteq Elements(chain)
    /\ flight.blockIn \subseteq Elements(chain)
    /\ Elements(stale) \subseteq Elements(chain)
    /\ pc \notin {"undo", "undoSum"}
    /\ mode = "clear" => pc \notin {"fetch", "entry", "record"}

\* What the walk has behind it is recorded, wherever it is; so is what the cursor,
\* and the update of it in flight, have below them.
Covered ==
    /\ rawCached = {}
    /\ Upto(chain, recorded, cursor - 1)
    /\ Upto(chain, recorded, cursorWrite - 1)
    /\ pc = "loop" => Upto(chain, recorded, db)
    /\ pc \in {"fetch", "entry", "record"} => db >= 1 /\ Upto(chain, recorded, db - 1)
    /\ pc \in {"entry", "record"} => db <= Len(chain) /\ Left(chain[db], recorded, work, todo)
    /\ pc \in {"idle", "scan"} => Upto(chain, recorded, goal)

\* The cursor as it will be when the update in flight has landed.
Latest == IF cursorWrite = NoWrite THEN cursor ELSE cursorWrite

\* The walk never issues less than it issued last, when its reads of the cursor
\* see what it wrote.
Ordered ==
    /\ cursor <= Latest /\ Latest <= Len(chain) /\ goal <= Len(chain)
    /\ pc \in {"down", "begin", "scan"} => cursorWrite = NoWrite
    /\ pc = "loop" => Latest <= db + 1 /\ Latest <= goal
    /\ pc \in {"fetch", "entry", "record"} => Latest <= db /\ db <= goal

CursorInv ==
    reorgs = 0 =>
        /\ NothingStale
        /\ RawFetchable = {} => Covered
        /\ ~ SlowWrites => Ordered

-----------------------------------------------------------------------------
(* Sequences and chains.                                                   *)

\* A sequence that is not empty is its head and its tail.
LEMMA HeadAndTail ==
    ASSUME NEW S, NEW s \in Seq(S), s # <<>>
    PROVE  Elements(s) = {Head(s)} \union Elements(Tail(s))
<1>1. /\ Len(s) \in Nat /\ Len(Tail(s)) = Len(s) - 1 /\ Len(s) >= 1
      /\ \A i \in 1..(Len(s) - 1) : Tail(s)[i] = s[i + 1]
      /\ Head(s) = s[1]
  <2>1. Len(s) \in Nat /\ Len(s) # 0
    BY EmptySeq, LenProperties
  <2> QED BY <2>1, HeadTailProperties
<1>2. ASSUME NEW i \in 1..Len(s) PROVE s[i] \in {Head(s)} \union Elements(Tail(s))
  <2>1. CASE i = 1
    BY <1>1, <2>1
  <2>2. CASE i # 1
    <3>1. i - 1 \in 1..(Len(s) - 1) /\ (i - 1) + 1 = i
      BY <1>1, <2>2
    <3>2. Tail(s)[i - 1] = s[i] /\ i - 1 \in 1..Len(Tail(s))
      BY <1>1, <3>1
    <3> QED BY <3>2 DEF Elements
  <2> QED BY <2>1, <2>2
<1>3. ASSUME NEW i \in 1..Len(Tail(s)) PROVE Tail(s)[i] \in Elements(s)
  <2>1. i + 1 \in 1..Len(s) /\ Tail(s)[i] = s[i + 1]
    BY <1>1
  <2> QED BY <2>1 DEF Elements
<1>4. Head(s) \in Elements(s)
  <2>1. 1 \in 1..Len(s)
    BY <1>1
  <2> QED BY <1>1, <2>1 DEF Elements
<1> QED BY <1>2, <1>3, <1>4 DEF Elements

LEMMA NoElements == Elements(<<>>) = {}
BY EmptySeq DEF Elements

LEMMA ElementsOfAppend ==
    ASSUME NEW S, NEW s \in Seq(S), NEW x \in S
    PROVE  Elements(Append(s, x)) \subseteq Elements(s) \union {x}
<1>1. /\ Len(Append(s, x)) = Len(s) + 1 /\ Len(s) \in Nat
      /\ \A i \in 1..Len(s) : Append(s, x)[i] = s[i]
      /\ Append(s, x)[Len(s) + 1] = x
  BY AppendProperties, LenProperties
<1> QED BY <1>1 DEF Elements

\* splice takes out and adds nothing.
LEMMA ElementsOfSpliced ==
    ASSUME NEW S, NEW s \in Seq(S), NEW x
    PROVE  Elements(Spliced(s, x)) \subseteq Elements(s)
<1>1. CASE \E i \in 1..Len(s) : s[i] = x
  <2> DEFINE i == CHOOSE j \in 1..Len(s) : s[j] = x
             before == SubSeq(s, 1, i - 1)
             behind == SubSeq(s, i + 1, Len(s))
  <2>1. i \in 1..Len(s) /\ Len(s) \in Nat
    BY <1>1, LenProperties
  <2>2. Spliced(s, x) = before \o behind
    BY <1>1 DEF Spliced
  <2> HIDE DEF i
  <2>3. /\ before \in Seq(S) /\ Len(before) = i - 1
        /\ \A k \in 1..(i - 1) : before[k] = s[k]
    <3>1. \A k \in 1..(i - 1) : s[k] \in S
      BY <2>1, ElementOfSeq
    <3> QED BY <2>1, <3>1, SubSeqProperties
  <2>4. /\ behind \in Seq(S) /\ Len(behind) = Len(s) - i
        /\ \A k \in 1..(Len(s) - i) : behind[k] = s[i + k]
    BY <2>1, SubSeqProperties
  <2> HIDE DEF before, behind
  <2>5. /\ Len(before \o behind) = Len(before) + Len(behind)
        /\ \A k \in 1..(Len(before) + Len(behind)) :
              (before \o behind)[k] = IF k <= Len(before) THEN before[k]
                                      ELSE behind[k - Len(before)]
    BY <2>3, <2>4, ConcatProperties, Zenon
  <2>6. ASSUME NEW k \in 1..Len(before \o behind) PROVE (before \o behind)[k] \in Elements(s)
    <3>1. CASE k <= i - 1
      <4>1. (before \o behind)[k] = s[k] /\ k \in 1..Len(s)
        BY <2>1, <2>3, <2>4, <2>5, <3>1
      <4> QED BY <4>1 DEF Elements
    <3>2. CASE ~ (k <= i - 1)
      <4>1. /\ k - (i - 1) \in 1..(Len(s) - i)
            /\ (before \o behind)[k] = behind[k - (i - 1)]
        BY <2>1, <2>3, <2>4, <2>5, <3>2
      <4>2. (before \o behind)[k] = s[i + (k - (i - 1))] /\ i + (k - (i - 1)) \in 1..Len(s)
        BY <2>1, <2>4, <4>1
      <4> QED BY <4>2 DEF Elements
    <3> QED BY <3>1, <3>2
  <2> QED BY <2>2, <2>6 DEF Elements
<1>2. CASE ~ \E i \in 1..Len(s) : s[i] = x
  BY <1>2 DEF Spliced
<1> QED BY <1>1, <1>2

\* A block of the chain is at its height.
LEMMA AtItsHeight ==
    ASSUME NEW c \in Chains, NEW b \in Elements(c)
    PROVE  HeightOf[b] \in 1..Len(c) /\ c[HeightOf[b]] = b
BY ChainAssumption DEF Elements

\* A longer chain has the blocks of the shorter one, where they were.
LEMMA PrefixElements ==
    ASSUME NEW c \in Chains, NEW d \in Chains, IsPrefixOf(c, d)
    PROVE  /\ Elements(c) \subseteq Elements(d) /\ Len(c) <= Len(d)
           /\ \A i \in 1..Len(c) : d[i] = c[i]
<1>1. Len(c) \in Nat /\ Len(d) \in Nat
  BY ChainAssumption, LenProperties
<1> QED BY <1>1 DEF Elements, IsPrefixOf

\* What was recorded of a chain stays recorded of a longer one.
LEMMA UptoKept ==
    ASSUME NEW c \in Chains, NEW d \in Chains, IsPrefixOf(c, d), NEW p, NEW q, p \subseteq q,
           NEW n \in Int, Upto(c, p, n)
    PROVE  Upto(d, q, n)
<1>1. Len(c) \in Nat /\ Len(d) \in Nat
  BY ChainAssumption, LenProperties
<1> SUFFICES ASSUME NEW h \in 1..n PROVE h <= Len(d) /\ PostedIn(d[h], q)
  BY DEF Upto
<1>2. h <= Len(c) /\ PostedIn(c[h], p)
  BY DEF Upto
<1>3. h \in 1..Len(c)
  BY <1>1, <1>2
<1>4. d[h] = c[h] /\ h <= Len(d)
  BY <1>1, <1>3 DEF IsPrefixOf
<1> QED BY <1>2, <1>4 DEF PostedIn

\* Below what is covered everything is, and below the first block there is nothing.
LEMMA UptoBelow ==
    ASSUME NEW c, NEW p, NEW n \in Int, NEW m \in Int, m <= n, Upto(c, p, n)
    PROVE  Upto(c, p, m)
BY DEF Upto

LEMMA UptoNothing ==
    ASSUME NEW c, NEW p, NEW n \in Int, n <= 0
    PROVE  Upto(c, p, n)
BY DEF Upto

\* One block more.
LEMMA UptoNext ==
    ASSUME NEW c, NEW p, NEW n \in Nat, n >= 1, n <= Len(c), Len(c) \in Nat,
           Upto(c, p, n - 1), PostedIn(c[n], p)
    PROVE  Upto(c, p, n)
BY DEF Upto

-----------------------------------------------------------------------------
(* The chain only grows.                                                   *)

\* A step after which no block was ever replaced is one that replaces none.
LEMMA OnlyGrows ==
    ASSUME TypeOK, [Next]_vars, reorgs' = 0
    PROVE  reorgs = 0 /\ chain \in Chains /\ chain' \in Chains /\ IsPrefixOf(chain, chain')
<1> USE DEF env, records, book, writes, process
<1>1. reorgs \in Nat /\ chain \in Chains
  BY DEF TypeOK, StoreTypeOK
<1>2. chain' \in Chains
  BY TypeNext DEF TypeOK, StoreTypeOK
<1>3. IsPrefixOf(chain, chain)
  <2>1. Len(chain) \in Nat
    BY <1>1, ChainAssumption, LenProperties
  <2> QED BY <2>1 DEF IsPrefixOf
<1>4. CASE UNCHANGED <<chain, reorgs>>
  BY <1>1, <1>2, <1>3, <1>4
<1>5. CASE Mine
  BY <1>1, <1>2, <1>5 DEF Mine
<1>6. CASE Reorganize
  BY <1>1, <1>6 DEF Reorganize
<1>7. Sync => UNCHANGED <<chain, reorgs>>
  BY DEF Sync, ReadHeights, NextBlock, SyncDone
<1>8. Walk => UNCHANGED <<chain, reorgs>>
  BY DEF Walk, FetchBlock, NextTx, SkipEntry, PostEntry, RecordEntry, BlockDone
<1>9. Clear => UNCHANGED <<chain, reorgs>>
  BY DEF Clear, Tick, ScanMatch, ScanMismatch, ScanThrows, ScanDone, UndoTx, UndoRecord, UndoSum,
         UndoDone
<1>10. Failures => UNCHANGED <<chain, reorgs>>
  BY DEF Failures, ReadHeightsFails, FetchBlockFails, NextTxFails, ScanFails
<1>11. Deliver => UNCHANGED <<chain, reorgs>>
  BY DEF Deliver, DeliverCursor, DeliverBlockIn, DeliverBlockOut, DeliverLockIn, DeliverLockOut
<1>12. FetchRaw \/ Crash \/ Restart => UNCHANGED <<chain, reorgs>>
  BY DEF FetchRaw, Crash, Restart
<1>13. UNCHANGED vars => UNCHANGED <<chain, reorgs>>
  BY DEF vars
<1> QED BY <1>4, <1>5, <1>6, <1>7, <1>8, <1>9, <1>10, <1>11, <1>12, <1>13 DEF Next, Environment

-----------------------------------------------------------------------------
(* Nothing is stale.                                                       *)

\* A block of the chain is what the chain has at its height.
LEMMA NoMismatch ==
    ASSUME TypeOK, NothingStale, stale # <<>>
    PROVE  ~ Mismatch
<1>1. chain \in Chains /\ stale \in Seq(Blocks)
  BY DEF TypeOK, StoreTypeOK, ProcessTypeOK
<1>2. Head(stale) \in Elements(chain)
  BY <1>1, HeadAndTail DEF NothingStale
<1> QED BY <1>1, <1>2, AtItsHeight DEF Mismatch, Differs

\* The end of the process forgets what it looked at and had issued.
LEMMA StopStale ==
    ASSUME NothingStale, Stop, Elements(chain) \subseteq Elements(chain')
    PROVE  NothingStale'
<1>1. Elements(blockDocs') \subseteq Elements(chain')
  BY DEF Stop, NothingStale
<1>2. flight'.blockIn = {} /\ Elements(stale') = {} /\ pc' = "down" /\ mode' = "sync"
  BY NoElements DEF Stop, NoFlight
<1> QED BY <1>1, <1>2 DEF NothingStale

LEMMA StaleNext ==
    ASSUME TypeOK, NothingStale, [Next]_vars, reorgs' = 0
    PROVE  NothingStale'
<1> USE DEF env, records, book, writes, process
<1>0. /\ chain \in Chains /\ Elements(chain) \subseteq Elements(chain')
      /\ blockDocs \in Seq(Blocks) /\ stale \in Seq(Blocks)
      /\ flight.blockIn \subseteq Blocks
      /\ mode \in {"sync", "clear"} /\ (pc = "loop" => mode = "sync")
  BY OnlyGrows, PrefixElements DEF TypeOK, StoreTypeOK, ProcessTypeOK, PlaceOK
<1> DEFINE Same == UNCHANGED <<blockDocs, flight, stale>>
<1>1. CASE Sync
  <2>1. Same /\ pc' \in {"loop", "fetch", "idle"} /\ (pc' = "fetch" => mode' = "sync")
    BY <1>0, <1>1 DEF Sync, ReadHeights, NextBlock, SyncDone
  <2> QED BY <1>0, <2>1 DEF NothingStale
<1>2. CASE FetchBlock
  <2>1. chain[db] \in Elements(chain)
    BY <1>2 DEF FetchBlock, Elements
  <2>2. flight'.blockIn = flight.blockIn \union {chain[db]}
    BY <1>2 DEF FetchBlock, TypeOK, StoreTypeOK
  <2> QED BY <1>0, <1>2, <2>1, <2>2 DEF FetchBlock, NothingStale
<1>3. CASE NextTx \/ SkipEntry \/ RecordEntry
  BY <1>0, <1>3 DEF NextTx, SkipEntry, RecordEntry, NothingStale
<1>4. CASE PostEntry
  <2>1. flight'.blockIn = flight.blockIn
    BY <1>4 DEF PostEntry, Post, TypeOK, StoreTypeOK
  <2> QED BY <1>0, <1>4, <2>1 DEF PostEntry, NothingStale
<1>5. CASE BlockDone
  <2>1. mode = "sync"
    BY <1>0, <1>5 DEF BlockDone, NothingStale
  <2> QED BY <1>0, <1>5, <2>1 DEF BlockDone, NothingStale
<1>6. CASE Tick
  BY <1>0, <1>6 DEF Tick, NothingStale
<1>7. CASE ScanMatch
  <2>1. Elements(Tail(stale)) \subseteq Elements(stale)
    BY <1>0, <1>7, HeadAndTail DEF ScanMatch
  <2> QED BY <1>0, <1>7, <2>1 DEF ScanMatch, NothingStale
<1>8. CASE ScanMismatch \/ ScanThrows
  BY <1>8, NoMismatch DEF ScanMismatch, ScanThrows
<1>9. CASE ScanDone
  BY <1>0, <1>9 DEF ScanDone, NothingStale
<1>10. CASE UndoTx \/ UndoRecord \/ UndoSum \/ UndoDone
  BY <1>10 DEF UndoTx, UndoRecord, UndoSum, UndoDone, NothingStale
<1>11. CASE ReadHeightsFails
  BY <1>0, <1>11 DEF ReadHeightsFails, NothingStale
<1>12. CASE FetchBlockFails
  <2>1. mode = "sync"
    BY <1>0, <1>12 DEF FetchBlockFails, NothingStale
  <2>2. Stop
    BY <1>12, <2>1 DEF FetchBlockFails
  <2> QED BY <1>0, <2>2, StopStale
<1>13. CASE NextTxFails \/ Crash
  <2>1. Stop
    BY <1>13 DEF NextTxFails, Crash
  <2> QED BY <1>0, <2>1, StopStale
<1>14. CASE ScanFails
  BY <1>0, <1>14, NoElements DEF ScanFails, Abort, NothingStale
<1>15. CASE DeliverBlockIn
  <2>1. PICK b \in flight.blockIn : /\ blockDocs' \in Inserted(b)
                                    /\ flight' = [flight EXCEPT !.blockIn = @ \ {b}]
    BY <1>15 DEF DeliverBlockIn
  <2>2. Elements(blockDocs') \subseteq Elements(blockDocs) \union {b}
    <3>1. b \in Blocks
      BY <1>0
    <3>2. CASE blockDocs' = blockDocs
      BY <3>2
    <3>3. CASE blockDocs' = Append(blockDocs, b)
      BY <1>0, <3>1, <3>3, ElementsOfAppend
    <3>4. CASE blockDocs # <<>> /\ blockDocs' = Append(Tail(blockDocs), b)
      <4>1. Tail(blockDocs) \in Seq(Blocks)
        BY <1>0, <3>4, HeadTailProperties
      <4>2. Elements(Tail(blockDocs)) \subseteq Elements(blockDocs)
        BY <1>0, <3>4, HeadAndTail
      <4>3. Elements(Append(Tail(blockDocs), b)) \subseteq Elements(Tail(blockDocs)) \union {b}
        BY <3>1, <4>1, ElementsOfAppend
      <4> QED BY <3>4, <4>2, <4>3
    <3> QED BY <2>1, <3>2, <3>3, <3>4 DEF Inserted
  <2>3. flight'.blockIn \subseteq flight.blockIn
    BY <2>1 DEF TypeOK, StoreTypeOK
  <2> QED BY <1>0, <1>15, <2>1, <2>2, <2>3 DEF DeliverBlockIn, NothingStale
<1>16. CASE DeliverBlockOut
  <2>1. PICK b \in flight.blockOut : /\ blockDocs' = Spliced(blockDocs, b)
                                     /\ flight' = [flight EXCEPT !.blockOut = @ \ {b}]
    BY <1>16 DEF DeliverBlockOut
  <2>2. Elements(blockDocs') \subseteq Elements(blockDocs)
    BY <1>0, <2>1, ElementsOfSpliced
  <2>3. flight'.blockIn = flight.blockIn
    BY <2>1 DEF TypeOK, StoreTypeOK
  <2> QED BY <1>0, <1>16, <2>2, <2>3 DEF DeliverBlockOut, NothingStale
<1>17. CASE DeliverCursor
  BY <1>0, <1>17 DEF DeliverCursor, NothingStale
<1>18. CASE DeliverLockIn \/ DeliverLockOut
  <2>1. flight'.blockIn = flight.blockIn
    BY <1>18 DEF DeliverLockIn, DeliverLockOut, TypeOK, StoreTypeOK
  <2> QED BY <1>0, <1>18, <2>1 DEF DeliverLockIn, DeliverLockOut, NothingStale
<1>19. CASE Mine \/ Reorganize \/ FetchRaw
  BY <1>0, <1>19 DEF Mine, Reorganize, FetchRaw, NothingStale
<1>20. CASE Restart
  BY <1>0, <1>20 DEF Restart, NothingStale
<1>21. CASE UNCHANGED vars
  BY <1>0, <1>21 DEF vars, NothingStale
<1> QED BY <1>1, <1>2, <1>3, <1>4, <1>5, <1>6, <1>7, <1>8, <1>9, <1>10, <1>11, <1>12, <1>13, <1>14,
           <1>15, <1>16, <1>17, <1>18, <1>19, <1>20, <1>21
        DEF Next, Walk, Clear, Failures, Deliver, Environment

-----------------------------------------------------------------------------
(* What is behind the walk is recorded.                                    *)

\* The end of the process takes the update of the cursor in flight with it.
LEMMA StopCovered ==
    ASSUME TypeOK, Covered, Stop, chain' = chain
    PROVE  Covered'
<1>1. /\ rawCached' = {} /\ cursor' = cursor /\ cursorWrite' = -1 /\ recorded' = recorded
      /\ pc' = "down"
  BY DEF Stop, NoWrite, records
<1>2. cursorWrite' - 1 \in Int /\ cursorWrite' - 1 <= 0
  BY <1>1
<1>3. Upto(chain', recorded', cursorWrite' - 1)
  BY <1>2, UptoNothing
<1> QED BY <1>1, <1>3 DEF Covered

\* What is at hand gets shorter by what has been recorded.
LEMMA LeftShrinks ==
    ASSUME TypeOK, rawCached = {}, NextTx \/ SkipEntry \/ PostEntry \/ RecordEntry,
           NEW b, Left(b, recorded, work, todo)
    PROVE  Left(b, recorded', work', todo')
<1> USE DEF env, records, book, writes, process
<1>0. work \in Seq(TxIds) /\ todo \in Seq(AllEntries) /\ recorded \subseteq recorded'
  BY DEF TypeOK, ProcessTypeOK, NextTx, SkipEntry, PostEntry, RecordEntry
<1> SUFFICES ASSUME NEW e \in Entries, e.tx \in Elements(BlockTxs[b]), Doc(e) \notin recorded'
             PROVE  e.tx \in Elements(work') \/ e \in Elements(todo')
  BY DEF Left
<1>1. e.tx \in Elements(work) \/ e \in Elements(todo)
  BY <1>0 DEF Left
<1>2. CASE NextTx
  <2>1. work # <<>> /\ todo = <<>> /\ work' = Tail(work) /\ todo' = Plan[Head(work)]
    BY <1>2 DEF NextTx
  <2>2. e.tx \in {Head(work)} \union Elements(Tail(work))
    BY <1>0, <1>1, <2>1, HeadAndTail, NoElements
  <2>3. e \in Elements(Plan[e.tx])
    <3>1. PICK t \in TxIds : \E i \in 1..Len(Plan[t]) : Plan[t][i] = e
      BY DEF Entries, AllEntries
    <3>2. e.tx = t
      BY <3>1, PlanAssumption
    <3> QED BY <3>1, <3>2 DEF Elements
  <2> QED BY <2>1, <2>2, <2>3
<1>3. CASE SkipEntry
  <2>1. todo # <<>> /\ todo' = Tail(todo) /\ work' = work /\ recorded' = recorded
    BY <1>3 DEF SkipEntry
  <2>2. e # Head(todo)
    BY <1>3, <2>1 DEF SkipEntry, Entries
  <2> QED BY <1>0, <1>1, <2>1, <2>2, HeadAndTail
<1>4. CASE PostEntry
  BY <1>1, <1>4 DEF PostEntry
<1>5. CASE RecordEntry
  <2>1. todo # <<>>
    BY <1>5 DEF RecordEntry, TypeOK, PlaceOK
  <2>2. todo' = Tail(todo) /\ work' = work /\ e # Head(todo)
    BY <1>5 DEF RecordEntry
  <2> QED BY <1>0, <1>1, <2>1, <2>2, HeadAndTail
<1> QED BY <1>2, <1>3, <1>4, <1>5

\* What is left of the block shrinks by what is recorded or not recorded at all.
LEMMA WalkCovered ==
    ASSUME TypeOK, Covered, NextTx \/ SkipEntry \/ PostEntry \/ RecordEntry
    PROVE  Covered'
<1> USE DEF env, records, book, writes, process
<1>0. /\ chain \in Chains /\ recorded \subseteq recorded' /\ chain' = chain /\ IsPrefixOf(chain, chain)
      /\ UNCHANGED <<cursor, cursorWrite, db, rawCached>>
      /\ cursor - 1 \in Int /\ cursorWrite - 1 \in Int /\ db - 1 \in Int
      /\ pc \in {"entry", "record"} /\ pc' \in {"entry", "record"}
      /\ work \in Seq(TxIds) /\ todo \in Seq(AllEntries)
  <2>1. /\ chain \in Chains /\ cursor \in Nat /\ cursorWrite \in Nat \union {-1} /\ db \in Nat
        /\ work \in Seq(TxIds) /\ todo \in Seq(AllEntries)
    BY DEF TypeOK, StoreTypeOK, ProcessTypeOK, NoWrite
  <2>2. IsPrefixOf(chain, chain)
    <3>1. Len(chain) \in Nat
      BY <2>1, ChainAssumption, LenProperties
    <3> QED BY <3>1 DEF IsPrefixOf
  <2>3. /\ recorded \subseteq recorded' /\ chain' = chain /\ UNCHANGED <<cursor, cursorWrite, db, rawCached>>
        /\ pc \in {"entry", "record"} /\ pc' \in {"entry", "record"}
    BY DEF NextTx, SkipEntry, PostEntry, RecordEntry
  <2> QED BY <2>1, <2>2, <2>3
<1>1. /\ rawCached = {} /\ db >= 1 /\ db <= Len(chain)
      /\ Upto(chain, recorded, cursor - 1) /\ Upto(chain, recorded, cursorWrite - 1)
      /\ Upto(chain, recorded, db - 1) /\ Left(chain[db], recorded, work, todo)
  BY <1>0 DEF Covered
<1>2. /\ Upto(chain', recorded', cursor' - 1) /\ Upto(chain', recorded', cursorWrite' - 1)
      /\ Upto(chain', recorded', db' - 1)
  BY <1>0, <1>1, UptoKept
<1>3. Left(chain[db], recorded', work', todo')
  BY <1>1, LeftShrinks
<1> QED BY <1>0, <1>1, <1>2, <1>3 DEF Covered

\* A block of which nothing is left is recorded.
LEMMA BlockDoneCovered ==
    ASSUME TypeOK, NothingStale, Covered, BlockDone
    PROVE  Covered'
<1> USE DEF env, records, book, writes, process
<1>1. /\ todo = <<>> /\ work = <<>> /\ pc = "entry" /\ pc' = "loop"
      /\ UNCHANGED <<chain, recorded, cursor, cursorWrite, db, rawCached>>
  BY DEF BlockDone, NothingStale, TypeOK, ProcessTypeOK
<1>2. /\ db \in Nat /\ db >= 1 /\ db <= Len(chain) /\ Upto(chain, recorded, db - 1)
      /\ Left(chain[db], recorded, work, todo)
  BY <1>1 DEF Covered, TypeOK, ProcessTypeOK
<1>3. PostedIn(chain[db], recorded)
  BY <1>1, <1>2, NoElements DEF PostedIn, Left, Elements
<1>4. Len(chain) \in Nat
  BY ChainAssumption, LenProperties DEF TypeOK, StoreTypeOK
<1>5. Upto(chain, recorded, db)
  BY <1>2, <1>3, <1>4, UptoNext
<1> QED BY <1>1, <1>5 DEF Covered

\* The walk begins one block below the cursor, goes on to the next one, and ends.
LEMMA SyncCovered ==
    ASSUME TypeOK, Covered, Sync
    PROVE  Covered'
<1> USE DEF env, records, book, writes, process
<1>1. /\ cursor \in Nat /\ cursorWrite \in Nat \union {-1} /\ db \in Nat /\ goal \in Nat
      /\ UNCHANGED <<chain, recorded, rawCached>>
  BY DEF TypeOK, StoreTypeOK, ProcessTypeOK, NoWrite, Sync, ReadHeights, NextBlock, SyncDone
<1>2. CASE ReadHeights
  <2>1. db' = (IF cursor > 0 THEN cursor - 1 ELSE 0) /\ pc' = "loop" /\ UNCHANGED <<cursor, cursorWrite>>
    BY <1>2 DEF ReadHeights, ResumeHeight
  <2>2. Upto(chain, recorded, db')
    <3>1. CASE cursor > 0
      BY <2>1, <3>1 DEF Covered
    <3>2. CASE ~ (cursor > 0)
      BY <2>1, <3>2, UptoNothing
    <3> QED BY <3>1, <3>2
  <2> QED BY <1>1, <2>1, <2>2 DEF Covered
<1>3. CASE NextBlock \/ SyncDone
  <2>1. PICK n \in {db + 1, goal} : /\ cursor' \in {cursor, cursorWrite} /\ cursorWrite' = n
                                    /\ n <= db + 1
    BY <1>1, <1>3 DEF NextBlock, SyncDone, IssueCursor
  <2>2. Upto(chain, recorded, db)
    BY <1>3 DEF NextBlock, SyncDone, Covered
  <2>3. Upto(chain, recorded, cursorWrite' - 1)
    <3>1. n - 1 \in Int /\ n - 1 <= db /\ db \in Int
      BY <1>1, <2>1
    <3> QED BY <2>1, <2>2, <3>1, UptoBelow
  <2>4. Upto(chain, recorded, cursor' - 1)
    BY <2>1 DEF Covered
  <2>5. CASE NextBlock
    <3>1. db' = db + 1 /\ pc' = "fetch"
      BY <2>5 DEF NextBlock
    <3>2. db' >= 1 /\ db' - 1 = db
      BY <1>1, <3>1
    <3> QED BY <1>1, <2>2, <2>3, <2>4, <3>1, <3>2 DEF Covered
  <2>6. CASE SyncDone
    <3>1. goal <= db /\ goal' = goal /\ pc' = "idle"
      BY <2>6 DEF SyncDone
    <3>2. Upto(chain, recorded, goal)
      BY <1>1, <2>2, <3>1, UptoBelow
    <3> QED BY <1>1, <2>3, <2>4, <3>1, <3>2 DEF Covered
  <2> QED BY <1>3, <2>5, <2>6
<1> QED BY <1>2, <1>3 DEF Sync

LEMMA CoverNext ==
    ASSUME TypeOK, NothingStale, Covered, RawFetchable = {}, [Next]_vars, reorgs' = 0
    PROVE  Covered'
<1> USE DEF env, records, book, writes, process
<1>0. /\ IsPrefixOf(chain, chain') /\ chain \in Chains /\ chain' \in Chains
      /\ cursor - 1 \in Int /\ cursorWrite - 1 \in Int /\ db \in Nat /\ db - 1 \in Int /\ goal \in Nat
  <2>1. cursor \in Nat /\ cursorWrite \in Nat \union {-1} /\ db \in Nat /\ goal \in Nat
    BY DEF TypeOK, StoreTypeOK, ProcessTypeOK, NoWrite
  <2> QED BY <2>1, OnlyGrows
<1>1. CASE Sync
  BY <1>1, SyncCovered
<1>2. CASE FetchBlock
  <2>1. Left(chain[db], recorded, BlockTxs[chain[db]], todo)
    BY DEF Left
  <2>2. db <= Len(chain)
    BY <1>2 DEF FetchBlock
  <2> QED BY <1>2, <2>1, <2>2 DEF FetchBlock, Covered
<1>3. CASE NextTx \/ SkipEntry \/ PostEntry \/ RecordEntry
  BY <1>3, WalkCovered
<1>4. CASE BlockDone
  BY <1>4, BlockDoneCovered
<1>5. CASE Tick \/ ScanMatch \/ ScanDone
  BY <1>5 DEF Tick, ScanMatch, ScanDone, Covered
<1>6. CASE ScanMismatch \/ ScanThrows
  BY <1>6, NoMismatch DEF ScanMismatch, ScanThrows
<1>7. CASE UndoTx \/ UndoRecord \/ UndoSum \/ UndoDone
  BY <1>7 DEF UndoTx, UndoRecord, UndoSum, UndoDone, NothingStale
<1>8. CASE ReadHeightsFails
  BY <1>8 DEF ReadHeightsFails, Covered
<1>9. CASE FetchBlockFails
  <2>1. mode = "sync"
    BY <1>9 DEF FetchBlockFails, NothingStale, TypeOK, ProcessTypeOK
  <2> QED BY <1>9, <2>1, StopCovered DEF FetchBlockFails
<1>10. CASE NextTxFails \/ Crash
  BY <1>10, StopCovered DEF NextTxFails, Crash
<1>11. CASE ScanFails
  BY <1>11 DEF ScanFails, Abort, Covered
<1>12. CASE DeliverCursor
  <2>1. cursor' = cursorWrite /\ cursorWrite' = -1
    BY <1>12 DEF DeliverCursor, NoWrite
  <2>2. Upto(chain, recorded, cursorWrite' - 1)
    <3>1. cursorWrite' - 1 \in Int /\ cursorWrite' - 1 <= 0
      BY <2>1
    <3> QED BY <3>1, UptoNothing
  <2> QED BY <1>12, <2>1, <2>2 DEF DeliverCursor, Covered
<1>13. CASE DeliverBlockIn \/ DeliverBlockOut \/ DeliverLockIn \/ DeliverLockOut
  BY <1>13 DEF DeliverBlockIn, DeliverBlockOut, DeliverLockIn, DeliverLockOut, Covered
<1>14. CASE Mine \/ Reorganize
  <2>1. UNCHANGED <<recorded, cursor, cursorWrite, rawCached, pc, db, goal, work, todo>>
    BY <1>14 DEF Mine, Reorganize
  <2>2. ASSUME NEW n \in Int, Upto(chain, recorded, n) PROVE Upto(chain', recorded', n)
    BY <1>0, <2>1, <2>2, UptoKept
  <2>3. /\ Upto(chain', recorded', cursor - 1) /\ Upto(chain', recorded', cursorWrite - 1)
        /\ pc = "loop" => Upto(chain', recorded', db)
        /\ pc \in {"fetch", "entry", "record"} => Upto(chain', recorded', db - 1)
        /\ pc \in {"idle", "scan"} => Upto(chain', recorded', goal)
    BY <1>0, <2>2 DEF Covered
  <2>4. db >= 1 /\ db <= Len(chain) => chain'[db] = chain[db] /\ db <= Len(chain')
    <3>1. Len(chain) \in Nat /\ Len(chain') \in Nat
      BY <1>0, ChainAssumption, LenProperties
    <3> QED BY <1>0, <3>1, PrefixElements
  <2> QED BY <2>1, <2>3, <2>4 DEF Covered
<1>15. CASE FetchRaw
  BY <1>15 DEF FetchRaw
<1>16. CASE Restart
  BY <1>16 DEF Restart, Covered
<1>17. CASE UNCHANGED vars
  BY <1>17 DEF vars, Covered
<1> QED BY <1>1, <1>2, <1>3, <1>4, <1>5, <1>6, <1>7, <1>8, <1>9, <1>10, <1>11, <1>12, <1>13, <1>14,
           <1>15, <1>16, <1>17
        DEF Next, Walk, Clear, Failures, Deliver, Environment

-----------------------------------------------------------------------------
(* The cursor never moves back.                                            *)

LEMMA OrderNext ==
    ASSUME TypeOK, NothingStale, Ordered, ~ SlowWrites, [Next]_vars, reorgs' = 0
    PROVE  Ordered' /\ cursor' >= cursor
<1> USE DEF env, records, book, writes, process
<1>0. /\ cursor \in Nat /\ cursorWrite \in Nat \union {-1} /\ db \in Nat /\ goal \in Nat
      /\ Len(chain) \in Nat /\ Len(chain') \in Nat /\ Len(chain) <= Len(chain')
      /\ Latest \in Nat
  <2>1. /\ cursor \in Nat /\ cursorWrite \in Nat \union {-1} /\ db \in Nat /\ goal \in Nat
    BY DEF TypeOK, StoreTypeOK, ProcessTypeOK, NoWrite
  <2>2. /\ Len(chain) \in Nat /\ Len(chain') \in Nat /\ Len(chain) <= Len(chain')
    <3>1. chain \in Chains /\ chain' \in Chains /\ IsPrefixOf(chain, chain')
      BY OnlyGrows
    <3> QED BY <3>1, PrefixElements, ChainAssumption, LenProperties
  <2> QED BY <2>1, <2>2 DEF Latest, NoWrite
<1>1. CASE ReadHeights
  <2>1. /\ UNCHANGED <<cursor, cursorWrite, chain>> /\ Latest' = Latest /\ Latest = cursor
        /\ db' = (IF cursor > 0 THEN cursor - 1 ELSE 0) /\ goal' = Len(chain) /\ pc' = "loop"
    BY <1>1 DEF ReadHeights, ResumeHeight, Latest, Ordered
  <2> QED BY <1>0, <2>1 DEF Ordered
<1>2. CASE NextBlock
  <2>1. /\ cursor' = Latest /\ Latest' = db + 1 /\ db' = db + 1 /\ goal' = goal /\ goal > db
        /\ chain' = chain /\ pc = "loop" /\ pc' = "fetch"
    BY <1>0, <1>2 DEF NextBlock, IssueCursor, Latest, NoWrite
  <2> QED BY <1>0, <2>1 DEF Ordered
<1>3. CASE SyncDone
  <2>1. /\ cursor' = Latest /\ Latest' = goal /\ goal' = goal
        /\ chain' = chain /\ pc = "loop" /\ pc' = "idle"
    BY <1>0, <1>3 DEF SyncDone, IssueCursor, Latest, NoWrite
  <2> QED BY <1>0, <2>1 DEF Ordered
<1>4. CASE FetchBlock \/ NextTx \/ SkipEntry \/ PostEntry \/ RecordEntry
  <2>1. /\ UNCHANGED <<cursor, cursorWrite, chain, db, goal>> /\ Latest' = Latest
        /\ pc \in {"fetch", "entry", "record"} /\ pc' \in {"entry", "record"}
    BY <1>4 DEF FetchBlock, NextTx, SkipEntry, PostEntry, RecordEntry, Latest
  <2> QED BY <1>0, <2>1 DEF Ordered
<1>5. CASE BlockDone
  <2>1. /\ UNCHANGED <<cursor, cursorWrite, chain, db, goal>> /\ Latest' = Latest
        /\ pc = "entry" /\ pc' = "loop"
    BY <1>5 DEF BlockDone, NothingStale, TypeOK, ProcessTypeOK, Latest
  <2> QED BY <1>0, <2>1 DEF Ordered
<1>6. CASE Tick
  <2>1. /\ UNCHANGED <<cursor, cursorWrite, chain, db, goal>> /\ Latest' = Latest
        /\ pc' = "scan" /\ cursorWrite = NoWrite
    BY <1>6 DEF Tick, Latest
  <2> QED BY <1>0, <2>1 DEF Ordered
<1>7. CASE ScanMatch \/ ScanDone \/ Restart \/ UNCHANGED vars
  <2>1. /\ UNCHANGED <<cursor, cursorWrite, chain, db, goal>> /\ Latest' = Latest
        /\ \/ pc \in {"scan", "down"} /\ pc' \in {"scan", "begin"}
           \/ pc' = pc
    BY <1>7 DEF ScanMatch, ScanDone, Restart, vars, Latest
  <2> QED BY <1>0, <2>1 DEF Ordered
<1>8. CASE ScanMismatch \/ ScanThrows
  BY <1>8, NoMismatch DEF ScanMismatch, ScanThrows
<1>9. CASE UndoTx \/ UndoRecord \/ UndoSum \/ UndoDone
  BY <1>9 DEF UndoTx, UndoRecord, UndoSum, UndoDone, NothingStale
<1>10. CASE ReadHeightsFails \/ ScanFails
  <2>1. /\ UNCHANGED <<cursor, cursorWrite, chain, db, goal>> /\ Latest' = Latest
        /\ pc' \in {"dead", "idle"}
    BY <1>10 DEF ReadHeightsFails, ScanFails, Abort, Latest
  <2> QED BY <1>0, <2>1 DEF Ordered
<1>11. CASE FetchBlockFails \/ NextTxFails \/ Crash
  <2>1. Stop /\ chain' = chain
    BY <1>11 DEF FetchBlockFails, NextTxFails, Crash, NothingStale, TypeOK, ProcessTypeOK
  <2>2. /\ cursor' = cursor /\ cursorWrite' = NoWrite /\ goal' = 0 /\ pc' = "down"
        /\ Latest' = cursor
    BY <2>1 DEF Stop, Latest
  <2> QED BY <1>0, <2>1, <2>2 DEF Ordered
<1>12. CASE DeliverCursor
  <2>1. /\ cursor' = Latest /\ cursorWrite' = NoWrite /\ Latest' = Latest
        /\ UNCHANGED <<chain, db, goal, pc>>
    BY <1>0, <1>12 DEF DeliverCursor, Latest
  <2> QED BY <1>0, <2>1 DEF Ordered
<1>13. CASE DeliverBlockIn \/ DeliverBlockOut \/ DeliverLockIn \/ DeliverLockOut
            \/ Mine \/ Reorganize \/ FetchRaw
  <2>1. UNCHANGED <<cursor, cursorWrite, db, goal, pc>> /\ Latest' = Latest
    BY <1>13 DEF DeliverBlockIn, DeliverBlockOut, DeliverLockIn, DeliverLockOut, Mine, Reorganize,
                 FetchRaw, Latest
  <2> QED BY <1>0, <2>1 DEF Ordered
<1> QED BY <1>1, <1>2, <1>3, <1>4, <1>5, <1>6, <1>7, <1>8, <1>9, <1>10, <1>11, <1>12, <1>13
        DEF Next, Sync, Walk, Clear, Failures, Deliver, Environment

-----------------------------------------------------------------------------
LEMMA CursorInit == Init => CursorInv
<1> SUFFICES ASSUME Init PROVE CursorInv
  OBVIOUS
<1> USE DEF Init
<1>1. NothingStale
  BY NoElements DEF NothingStale, NoFlight
<1>2. Covered
  <2>1. cursor - 1 \in Int /\ cursor - 1 <= 0 /\ cursorWrite - 1 \in Int /\ cursorWrite - 1 <= 0
    BY DEF NoWrite
  <2> QED BY <2>1, UptoNothing DEF Covered
<1>3. Ordered
  <2>1. Len(chain) \in Nat
    BY ChainAssumption, LenProperties
  <2> QED BY <2>1 DEF Ordered, Latest, NoWrite
<1> QED BY <1>1, <1>2, <1>3 DEF CursorInv

LEMMA CursorNext == TypeOK /\ CursorInv /\ [Next]_vars => CursorInv'
<1> SUFFICES ASSUME TypeOK, CursorInv, [Next]_vars, reorgs' = 0
             PROVE  /\ NothingStale'
                    /\ RawFetchable = {} => Covered'
                    /\ ~ SlowWrites => Ordered'
  BY DEF CursorInv
<1>1. reorgs = 0
  BY OnlyGrows
<1> QED BY <1>1, StaleNext, CoverNext, OrderNext DEF CursorInv

LEMMA CursorInvHolds == Spec => [](TypeOK /\ CursorInv)
<1>1. Init => TypeOK /\ CursorInv
  BY TypeInit, CursorInit
<1>2. (TypeOK /\ CursorInv) /\ [Next]_vars => (TypeOK /\ CursorInv)'
  BY TypeNext, CursorNext
<1> QED BY <1>1, <1>2, PTL DEF Spec

\* Whatever is recorded upto a height is posted below it.
LEMMA UptoPosted ==
    ASSUME NEW n \in Int, Upto(chain, recorded, n)
    PROVE  \A h \in 1..n : h <= Len(chain) /\ Posted(chain[h])
BY DEF Upto, PostedIn, Posted

\* While the chain only grows and no transaction was read in raw form, every block
\* below the cursor, and below the update of it in flight, is recorded in full,
\* wherever the process dies and whatever reads fail.
THEOREM CursorIsCovered == Spec => []CursorCovered
<1>1. TypeOK /\ CursorInv => CursorCovered
  <2> SUFFICES ASSUME TypeOK, CursorInv, reorgs = 0, RawFetchable = {},
                      NEW k \in {cursor, cursorWrite}
               PROVE  \A h \in 1..(k - 1) : h <= Len(chain) /\ Posted(chain[h])
    BY DEF CursorCovered
  <2>1. k - 1 \in Int
    BY DEF TypeOK, StoreTypeOK, NoWrite
  <2>2. Upto(chain, recorded, k - 1)
    BY DEF CursorInv, Covered
  <2> QED BY <2>1, <2>2, UptoPosted
<1> QED BY <1>1, CursorInvHolds, PTL

\* ... and the service rests with everything posted up to the height it read.
THEOREM RestsWhenPosted == Spec => []RestsWithTipPosted
<1>1. TypeOK /\ CursorInv => RestsWithTipPosted
  <2> SUFFICES ASSUME TypeOK, CursorInv, reorgs = 0, RawFetchable = {}, pc = "idle"
               PROVE  \A h \in 1..goal : Posted(chain[h])
    BY DEF RestsWithTipPosted
  <2>1. goal \in Int
    BY DEF TypeOK, ProcessTypeOK
  <2>2. Upto(chain, recorded, goal)
    BY DEF CursorInv, Covered
  <2> QED BY <2>1, <2>2, UptoPosted
<1> QED BY <1>1, CursorInvHolds, PTL

\* When the writes nobody waits for land before the timer fires, the cursor never
\* moves back while the chain only grows.
THEOREM CursorNeverBack ==
  ASSUME ~ SlowWrites
  PROVE  Spec => CursorMonotone
<1>1. TypeOK /\ CursorInv /\ [Next]_vars => [reorgs' = 0 => cursor' >= cursor]_vars
  <2> SUFFICES ASSUME TypeOK, CursorInv, [Next]_vars, reorgs' = 0
               PROVE  cursor' >= cursor
    OBVIOUS
  <2>1. reorgs = 0
    BY OnlyGrows
  <2> QED BY <2>1, OrderNext DEF CursorInv
<1> QED BY <1>1, CursorInvHolds, PTL DEF Spec, CursorMonotone

-----------------------------------------------------------------------------
(* The order of the walk.                                                  *)

\* s is what is left of a sequence behind its first k elements.
LeftOf(s, whole, k) ==
    /\ k \in 0..Len(whole) /\ Len(s) = Len(whole) - k
    /\ \A m \in 1..Len(s) : s[m] = whole[k + m]

\* The first n transactions of block b are recorded; the first n inputs and outputs
\* of transaction t.
TxsUpto(b, posted, n) ==
    \A i \in 1..n : \A e \in Entries : e.tx = BlockTxs[b][i] => Doc(e) \in posted
EntriesUpto(t, posted, n) ==
    \A j \in 1..n : Valid(Plan[t][j]) => Doc(Plan[t][j]) \in posted

\* e comes first, in the order of the chain, of all that is not recorded.
FirstAt(h, i, e) ==
    /\ h \in 1..Len(chain) /\ Upto(chain, recorded, h - 1)
    /\ i \in 1..Len(BlockTxs[chain[h]]) /\ TxsUpto(chain[h], recorded, i - 1)
    /\ e.tx = BlockTxs[chain[h]][i]
    /\ \E j \in 1..Len(Plan[e.tx]) : Plan[e.tx][j] = e /\ EntriesUpto(e.tx, recorded, j - 1)

First(e) ==
    /\ e \in Entries /\ Doc(e) \notin recorded
    /\ \E h, i : FirstAt(h, i, e)

\* The walk leaves nothing unrecorded behind it in its block and its transaction.
AtTx(txids, i) ==
    /\ LeftOf(work, txids, i) /\ TxsUpto(chain[db], recorded, i - 1)
    /\ \E j \in 0..Len(Plan[txids[i]]) :
          LeftOf(todo, Plan[txids[i]], j) /\ EntriesUpto(txids[i], recorded, j)

InOrder ==
    /\ pc \in {"entry", "record"} =>
          LET txids == BlockTxs[chain[db]]
          IN  \/ LeftOf(work, txids, 0) /\ todo = <<>>
              \/ \E i \in 1..Len(txids) : AtTx(txids, i)
    /\ pc \notin {"entry", "record"} => todo = <<>>

IsLast(e) == last[e.side][e.addr] = IndexOf(e)

\* A value that is in its sum without a record is the one a crash cut off: it comes
\* first of all that is not recorded, and is still the last one of its address.
PostedOnce ==
    \A d \in Docs :
        /\ amount[d] \in {0, 1}
        /\ amount[d] = 1 /\ d \notin recorded =>
              \E e \in Entries : First(e) /\ Doc(e) = d /\ IsLast(e)

\* Only what is on the chain is recorded, and the walk rests at the height it issued.
OnlyChain ==
    /\ \A d \in recorded : OnChain(d.txid)
    /\ pc \in {"idle", "scan"} => Latest = goal
    /\ pc = "record" => IsLast(Head(todo))

-----------------------------------------------------------------------------
\* All of a sequence is left at its start, nothing at its end.
LEMMA LeftOfWhole ==
    ASSUME NEW S, NEW s \in Seq(S)
    PROVE  LeftOf(s, s, 0)
<1>1. Len(s) \in Nat
  BY LenProperties
<1> QED BY <1>1 DEF LeftOf

\* Where nothing is left, the whole is behind.
LEMMA LeftOfEmpty ==
    ASSUME NEW S, NEW whole \in Seq(S), NEW k, LeftOf(<<>>, whole, k)
    PROVE  k = Len(whole)
<1>1. Len(whole) \in Nat /\ Len(<<>>) = 0
  BY LenProperties
<1> QED BY <1>1 DEF LeftOf

\* The head of what is left comes next.
LEMMA LeftOfTail ==
    ASSUME NEW S, NEW whole \in Seq(S), NEW s \in Seq(S), NEW k, LeftOf(s, whole, k), s # <<>>
    PROVE  /\ k \in Nat /\ k + 1 \in 1..Len(whole)
           /\ Head(s) = whole[k + 1] /\ LeftOf(Tail(s), whole, k + 1)
<1>1. /\ Len(s) \in Nat /\ Len(whole) \in Nat /\ Len(Tail(s)) = Len(s) - 1 /\ Len(s) >= 1
      /\ \A i \in 1..(Len(s) - 1) : Tail(s)[i] = s[i + 1]
      /\ Head(s) = s[1]
  <2>1. Len(s) \in Nat /\ Len(s) # 0 /\ Len(whole) \in Nat
    BY EmptySeq, LenProperties
  <2> QED BY <2>1, HeadTailProperties
<1>2. k \in Nat /\ k + 1 \in 1..Len(whole) /\ Len(Tail(s)) = Len(whole) - (k + 1)
  BY <1>1 DEF LeftOf
<1>3. Head(s) = whole[k + 1]
  BY <1>1 DEF LeftOf
<1>4. ASSUME NEW m \in 1..Len(Tail(s)) PROVE Tail(s)[m] = whole[(k + 1) + m]
  <2>1. m + 1 \in 1..Len(s) /\ Tail(s)[m] = s[m + 1] /\ k + (m + 1) = (k + 1) + m
    BY <1>1, <1>2
  <2>2. s[m + 1] = whole[k + (m + 1)]
    BY <2>1 DEF LeftOf
  <2> QED BY <2>1, <2>2
<1> QED BY <1>2, <1>3, <1>4 DEF LeftOf

\* An input or output is where its transaction has it.
LEMMA EntryPlace ==
    ASSUME NEW e \in Entries
    PROVE  \E j \in 1..Len(Plan[e.tx]) : Plan[e.tx][j] = e
<1>1. PICK t \in TxIds : \E j \in 1..Len(Plan[t]) : Plan[t][j] = e
  BY DEF Entries, AllEntries
<1>2. e.tx = t
  BY <1>1, PlanAssumption
<1> QED BY <1>1, <1>2

\* A transaction of which everything is recorded, and a block.
LEMMA EntriesAll ==
    ASSUME NEW t \in TxIds, NEW p, EntriesUpto(t, p, Len(Plan[t])), NEW e \in Entries, e.tx = t
    PROVE  Doc(e) \in p
<1>1. PICK j \in 1..Len(Plan[t]) : Plan[t][j] = e
  BY EntryPlace
<1> QED BY <1>1, EntryFields DEF EntriesUpto

\* What comes first is one.
LEMMA OneFirst ==
    ASSUME TypeOK, NEW e, NEW f, First(e), First(f)
    PROVE  e = f
<1>1. \A x : First(x) => x \in Entries /\ Doc(x) \notin recorded /\ Valid(x)
  BY EntryFields DEF First
<1>2. PICK h, i : FirstAt(h, i, e)
  BY DEF First
<1>3. PICK g, k : FirstAt(g, k, f)
  BY DEF First
<1>ints. h \in Int /\ g \in Int /\ i \in Int /\ k \in Int /\ h >= 1 /\ g >= 1 /\ i >= 1 /\ k >= 1
  BY <1>2, <1>3 DEF FirstAt
<1>4. h = g
  <2>1. ~ h < g
    <3> SUFFICES ASSUME h < g PROVE FALSE
      OBVIOUS
    <3>1. h \in 1..(g - 1)
      BY <1>ints
    <3>2. PostedIn(chain[h], recorded)
      BY <1>3, <3>1 DEF FirstAt, Upto
    <3> QED BY <1>1, <1>2, <3>2 DEF FirstAt, PostedIn
  <2>2. ~ g < h
    <3> SUFFICES ASSUME g < h PROVE FALSE
      OBVIOUS
    <3>1. g \in 1..(h - 1)
      BY <1>ints
    <3>2. PostedIn(chain[g], recorded)
      BY <1>2, <3>1 DEF FirstAt, Upto
    <3> QED BY <1>1, <1>3, <3>2 DEF FirstAt, PostedIn
  <2> QED BY <1>ints, <2>1, <2>2
<1>5. i = k
  <2>1. ~ i < k
    <3> SUFFICES ASSUME i < k PROVE FALSE
      OBVIOUS
    <3>1. i \in 1..(k - 1)
      BY <1>ints
    <3> QED BY <1>1, <1>2, <1>3, <1>4, <3>1 DEF FirstAt, TxsUpto
  <2>2. ~ k < i
    <3> SUFFICES ASSUME k < i PROVE FALSE
      OBVIOUS
    <3>1. k \in 1..(i - 1)
      BY <1>ints
    <3> QED BY <1>1, <1>2, <1>3, <1>4, <3>1 DEF FirstAt, TxsUpto
  <2> QED BY <1>ints, <2>1, <2>2
<1>6. e.tx = f.tx
  BY <1>2, <1>3, <1>4, <1>5 DEF FirstAt
<1>7. PICK j \in 1..Len(Plan[e.tx]) : Plan[e.tx][j] = e /\ EntriesUpto(e.tx, recorded, j - 1)
  BY <1>2 DEF FirstAt
<1>8. PICK m \in 1..Len(Plan[e.tx]) : Plan[e.tx][m] = f /\ EntriesUpto(e.tx, recorded, m - 1)
  BY <1>3, <1>6 DEF FirstAt
<1>9. ~ j < m
  <2> SUFFICES ASSUME j < m PROVE FALSE
    OBVIOUS
  <2>1. j \in 1..(m - 1)
    OBVIOUS
  <2> QED BY <1>1, <1>7, <1>8, <2>1 DEF EntriesUpto
<1>10. ~ m < j
  <2> SUFFICES ASSUME m < j PROVE FALSE
    OBVIOUS
  <2>1. m \in 1..(j - 1)
    OBVIOUS
  <2> QED BY <1>1, <1>7, <1>8, <2>1 DEF EntriesUpto
<1> QED BY <1>7, <1>8, <1>9, <1>10

\* What the walk posts comes first.
LEMMA HeadIsFirst ==
    ASSUME TypeOK, Covered, InOrder, pc \in {"entry", "record"}, todo # <<>>,
           Valid(Head(todo)), Doc(Head(todo)) \notin recorded
    PROVE  /\ First(Head(todo)) /\ db \in 1..Len(chain)
           /\ \E i \in 1..Len(BlockTxs[chain[db]]) : FirstAt(db, i, Head(todo))
<1> DEFINE txids == BlockTxs[chain[db]]
           e == Head(todo)
<1>1. /\ db \in 1..Len(chain) /\ Upto(chain, recorded, db - 1)
      /\ txids \in Seq(TxIds) /\ todo \in Seq(AllEntries)
  <2>1. db \in Nat /\ chain \in Chains /\ todo \in Seq(AllEntries)
    BY DEF TypeOK, StoreTypeOK, ProcessTypeOK
  <2>2. Len(chain) \in Nat /\ chain \in Seq(Blocks)
    BY <2>1, ChainAssumption, LenProperties
  <2>3. db >= 1 /\ db <= Len(chain) /\ Upto(chain, recorded, db - 1)
    BY DEF Covered
  <2>4. db \in 1..Len(chain)
    BY <2>1, <2>2, <2>3
  <2>5. chain[db] \in Blocks
    BY <2>2, <2>4, ElementOfSeq
  <2> QED BY <2>1, <2>3, <2>4, <2>5, ChainAssumption
<1>2. PICK i \in 1..Len(txids) : AtTx(txids, i)
  BY DEF InOrder
<1>3. txids[i] \in TxIds
  BY <1>1, ElementOfSeq
<1>4. PICK j \in 0..Len(Plan[txids[i]]) :
          LeftOf(todo, Plan[txids[i]], j) /\ EntriesUpto(txids[i], recorded, j)
  BY <1>2 DEF AtTx
<1>5. /\ j \in Nat /\ j + 1 \in 1..Len(Plan[txids[i]])
      /\ e = Plan[txids[i]][j + 1]
  BY <1>1, <1>3, <1>4, PlanElements, LeftOfTail
<1>6. e \in Entries
  BY <1>3, <1>5 DEF Entries, AllEntries
<1>7. e.tx = txids[i]
  BY <1>3, <1>5, PlanAssumption
<1>8. j = (j + 1) - 1
  BY <1>5
<1>9. EntriesUpto(e.tx, recorded, (j + 1) - 1)
  BY <1>4, <1>7, <1>8
<1>10. TxsUpto(chain[db], recorded, i - 1)
  BY <1>2 DEF AtTx
<1> HIDE DEF e
<1>11. FirstAt(db, i, e)
  BY <1>1, <1>5, <1>7, <1>9, <1>10 DEF FirstAt
<1> QED BY <1>1, <1>6, <1>11 DEF First, e

\* What comes first is on the chain, also when the chain grows.
LEMMA FirstKept ==
    ASSUME chain \in Chains, chain' \in Chains, IsPrefixOf(chain, chain'), recorded' = recorded,
           NEW e, First(e)
    PROVE  First(e)'
<1>1. PICK h, i : FirstAt(h, i, e)
  BY DEF First
<1>2. h \in 1..Len(chain) /\ h \in 1..Len(chain') /\ chain'[h] = chain[h]
  <2>1. Len(chain) \in Nat /\ Len(chain') \in Nat /\ h \in 1..Len(chain)
    BY <1>1, ChainAssumption, LenProperties DEF FirstAt
  <2> QED BY <2>1, PrefixElements
<1>3. Upto(chain', recorded', h - 1)
  <2>1. h - 1 \in Int
    BY <1>2
  <2> QED BY <1>1, <2>1, UptoKept DEF FirstAt
<1>4. FirstAt(h, i, e)'
  BY <1>1, <1>2, <1>3 DEF FirstAt
<1> QED BY <1>2, <1>4 DEF First

\* What comes first is of a transaction of the chain.
LEMMA FirstOnChain ==
    ASSUME NEW e, First(e)
    PROVE  OnChain(e.tx)
BY DEF First, FirstAt, OnChain, InSeq, Elements

\* A transaction stays on a chain that grows.
LEMMA OnChainKept ==
    ASSUME chain \in Chains, chain' \in Chains, IsPrefixOf(chain, chain'), NEW t, OnChain(t)
    PROVE  OnChain(t)'
<1>1. PICK h \in 1..Len(chain) : InSeq(t, BlockTxs[chain[h]])
  BY DEF OnChain
<1>2. h \in 1..Len(chain') /\ chain'[h] = chain[h]
  <2>1. Len(chain) \in Nat /\ Len(chain') \in Nat
    BY ChainAssumption, LenProperties
  <2> QED BY <2>1, PrefixElements
<1> QED BY <1>1, <1>2 DEF OnChain, InSeq

-----------------------------------------------------------------------------
(* The steps of a chain that only grows.                                   *)

\* While the chain only grows nothing but the two writes of a posting touches the
\* records, the sums and the histories.
LEMMA LedgerSteps ==
    ASSUME TypeOK, NothingStale, [Next]_vars, reorgs' = 0
    PROVE  \/ PostEntry
           \/ RecordEntry
           \/ /\ UNCHANGED <<recorded, amount, last, txs>>
              /\ pc' = "record" => pc = "record" /\ todo' = todo
<1> USE DEF env, records, book, writes, process
<1>1. CASE Sync
  BY <1>1 DEF Sync, ReadHeights, NextBlock, SyncDone
<1>2. CASE FetchBlock \/ NextTx \/ SkipEntry \/ BlockDone
  BY <1>2 DEF FetchBlock, NextTx, SkipEntry, BlockDone
<1>3. CASE Tick \/ ScanMatch \/ ScanMismatch \/ ScanThrows \/ ScanDone
  BY <1>3 DEF Tick, ScanMatch, ScanMismatch, ScanThrows, ScanDone, Stop
<1>4. CASE UndoTx \/ UndoRecord \/ UndoSum \/ UndoDone
  BY <1>4 DEF UndoTx, UndoRecord, UndoSum, UndoDone, NothingStale
<1>5. CASE Failures
  BY <1>5 DEF Failures, ReadHeightsFails, FetchBlockFails, NextTxFails, ScanFails, Abort, Stop
<1>6. CASE Deliver
  BY <1>6 DEF Deliver, DeliverCursor, DeliverBlockIn, DeliverBlockOut, DeliverLockIn, DeliverLockOut
<1>7. CASE Environment
  BY <1>7 DEF Environment, Mine, Reorganize, FetchRaw, Crash, Restart, Stop
<1>8. CASE UNCHANGED vars
  BY <1>8 DEF vars
<1> QED BY <1>1, <1>2, <1>3, <1>4, <1>5, <1>6, <1>7, <1>8 DEF Next, Walk, Clear

\* The block at hand, and its transactions.
LEMMA BlockAtHand ==
    ASSUME TypeOK, Covered, pc \in {"entry", "record"}
    PROVE  /\ db \in 1..Len(chain) /\ chain[db] \in Blocks
           /\ BlockTxs[chain[db]] \in Seq(TxIds) /\ rawCached = {}
           /\ \A i \in 1..Len(BlockTxs[chain[db]]) : BlockTxs[chain[db]][i] \in TxIds
<1>1. db \in Nat /\ chain \in Chains
  BY DEF TypeOK, StoreTypeOK, ProcessTypeOK
<1>2. Len(chain) \in Nat /\ chain \in Seq(Blocks)
  BY <1>1, ChainAssumption, LenProperties
<1>3. db >= 1 /\ db <= Len(chain) /\ rawCached = {}
  BY DEF Covered
<1>4. db \in 1..Len(chain)
  BY <1>1, <1>2, <1>3
<1>5. chain[db] \in Blocks
  BY <1>2, <1>4, ElementOfSeq
<1>6. BlockTxs[chain[db]] \in Seq(TxIds)
  BY <1>5, ChainAssumption
<1> QED BY <1>3, <1>4, <1>5, <1>6, ElementOfSeq

\* The walk takes the next transaction when the one at hand is recorded.
LEMMA NextTxInOrder ==
    ASSUME TypeOK, Covered, InOrder, NextTx
    PROVE  InOrder'
<1> DEFINE txids == BlockTxs[chain[db]]
<1>1. /\ pc = "entry" /\ pc' = "entry" /\ todo = <<>> /\ work # <<>> /\ work' = Tail(work)
      /\ UNCHANGED <<chain, db, recorded>>
  BY DEF NextTx, env, records
<1>2. /\ txids \in Seq(TxIds) /\ work \in Seq(TxIds) /\ rawCached = {}
      /\ \A i \in 1..Len(txids) : txids[i] \in TxIds
  BY <1>1, BlockAtHand DEF TypeOK, ProcessTypeOK
<1>3. todo' = Plan[Head(work)]
  BY <1>2 DEF NextTx
<1> HIDE DEF txids
<1>4. ASSUME NEW k \in Nat, LeftOf(work, txids, k), TxsUpto(chain[db], recorded, k)
      PROVE  InOrder'
  <2>1. k + 1 \in 1..Len(txids) /\ Head(work) = txids[k + 1] /\ LeftOf(work', txids, k + 1)
    BY <1>1, <1>2, <1>4, LeftOfTail
  <2>2. txids[k + 1] \in TxIds /\ (k + 1) - 1 = k
    BY <1>2, <2>1
  <2>3. /\ LeftOf(todo', Plan[txids[k + 1]], 0) /\ 0 \in 0..Len(Plan[txids[k + 1]])
        /\ EntriesUpto(txids[k + 1], recorded, 0)
    <3>1. Plan[txids[k + 1]] \in Seq(AllEntries)
      BY <2>2, PlanElements
    <3>2. LeftOf(todo', Plan[txids[k + 1]], 0) /\ Len(Plan[txids[k + 1]]) \in Nat
      BY <1>3, <2>1, <3>1, LeftOfWhole, LenProperties
    <3> QED BY <3>2 DEF EntriesUpto
  <2>4. TxsUpto(chain[db], recorded, (k + 1) - 1)
    BY <1>4, <2>2
  <2>5. AtTx(txids, k + 1)'
    BY <1>1, <2>1, <2>3, <2>4 DEF AtTx, txids
  <2> QED BY <1>1, <2>1, <2>5 DEF InOrder, txids
<1>5. CASE LeftOf(work, txids, 0)
  <2>1. TxsUpto(chain[db], recorded, 0)
    BY DEF TxsUpto
  <2> QED BY <1>4, <1>5, <2>1
<1>6. CASE \E i \in 1..Len(txids) : AtTx(txids, i)
  <2>1. PICK i \in 1..Len(txids) : AtTx(txids, i)
    BY <1>6
  <2>2. txids[i] \in TxIds /\ i \in Nat
    BY <1>2
  <2>3. EntriesUpto(txids[i], recorded, Len(Plan[txids[i]]))
    BY <1>1, <2>1, <2>2, PlanElements, LeftOfEmpty DEF AtTx
  <2>4. ASSUME NEW m \in 1..i, NEW e \in Entries, e.tx = txids[m] PROVE Doc(e) \in recorded
    <3>1. CASE m = i
      BY <2>2, <2>3, <2>4, <3>1, EntriesAll
    <3>2. CASE m # i
      <4>1. m \in 1..(i - 1)
        BY <3>2
      <4> QED BY <2>1, <2>4, <4>1 DEF AtTx, TxsUpto, txids
    <3> QED BY <3>1, <3>2
  <2>5. TxsUpto(chain[db], recorded, i)
    BY <2>4 DEF TxsUpto, txids
  <2> QED BY <1>4, <2>1, <2>2, <2>5 DEF AtTx
<1> QED BY <1>1, <1>5, <1>6 DEF InOrder, txids

\* It leaves an input or output behind when that is recorded, or has nothing to record.
LEMMA EntryInOrder ==
    ASSUME TypeOK, Covered, InOrder, SkipEntry \/ RecordEntry
    PROVE  InOrder'
<1> DEFINE txids == BlockTxs[chain[db]]
<1>1. /\ pc \in {"entry", "record"} /\ pc' = "entry" /\ todo # <<>> /\ todo' = Tail(todo)
      /\ UNCHANGED <<chain, db, work>> /\ recorded \subseteq recorded'
      /\ Valid(Head(todo)) => Doc(Head(todo)) \in recorded'
  BY DEF SkipEntry, RecordEntry, env, records, TypeOK, PlaceOK
<1>2. /\ todo \in Seq(AllEntries) /\ \A i \in 1..Len(txids) : txids[i] \in TxIds
  BY <1>1, BlockAtHand DEF TypeOK, ProcessTypeOK
<1> HIDE DEF txids
<1>3. PICK i \in 1..Len(txids) : AtTx(txids, i)
  BY <1>1 DEF InOrder, txids
<1> DEFINE plan == Plan[txids[i]]
<1>4. PICK j \in 0..Len(plan) : LeftOf(todo, plan, j) /\ EntriesUpto(txids[i], recorded, j)
  BY <1>3 DEF AtTx
<1>5. plan \in Seq(AllEntries)
  BY <1>2, PlanElements
<1>6. /\ j \in Nat /\ j + 1 \in 1..Len(plan) /\ Head(todo) = plan[j + 1]
      /\ LeftOf(todo', plan, j + 1)
  BY <1>1, <1>2, <1>4, <1>5, LeftOfTail
<1>7. EntriesUpto(txids[i], recorded', j + 1)
  <2> SUFFICES ASSUME NEW m \in 1..(j + 1), Valid(plan[m]) PROVE Doc(plan[m]) \in recorded'
    BY DEF EntriesUpto
  <2>1. CASE m = j + 1
    BY <1>1, <1>6, <2>1
  <2>2. CASE m # j + 1
    <3>1. m \in 1..j
      BY <1>6, <2>2
    <3> QED BY <1>1, <1>4, <3>1 DEF EntriesUpto
  <2> QED BY <2>1, <2>2
<1>8. TxsUpto(chain[db], recorded', i - 1)
  BY <1>1, <1>3 DEF AtTx, TxsUpto
<1>9. j + 1 \in 0..Len(plan)
  BY <1>6
<1>10. AtTx(txids, i)'
  BY <1>1, <1>3, <1>6, <1>7, <1>8, <1>9 DEF AtTx, txids
<1> QED BY <1>1, <1>10 DEF InOrder, txids

\* One step per action.
LEMMA InOrderNext ==
    ASSUME TypeOK, NothingStale, Covered, InOrder, RawFetchable = {}, [Next]_vars, reorgs' = 0
    PROVE  InOrder'
<1> USE DEF env, records, book, writes, process
<1>1. CASE Sync
  BY <1>1 DEF Sync, ReadHeights, NextBlock, SyncDone, InOrder
<1>2. CASE FetchBlock
  <2>1. /\ todo' = <<>> /\ work' = BlockTxs[chain[db]] /\ pc' = "entry"
        /\ UNCHANGED <<chain, db>> /\ db \in 1..Len(chain)
    BY <1>2 DEF FetchBlock, InOrder
  <2>2. BlockTxs[chain[db]] \in Seq(TxIds)
    <3>1. chain \in Seq(Blocks)
      BY ChainAssumption DEF TypeOK, StoreTypeOK
    <3> QED BY <2>1, <3>1, ElementOfSeq, ChainAssumption
  <2>3. LeftOf(work', BlockTxs[chain[db]], 0)
    BY <2>1, <2>2, LeftOfWhole
  <2> QED BY <2>1, <2>3 DEF InOrder
<1>3. CASE NextTx
  BY <1>3, NextTxInOrder
<1>4. CASE SkipEntry \/ RecordEntry
  BY <1>4, EntryInOrder
<1>5. CASE PostEntry
  <2>1. /\ pc = "entry" /\ pc' = "record" /\ UNCHANGED <<chain, db, recorded, work, todo>>
    BY <1>5 DEF PostEntry
  <2> QED BY <2>1 DEF InOrder, AtTx
<1>6. CASE BlockDone
  BY <1>6 DEF BlockDone, InOrder
<1>7. CASE Tick \/ ScanMatch \/ ScanMismatch \/ ScanThrows \/ ScanDone
  BY <1>7 DEF Tick, ScanMatch, ScanMismatch, ScanThrows, ScanDone, Stop, InOrder
<1>8. CASE UndoTx \/ UndoRecord \/ UndoSum \/ UndoDone
  BY <1>8 DEF UndoTx, UndoRecord, UndoSum, UndoDone, NothingStale
<1>9. CASE Failures
  BY <1>9 DEF Failures, ReadHeightsFails, FetchBlockFails, NextTxFails, ScanFails, Abort, Stop, InOrder
<1>10. CASE Deliver
  <2>1. UNCHANGED <<chain, db, recorded, work, todo, pc>>
    BY <1>10 DEF Deliver, DeliverCursor, DeliverBlockIn, DeliverBlockOut, DeliverLockIn,
                 DeliverLockOut
  <2> QED BY <2>1 DEF InOrder, AtTx
<1>11. CASE Mine \/ Reorganize \/ FetchRaw \/ UNCHANGED vars
  <2>1. UNCHANGED <<db, recorded, work, todo, pc>>
    BY <1>11 DEF Mine, Reorganize, FetchRaw, vars
  <2>2. pc \in {"entry", "record"} => chain'[db] = chain[db]
    BY OnlyGrows, PrefixElements, BlockAtHand
  <2> QED BY <2>1, <2>2 DEF InOrder, AtTx
<1>12. CASE Crash \/ Restart
  BY <1>12 DEF Crash, Restart, Stop, InOrder
<1> QED BY <1>1, <1>2, <1>3, <1>4, <1>5, <1>6, <1>7, <1>8, <1>9, <1>10, <1>11, <1>12
        DEF Next, Walk, Clear, Environment

-----------------------------------------------------------------------------
(* Every value is in its sum once.                                         *)

\* The two writes of a posting, in the words of the walk: what it posts comes first.
LEMMA PostingSteps ==
    ASSUME TypeOK, Covered, InOrder, PostEntry
    PROVE  LET e == Head(todo) IN
           /\ First(e) /\ e \in Entries /\ Doc(e) \in Docs /\ Doc(e) \notin recorded
           /\ Post(e) /\ pc = "entry" /\ pc' = "record"
           /\ UNCHANGED <<chain, recorded, todo, db>>
<1>1. /\ pc = "entry" /\ todo # <<>> /\ Valid(Head(todo)) /\ Doc(Head(todo)) \notin recorded
      /\ Post(Head(todo)) /\ pc' = "record" /\ UNCHANGED <<chain, recorded, todo, db>>
  BY DEF PostEntry, env, records
<1>2. First(Head(todo))
  BY <1>1, HeadIsFirst
<1>3. Head(todo) \in Entries
  BY <1>2 DEF First
<1> QED BY <1>1, <1>2, <1>3 DEF Docs

\* A posting cut off is not added again: what is posted comes first, so it is what
\* was cut off, and is the last one of its address.
LEMMA PostedOnceNext ==
    ASSUME TypeOK, NothingStale, Covered, InOrder, PostedOnce, WindowsMatchRecords,
           [Next]_vars, reorgs' = 0
    PROVE  PostedOnce'
<1>1. chain \in Chains /\ chain' \in Chains /\ IsPrefixOf(chain, chain')
  BY OnlyGrows
<1>2. CASE PostEntry
  <2>0. PICK e : e = Head(todo)
    OBVIOUS
  <2> DEFINE d == Doc(e)
  <2>1. /\ First(e) /\ e \in Entries /\ d \in Docs /\ d \notin recorded
        /\ Post(e) /\ UNCHANGED <<chain, recorded>>
    BY <1>2, <2>0, PostingSteps
  <2>2. \A f : First(f) => First(f)'
    BY <1>1, <2>1, FirstKept
  <2>3. \A f : First(f) => f = e
    BY <2>1, OneFirst
  <2>4. e.side \in Sides /\ e.addr \in Addrs
    BY <2>1, EntryFields
  <2> HIDE DEF d
  <2>5. CASE AlreadyLast(e)
    <3>1. amount' = amount /\ last' = last
      BY <2>1, <2>5 DEF Post
    <3> QED BY <2>1, <2>2, <3>1 DEF PostedOnce, IsLast
  <2>6. CASE ~ AlreadyLast(e)
    <3>1. /\ amount' = [amount EXCEPT ![d] = @ + 1]
          /\ last' = [last EXCEPT ![e.side][e.addr] = IndexOf(e)]
      BY <2>1, <2>6 DEF Post, d
    <3>2. \A x \in Docs : x \notin recorded => amount[x] = 0
      BY <2>3, <2>6 DEF PostedOnce, IsLast, AlreadyLast
    <3>3. IsLast(e)'
      BY <2>4, <3>1 DEF IsLast, TypeOK, StoreTypeOK
    <3>4. \A x \in Docs : amount'[x] = IF x = d THEN 1 ELSE amount[x]
      BY <2>1, <3>1, <3>2 DEF TypeOK, StoreTypeOK
    <3> QED BY <2>1, <2>2, <3>2, <3>3, <3>4 DEF PostedOnce, d
  <2> QED BY <2>5, <2>6
<1>3. CASE RecordEntry
  <2>1. /\ recorded' = recorded \union {Doc(Head(todo))} /\ pc = "record"
        /\ UNCHANGED <<amount, last, chain>>
    BY <1>3 DEF RecordEntry, env, book
  <2>2. First(Head(todo))
    <3>1. todo # <<>> /\ Valid(Head(todo)) /\ Doc(Head(todo)) \notin recorded
      BY <2>1 DEF TypeOK, PlaceOK, WindowsMatchRecords, Entries
    <3> QED BY <2>1, <3>1, HeadIsFirst
  <2>3. \A f : First(f) => Doc(f) \in recorded'
    BY <2>1, <2>2, OneFirst
  <2> QED BY <2>1, <2>3 DEF PostedOnce
<1>4. CASE UNCHANGED <<recorded, amount, last, txs>>
  <2>1. \A f : First(f) => First(f)'
    BY <1>1, <1>4, FirstKept
  <2> QED BY <1>4, <2>1 DEF PostedOnce, IsLast
<1> QED BY <1>2, <1>3, <1>4, LedgerSteps

\* The walk rests with what it issued last.
LEMMA RestNext ==
    ASSUME TypeOK, NothingStale, [Next]_vars, reorgs' = 0,
           pc \in {"idle", "scan"} => Latest = goal, pc' \in {"idle", "scan"}
    PROVE  Latest' = goal'
<1> USE DEF env, records, book, writes, process
<1>1. CASE Sync
  <2>1. CASE SyncDone
    <3>1. cursorWrite' = goal /\ goal' = goal /\ goal \in Nat
      BY <2>1 DEF SyncDone, IssueCursor, TypeOK, ProcessTypeOK
    <3>2. goal # NoWrite
      BY <3>1 DEF NoWrite
    <3> QED BY <3>1, <3>2 DEF Latest
  <2> QED BY <1>1, <2>1 DEF Sync, ReadHeights, NextBlock
<1>2. CASE Walk
  BY <1>2 DEF Walk, FetchBlock, NextTx, SkipEntry, PostEntry, RecordEntry, BlockDone, NothingStale,
              TypeOK, ProcessTypeOK
<1>3. CASE Tick \/ ScanMatch \/ ScanFails
  BY <1>3 DEF Tick, ScanMatch, ScanFails, Abort, Latest
<1>4. CASE ScanMismatch \/ ScanThrows \/ ScanDone
  BY <1>4 DEF ScanMismatch, ScanThrows, ScanDone, Stop
<1>5. CASE UndoTx \/ UndoRecord \/ UndoSum \/ UndoDone
  BY <1>5 DEF UndoTx, UndoRecord, UndoSum, UndoDone, NothingStale
<1>6. CASE ReadHeightsFails \/ FetchBlockFails \/ NextTxFails
  BY <1>6 DEF ReadHeightsFails, FetchBlockFails, NextTxFails, Stop, NothingStale, TypeOK, ProcessTypeOK
<1>7. CASE DeliverCursor
  BY <1>7 DEF DeliverCursor, Latest
<1>8. CASE DeliverBlockIn \/ DeliverBlockOut \/ DeliverLockIn \/ DeliverLockOut
  BY <1>8 DEF DeliverBlockIn, DeliverBlockOut, DeliverLockIn, DeliverLockOut, Latest
<1>9. CASE Mine \/ Reorganize \/ FetchRaw \/ UNCHANGED vars
  BY <1>9 DEF Mine, Reorganize, FetchRaw, vars, Latest
<1>10. CASE Crash \/ Restart
  BY <1>10 DEF Crash, Restart, Stop
<1> QED BY <1>1, <1>2, <1>3, <1>4, <1>5, <1>6, <1>7, <1>8, <1>9, <1>10
        DEF Next, Clear, Failures, Deliver, Environment

\* Every step keeps what is recorded on the chain: only an entry of the block at hand is
\* recorded, and a chain that grows loses nothing.
LEMMA OnlyChainNext ==
    ASSUME TypeOK, NothingStale, Covered, InOrder, OnlyChain, WindowsMatchRecords,
           [Next]_vars, reorgs' = 0
    PROVE  OnlyChain'
<1>1. chain \in Chains /\ chain' \in Chains /\ IsPrefixOf(chain, chain')
  BY OnlyGrows
<1>2. pc' \in {"idle", "scan"} => Latest' = goal'
  BY RestNext DEF OnlyChain
<1>3. CASE PostEntry
  <2>0. PICK e : e = Head(todo)
    OBVIOUS
  <2>1. e \in Entries /\ Post(e) /\ UNCHANGED <<chain, recorded, todo>>
    BY <1>3, <2>0, PostingSteps
  <2>2. e.side \in Sides /\ e.addr \in Addrs
    BY <2>1, EntryFields
  <2>3. IsLast(e)'
    <3>1. CASE AlreadyLast(e)
      BY <2>1, <3>1 DEF Post, AlreadyLast, IsLast
    <3>2. CASE ~ AlreadyLast(e)
      <4>1. last' = [last EXCEPT ![e.side][e.addr] = IndexOf(e)]
        BY <2>1, <3>2 DEF Post
      <4> QED BY <2>2, <4>1 DEF IsLast, TypeOK, StoreTypeOK
    <3> QED BY <3>1, <3>2
  <2>4. Head(todo') = e
    BY <2>0, <2>1
  <2> QED BY <1>2, <2>1, <2>3, <2>4 DEF OnlyChain, OnChain, IsLast
<1>4. CASE RecordEntry
  <2>1. /\ recorded' = recorded \union {Doc(Head(todo))} /\ pc = "record" /\ pc' = "entry"
        /\ chain' = chain
    BY <1>4 DEF RecordEntry, env
  <2>2. First(Head(todo)) /\ Head(todo) \in Entries
    <3>1. todo # <<>> /\ Valid(Head(todo)) /\ Doc(Head(todo)) \notin recorded
          /\ Head(todo) \in Entries
      BY <2>1 DEF TypeOK, PlaceOK, WindowsMatchRecords, Entries
    <3> QED BY <2>1, <3>1, HeadIsFirst
  <2>3. OnChain(Doc(Head(todo)).txid)
    BY <2>2, FirstOnChain, EntryFields
  <2> QED BY <1>2, <2>1, <2>3 DEF OnlyChain, OnChain
<1>5. CASE /\ UNCHANGED <<recorded, amount, last, txs>>
           /\ pc' = "record" => pc = "record" /\ todo' = todo
  BY <1>1, <1>2, <1>5, OnChainKept DEF OnlyChain, IsLast
<1> QED BY <1>3, <1>4, <1>5, LedgerSteps

-----------------------------------------------------------------------------
(* The histories.                                                          *)

\* A transaction is in at most one block of a chain.
OncePerChain ==
    \A c \in Chains : \A h, k \in 1..Len(c) : \A t \in TxIds :
        InSeq(t, BlockTxs[c[h]]) /\ InSeq(t, BlockTxs[c[k]]) => h = k

\* A history names transactions of the address, on the chain and not above what comes
\* first of all that is not recorded, each once.
Named(a, t) ==
    /\ \E d \in Docs : d.txid = t /\ d.address = a
    /\ \E h \in 1..Len(chain) : InSeq(t, BlockTxs[chain[h]]) /\ Upto(chain, recorded, h - 1)

NoRepeat(s) == \A i, j \in 1..Len(s) : i < j => s[i] # s[j]

\* It names what is recorded, or on the way to be.
NamesRecorded(e) == (IsLast(e) \/ Doc(e) \in recorded) => InSeq(e.tx, txs[e.addr])

Histories ==
    /\ \A a \in Addrs : NoRepeat(txs[a]) /\ \A t \in Elements(txs[a]) : Named(a, t)
    /\ \A e \in Entries : ~ Contested(Doc(e)) => NamesRecorded(e)

\* It is in the order of the blocks.
NotBelow(s, c) ==
    \A i, j \in 1..Len(s) : i < j =>
        \A h, k \in 1..Len(c) :
            InSeq(s[i], BlockTxs[c[h]]) /\ InSeq(s[j], BlockTxs[c[k]]) => h >= k

BlockOrder == \A a \in Addrs : NotBelow(txs[a], chain)

\* unshift puts a transaction that is not listed in front.
LEMMA ListedShape ==
    ASSUME NEW t \in TxIds, NEW s \in Seq(TxIds), ~ InSeq(t, s)
    PROVE  LET u == Listed(t, s) IN
           /\ Len(u) = Len(s) + 1 /\ Len(s) \in Nat /\ u[1] = t
           /\ \A i \in 1..Len(s) : u[i + 1] = s[i]
           /\ Elements(u) = Elements(s) \union {t}
<1> DEFINE u == Listed(t, s)
           one == <<t>>
<1>1. u = one \o s /\ one \in Seq(TxIds) /\ Len(one) = 1 /\ Len(s) \in Nat /\ one[1] = t
  BY LenProperties DEF Listed
<1> HIDE DEF u, one
<1>2. /\ Len(u) = Len(one) + Len(s)
      /\ \A i \in 1..(Len(one) + Len(s)) : u[i] = IF i <= Len(one) THEN one[i] ELSE s[i - Len(one)]
  BY <1>1, ConcatProperties, Zenon
<1>3. u[1] = t
  BY <1>1, <1>2
<1>4. ASSUME NEW i \in 1..Len(s) PROVE u[i + 1] = s[i]
  <2>1. i + 1 \in 1..(Len(one) + Len(s)) /\ ~ (i + 1 <= Len(one)) /\ (i + 1) - Len(one) = i
    BY <1>1
  <2> QED BY <1>2, <2>1
<1>5. ASSUME NEW i \in 1..Len(u) PROVE u[i] \in Elements(s) \union {t}
  <2>1. CASE i = 1
    BY <1>3, <2>1
  <2>2. CASE i # 1
    <3>1. i - 1 \in 1..Len(s) /\ (i - 1) + 1 = i
      BY <1>1, <1>2, <2>2
    <3>2. u[i] = s[i - 1]
      BY <1>4, <3>1
    <3> QED BY <3>1, <3>2 DEF Elements
  <2> QED BY <2>1, <2>2
<1>6. ASSUME NEW i \in 1..Len(s) PROVE s[i] \in Elements(u)
  <2>1. i + 1 \in 1..Len(u)
    BY <1>1, <1>2
  <2> QED BY <1>4, <2>1 DEF Elements
<1>7. t \in Elements(u)
  <2>1. 1 \in 1..Len(u)
    BY <1>1, <1>2
  <2> QED BY <1>3, <2>1 DEF Elements
<1>8. Elements(u) = Elements(s) \union {t}
  BY <1>5, <1>6, <1>7 DEF Elements
<1>9. Len(u) = Len(s) + 1
  BY <1>1, <1>2
<1> QED BY <1>1, <1>3, <1>4, <1>8, <1>9 DEF u

\* What a posting does to the history of its address.
LEMMA PostedHistory ==
    ASSUME TypeOK, NEW e \in Entries, Post(e)
    PROVE  /\ \A a \in Addrs : a # e.addr => txs'[a] = txs[a]
           /\ \/ AlreadyLast(e) /\ UNCHANGED <<txs, last>>
              \/ /\ ~ AlreadyLast(e)
                 /\ txs'[e.addr] = Listed(e.tx, txs[e.addr])
                 /\ \A s \in Sides : \A a \in Addrs :
                       last'[s][a] = IF s = e.side /\ a = e.addr THEN IndexOf(e) ELSE last[s][a]
           /\ e.side \in Sides /\ e.addr \in Addrs /\ e.tx \in TxIds /\ txs[e.addr] \in Seq(TxIds)
<1>1. e.side \in Sides /\ e.addr \in Addrs /\ e.tx \in TxIds
  BY EntryFields
<1>2. /\ txs \in [Addrs -> Seq(TxIds)] /\ last \in [Sides -> [Addrs -> Indexes]]
  BY DEF TypeOK, StoreTypeOK
<1>3. CASE AlreadyLast(e)
  BY <1>1, <1>2, <1>3 DEF Post
<1>4. CASE ~ AlreadyLast(e)
  <2>1. /\ txs' = [txs EXCEPT ![e.addr] = Listed(e.tx, @)]
        /\ last' = [last EXCEPT ![e.side][e.addr] = IndexOf(e)]
    BY <1>4 DEF Post
  <2> QED BY <1>1, <1>2, <1>4, <2>1
<1> QED BY <1>3, <1>4

\* What is not above the first of all that is not recorded is in a block that the
\* first one's block is not below.
LEMMA FirstNotBelow ==
    ASSUME NEW h, NEW i, NEW e \in Entries, FirstAt(h, i, e), Doc(e) \notin recorded,
           NEW k \in 1..Len(chain), Upto(chain, recorded, k - 1)
    PROVE  h >= k
<1> SUFFICES ASSUME h < k PROVE FALSE
  BY DEF FirstAt
<1>1. h \in 1..(k - 1)
  BY DEF FirstAt
<1>2. PostedIn(chain[h], recorded)
  BY <1>1 DEF Upto
<1> QED BY <1>2 DEF FirstAt, PostedIn

\* Every step keeps the histories: a posting puts the transaction at hand in front of one
\* that does not name it yet, and records it after that.
LEMMA HistoriesNext ==
    ASSUME TypeOK, NothingStale, Covered, InOrder, OnlyChain, WindowsMatchRecords, Histories,
           [Next]_vars, reorgs' = 0
    PROVE  Histories'
<1>1. chain \in Chains /\ chain' \in Chains /\ IsPrefixOf(chain, chain')
  BY OnlyGrows
<1>2. ASSUME recorded \subseteq recorded', NEW a, NEW t, Named(a, t) PROVE Named(a, t)'
  <2>1. PICK h \in 1..Len(chain) : InSeq(t, BlockTxs[chain[h]]) /\ Upto(chain, recorded, h - 1)
    BY <1>2 DEF Named
  <2>2. h \in 1..Len(chain') /\ chain'[h] = chain[h] /\ h - 1 \in Int
    <3>1. Len(chain) \in Nat /\ Len(chain') \in Nat
      BY <1>1, ChainAssumption, LenProperties
    <3> QED BY <1>1, <3>1, PrefixElements
  <2>3. Upto(chain', recorded', h - 1)
    BY <1>1, <1>2, <2>1, <2>2, UptoKept
  <2> QED BY <1>2, <2>1, <2>2, <2>3 DEF Named
<1>3. CASE PostEntry
  <2>0. PICK e : e = Head(todo)
    OBVIOUS
  <2>1. First(e) /\ e \in Entries /\ Post(e) /\ UNCHANGED <<chain, recorded>>
    BY <1>3, <2>0, PostingSteps
  <2>2. \A a, t : Named(a, t) => Named(a, t)'
    BY <1>2, <2>1
  <2>3. Named(e.addr, e.tx)
    <3>1. PICK h, i : FirstAt(h, i, e)
      BY <2>1 DEF First
    <3>2. h \in 1..Len(chain) /\ InSeq(e.tx, BlockTxs[chain[h]]) /\ Upto(chain, recorded, h - 1)
      BY <3>1 DEF FirstAt, InSeq, Elements
    <3>3. Doc(e) \in Docs /\ Doc(e).txid = e.tx /\ Doc(e).address = e.addr
      BY <2>1, EntryFields
    <3> QED BY <3>2, <3>3 DEF Named
  <2>4. CASE AlreadyLast(e)
    <3>1. UNCHANGED <<txs, last>>
      BY <2>1, <2>4, PostedHistory
    <3> QED BY <2>1, <2>2, <3>1 DEF Histories, NamesRecorded, IsLast
  <2>5. CASE ~ AlreadyLast(e)
    <3> DEFINE s == txs[e.addr]
               u == txs'[e.addr]
    <3>1. /\ u = Listed(e.tx, s) /\ s \in Seq(TxIds) /\ e.addr \in Addrs /\ e.tx \in TxIds
          /\ e.side \in Sides
          /\ \A a \in Addrs : a # e.addr => txs'[a] = txs[a]
          /\ \A x \in Sides : \A a \in Addrs :
                last'[x][a] = IF x = e.side /\ a = e.addr THEN IndexOf(e) ELSE last[x][a]
      BY <2>1, <2>5, PostedHistory
    <3>2. NoRepeat(u) /\ Elements(u) = Elements(s) \union {e.tx}
      <4>1. CASE InSeq(e.tx, s)
        BY <3>1, <4>1 DEF Listed, InSeq, Histories
      <4>2. CASE ~ InSeq(e.tx, s)
        <5>1. /\ Len(u) = Len(s) + 1 /\ Len(s) \in Nat /\ u[1] = e.tx
              /\ \A i \in 1..Len(s) : u[i + 1] = s[i]
              /\ Elements(u) = Elements(s) \union {e.tx}
          BY <3>1, <4>2, ListedShape
        <5>2. ASSUME NEW i \in 1..Len(u), NEW j \in 1..Len(u), i < j PROVE u[i] # u[j]
          <6>1. j - 1 \in 1..Len(s) /\ (j - 1) + 1 = j
            BY <5>1, <5>2
          <6>2. u[j] = s[j - 1]
            BY <5>1, <6>1
          <6>3. CASE i = 1
            BY <4>2, <5>1, <6>1, <6>2, <6>3 DEF InSeq, Elements
          <6>4. CASE i # 1
            <7>1. i - 1 \in 1..Len(s) /\ (i - 1) + 1 = i /\ i - 1 < j - 1
              BY <5>1, <5>2, <6>4
            <7>2. u[i] = s[i - 1]
              BY <5>1, <7>1
            <7>3. NoRepeat(s)
              BY <3>1 DEF Histories
            <7> QED BY <6>1, <6>2, <7>1, <7>2, <7>3 DEF NoRepeat
          <6> QED BY <6>3, <6>4
        <5> QED BY <5>1, <5>2 DEF NoRepeat
      <4> QED BY <4>1, <4>2
    <3> HIDE DEF s, u
    <3>3. ASSUME NEW a \in Addrs
          PROVE  /\ NoRepeat(txs'[a]) /\ Elements(txs[a]) \subseteq Elements(txs'[a])
                 /\ \A t \in Elements(txs'[a]) : Named(a, t)'
      <4>1. CASE a = e.addr
        BY <2>2, <2>3, <3>1, <3>2, <4>1 DEF Histories, s, u
      <4>2. CASE a # e.addr
        BY <2>2, <3>1, <4>2 DEF Histories
      <4> QED BY <4>1, <4>2
    <3>4. ASSUME NEW f \in Entries, ~ Contested(Doc(f)), IsLast(f)' \/ Doc(f) \in recorded
          PROVE  f.tx \in Elements(txs'[f.addr])
      <4>1. f.side \in Sides /\ f.addr \in Addrs /\ Doc(f).txid = f.tx /\ Doc(e).txid = e.tx
        BY <2>1, EntryFields
      <4>2. CASE IsLast(f) \/ Doc(f) \in recorded
        <5>1. f.tx \in Elements(txs[f.addr])
          BY <3>4, <4>2 DEF Histories, NamesRecorded, InSeq
        <5> QED BY <3>3, <4>1, <5>1
      <4>3. CASE ~ IsLast(f) /\ IsLast(f)'
        <5>1. f.side = e.side /\ f.addr = e.addr /\ IndexOf(f) = IndexOf(e)
          BY <3>1, <4>1, <4>3 DEF IsLast
        <5>2. Doc(e) = Doc(f)
          BY <2>1, <3>4, <5>1 DEF Contested
        <5> QED BY <3>1, <3>2, <4>1, <5>1, <5>2 DEF u
      <4> QED BY <3>4, <4>2, <4>3
    <3> QED BY <2>1, <3>3, <3>4 DEF Histories, NamesRecorded, InSeq
  <2> QED BY <2>4, <2>5
<1>4. CASE RecordEntry
  <2>1. /\ recorded' = recorded \union {Doc(Head(todo))} /\ pc = "record"
        /\ UNCHANGED <<txs, last, chain>>
    BY <1>4 DEF RecordEntry, env, book
  <2>2. PICK e : e = Head(todo)
    OBVIOUS
  <2>3. e \in Entries /\ IsLast(e)
    BY <2>1, <2>2 DEF TypeOK, PlaceOK, OnlyChain
  <2>4. \A a, t : Named(a, t) => Named(a, t)'
    BY <1>2, <2>1
  <2>5. ASSUME NEW f \in Entries, ~ Contested(Doc(f)), Doc(f) = Doc(e)
        PROVE  InSeq(f.tx, txs[f.addr])
    <3>1. f.tx = e.tx /\ f.addr = e.addr
      BY <2>3, <2>5, EntryFields
    <3>2. InSeq(e.tx, txs[e.addr])
      BY <2>3, <2>5 DEF Histories, NamesRecorded
    <3> QED BY <3>1, <3>2
  <2>6. ASSUME NEW f \in Entries, ~ Contested(Doc(f)), IsLast(f)' \/ Doc(f) \in recorded'
        PROVE  InSeq(f.tx, txs'[f.addr])
    BY <2>1, <2>2, <2>5, <2>6 DEF Histories, NamesRecorded, IsLast
  <2> QED BY <2>1, <2>4, <2>6 DEF Histories, NamesRecorded
<1>5. CASE UNCHANGED <<recorded, amount, last, txs>>
  <2>1. \A a, t : Named(a, t) => Named(a, t)'
    BY <1>2, <1>5
  <2> QED BY <1>5, <2>1 DEF Histories, NamesRecorded, IsLast
<1> QED BY <1>3, <1>4, <1>5, LedgerSteps

\* A history in block order stays so when the chain grows, and when a transaction of
\* a block that none of its transactions is above is put in front.
LEMMA BlockOrderNext ==
    ASSUME TypeOK, NothingStale, Covered, InOrder, Histories, BlockOrder, OncePerChain,
           [Next]_vars, reorgs' = 0
    PROVE  BlockOrder'
<1>1. /\ chain \in Chains /\ chain' \in Chains /\ IsPrefixOf(chain, chain')
      /\ txs \in [Addrs -> Seq(TxIds)]
  BY OnlyGrows DEF TypeOK, StoreTypeOK
<1>2. CASE PostEntry
  <2>0. PICK e : e = Head(todo)
    OBVIOUS
  <2>1. First(e) /\ e \in Entries /\ Post(e) /\ UNCHANGED <<chain, recorded>>
    BY <1>2, <2>0, PostingSteps
  <2>2. CASE AlreadyLast(e)
    <3>1. UNCHANGED txs
      BY <2>1, <2>2, PostedHistory
    <3> QED BY <2>1, <3>1 DEF BlockOrder
  <2>3. CASE ~ AlreadyLast(e)
    <3> DEFINE s == txs[e.addr]
               u == txs'[e.addr]
    <3>1. /\ u = Listed(e.tx, s) /\ s \in Seq(TxIds) /\ e.addr \in Addrs /\ e.tx \in TxIds
          /\ \A a \in Addrs : a # e.addr => txs'[a] = txs[a]
      BY <2>1, <2>3, PostedHistory
    <3>2. NotBelow(u, chain)
      <4>1. CASE InSeq(e.tx, s)
        BY <3>1, <4>1 DEF Listed, BlockOrder
      <4>2. CASE ~ InSeq(e.tx, s)
        <5>1. /\ Len(u) = Len(s) + 1 /\ Len(s) \in Nat /\ u[1] = e.tx
              /\ \A i \in 1..Len(s) : u[i + 1] = s[i]
          BY <3>1, <4>2, ListedShape
        <5>2. PICK g, n : FirstAt(g, n, e)
          BY <2>1 DEF First
        <5>3. g \in 1..Len(chain) /\ InSeq(e.tx, BlockTxs[chain[g]]) /\ Doc(e) \notin recorded
          BY <2>1, <5>2 DEF FirstAt, First, InSeq, Elements
        <5>4. ASSUME NEW i \in 1..Len(u), NEW j \in 1..Len(u), i < j,
                     NEW h \in 1..Len(chain), NEW k \in 1..Len(chain),
                     InSeq(u[i], BlockTxs[chain[h]]), InSeq(u[j], BlockTxs[chain[k]])
              PROVE  h >= k
          <6>1. j - 1 \in 1..Len(s) /\ (j - 1) + 1 = j
            BY <5>1, <5>4
          <6>2. u[j] = s[j - 1] /\ s[j - 1] \in TxIds /\ s[j - 1] \in Elements(s)
            BY <3>1, <5>1, <6>1, ElementOfSeq DEF Elements
          <6>3. CASE i = 1
            <7>1. h = g
              BY <1>1, <3>1, <5>1, <5>3, <5>4, <6>3 DEF OncePerChain
            <7>2. PICK m \in 1..Len(chain) : /\ InSeq(s[j - 1], BlockTxs[chain[m]])
                                             /\ Upto(chain, recorded, m - 1)
              BY <3>1, <6>2 DEF Histories, Named
            <7>3. k = m
              BY <1>1, <5>4, <6>2, <7>2 DEF OncePerChain
            <7> QED BY <2>1, <5>2, <5>3, <7>1, <7>2, <7>3, FirstNotBelow
          <6>4. CASE i # 1
            <7>1. i - 1 \in 1..Len(s) /\ (i - 1) + 1 = i /\ i - 1 < j - 1
              BY <5>1, <5>4, <6>4
            <7>2. u[i] = s[i - 1]
              BY <5>1, <7>1
            <7>3. NotBelow(s, chain)
              BY <3>1 DEF BlockOrder
            <7> QED BY <5>4, <6>1, <6>2, <7>1, <7>2, <7>3 DEF NotBelow
          <6> QED BY <6>3, <6>4
        <5> HIDE DEF u
        <5> QED BY <5>4 DEF NotBelow
      <4> QED BY <4>1, <4>2
    <3>3. ASSUME NEW a \in Addrs PROVE NotBelow(txs'[a], chain)
      BY <3>1, <3>2 DEF BlockOrder
    <3> QED BY <2>1, <3>3 DEF BlockOrder
  <2> QED BY <2>2, <2>3
<1>3. CASE UNCHANGED txs
  <2> SUFFICES ASSUME NEW a \in Addrs, NEW i \in 1..Len(txs[a]), NEW j \in 1..Len(txs[a]), i < j,
                      NEW h \in 1..Len(chain'), NEW k \in 1..Len(chain'),
                      InSeq(txs[a][i], BlockTxs[chain'[h]]), InSeq(txs[a][j], BlockTxs[chain'[k]])
               PROVE  h >= k
    BY <1>3 DEF BlockOrder, NotBelow
  <2>1. ASSUME NEW m \in 1..Len(txs[a]), NEW n \in 1..Len(chain'),
               InSeq(txs[a][m], BlockTxs[chain'[n]])
        PROVE  n \in 1..Len(chain) /\ InSeq(txs[a][m], BlockTxs[chain[n]])
    <3>1. txs[a][m] \in TxIds /\ txs[a][m] \in Elements(txs[a])
      BY <1>1, ElementOfSeq DEF Elements
    <3>2. PICK o \in 1..Len(chain) : InSeq(txs[a][m], BlockTxs[chain[o]])
      BY <3>1 DEF Histories, Named
    <3>3. o \in 1..Len(chain') /\ chain'[o] = chain[o]
      <4>1. Len(chain) \in Nat /\ Len(chain') \in Nat
        BY <1>1, ChainAssumption, LenProperties
      <4> QED BY <1>1, <4>1, PrefixElements
    <3>4. n = o
      BY <1>1, <2>1, <3>1, <3>2, <3>3 DEF OncePerChain
    <3> QED BY <2>1, <3>2, <3>3, <3>4
  <2> QED BY <2>1 DEF BlockOrder, NotBelow
<1>4. RecordEntry => UNCHANGED txs
  BY DEF RecordEntry, book
<1> QED BY <1>2, <1>3, <1>4, LedgerSteps

-----------------------------------------------------------------------------
(* A chain that only grows, whatever crashes.                              *)

\* The inductive invariant of sums and histories, beside that of the cursor.
GrowInv ==
    (reorgs = 0 /\ RawFetchable = {}) =>
        InOrder /\ PostedOnce /\ OnlyChain /\ Histories /\ (OncePerChain => BlockOrder)

\* The invariant of the growing chain holds at the start,
LEMMA GrowInit == Init => GrowInv
<1> SUFFICES ASSUME Init PROVE GrowInv
  OBVIOUS
<1>1. InOrder /\ OnlyChain
  BY DEF Init, InOrder, OnlyChain
<1>2. PostedOnce
  BY ZeroType DEF Init, PostedOnce
<1>3. \A a \in Addrs : txs[a] = <<>> /\ Elements(txs[a]) = {} /\ Len(txs[a]) = 0
  BY NoElements DEF Init
<1>4. \A e \in Entries : ~ IsLast(e)
  BY EntryFields DEF Init, IsLast
<1>5. Histories /\ BlockOrder
  BY <1>3, <1>4 DEF Init, Histories, NoRepeat, NamesRecorded, BlockOrder, NotBelow
<1> QED BY <1>1, <1>2, <1>5 DEF GrowInv

\* is kept by every step, given what is known of types, cursor and sums,
LEMMA GrowNext ==
    ASSUME TypeOK, CursorInv, Accounted, GrowInv, [Next]_vars
    PROVE  GrowInv'
<1> SUFFICES ASSUME reorgs' = 0, RawFetchable = {}
             PROVE  /\ InOrder' /\ PostedOnce' /\ OnlyChain' /\ Histories'
                    /\ OncePerChain => BlockOrder'
  BY DEF GrowInv
<1>1. reorgs = 0
  BY OnlyGrows
<1>2. /\ NothingStale /\ Covered /\ InOrder /\ PostedOnce /\ OnlyChain /\ Histories
      /\ OncePerChain => BlockOrder
      /\ WindowsMatchRecords
  BY <1>1 DEF CursorInv, GrowInv, Accounted
<1> QED BY <1>2, InOrderNext, PostedOnceNext, OnlyChainNext, HistoriesNext, BlockOrderNext

\* All that is known of a state the program reaches.
Grown == TypeOK /\ CursorInv /\ Accounted /\ GrowInv

\* and so holds always.
LEMMA GrownHolds == Spec => []Grown
<1>1. Init => Grown
  BY TypeInit, CursorInit, DriftInit, GrowInit DEF Grown
<1>2. Grown /\ [Next]_vars => Grown'
  BY TypeNext, CursorNext, DriftNext, GrowNext DEF Grown
<1> QED BY <1>1, <1>2, PTL DEF Spec

\* While the chain only grows and no transaction was read in raw form, no value is in
\* a sum twice, wherever and however often the process dies between the two writes of
\* a posting.
THEOREM RedoIsSafe == Spec => []RedoPostsOnce
<1>1. Grown => RedoPostsOnce
  BY DEF Grown, GrowInv, PostedOnce, RedoPostsOnce
<1> QED BY <1>1, GrownHolds, PTL

\* ... and at rest the histories are in block order, the newest first, unless a chain
\* has a transaction twice.
THEOREM HistoryInBlockOrder ==
  ASSUME RawFetchable = {}, OncePerChain
  PROVE  Spec => [](reorgs = 0 => SettledHistoryInBlockOrder)
<1>1. Grown => (reorgs = 0 => SettledHistoryInBlockOrder)
  <2> SUFFICES ASSUME Grown, reorgs = 0, NEW a \in Addrs,
                      NEW i \in 1..Len(txs[a]), NEW j \in 1..Len(txs[a]), i < j,
                      OnChain(txs[a][i]), OnChain(txs[a][j])
               PROVE  HeightOfTx(txs[a][i]) >= HeightOfTx(txs[a][j])
    BY DEF SettledHistoryInBlockOrder
  <2>1. \A t : OnChain(t) => /\ HeightOfTx(t) \in 1..Len(chain)
                             /\ InSeq(t, BlockTxs[chain[HeightOfTx(t)]])
    BY DEF OnChain, HeightOfTx
  <2> QED BY <2>1 DEF Grown, GrowInv, BlockOrder, NotBelow
<1> QED BY <1>1, GrownHolds, PTL

\* At rest, everything that is recorded is on the chain and everything of the chain is
\* recorded, as one that comes first of all that is not recorded would be on it.
LEMMA RestsComplete ==
    ASSUME Grown, reorgs = 0, RawFetchable = {}, Settled
    PROVE  \A d \in Docs : /\ OnChain(d.txid) <=> d \in recorded
                           /\ d \notin recorded => amount[d] = 0
<1>1. /\ Covered /\ OnlyChain /\ PostedOnce
      /\ TypeOK
  BY DEF Grown, CursorInv, GrowInv
<1>2. pc = "idle" /\ goal = Len(chain)
  BY <1>1 DEF Settled, OnlyChain, Latest
<1>3. Upto(chain, recorded, Len(chain))
  BY <1>1, <1>2 DEF Covered
<1>4. ASSUME NEW e \in Entries, OnChain(e.tx) PROVE Doc(e) \in recorded
  <2>1. PICK h \in 1..Len(chain) : InSeq(e.tx, BlockTxs[chain[h]])
    BY <1>4 DEF OnChain
  <2>2. PICK i \in 1..Len(BlockTxs[chain[h]]) : BlockTxs[chain[h]][i] = e.tx
    BY <2>1 DEF InSeq, Elements
  <2> QED BY <1>3, <2>2 DEF Upto, PostedIn
<1>5. ASSUME NEW d \in Docs PROVE /\ OnChain(d.txid) => d \in recorded
                                  /\ d \notin recorded => amount[d] = 0
  <2>1. PICK e \in Entries : d = Doc(e)
    BY DEF Docs
  <2>2. d.txid = e.tx
    BY <2>1, EntryFields
  <2>3. OnChain(d.txid) => d \in recorded
    BY <1>4, <2>1, <2>2
  <2>4. ASSUME d \notin recorded, amount[d] # 0 PROVE FALSE
    <3>1. PICK f \in Entries : First(f) /\ Doc(f) = d
      BY <1>1, <2>4 DEF PostedOnce
    <3>2. OnChain(f.tx) /\ d.txid = f.tx
      BY <1>1, <3>1, FirstOnChain, EntryFields
    <3> QED BY <2>3, <2>4, <3>2
  <2> QED BY <2>3, <2>4
<1> QED BY <1>1, <1>5 DEF OnlyChain

\* No output is spent by two transactions.
NoDoubleSpend == \A d \in Docs : ~ Contested(d)

\* No two inputs, or outputs, of a transaction have the same record.
NoneAlike ==
    \A t \in TxIds : \A i, j \in 1..Len(Plan[t]) :
        Plan[t][i] \in Entries /\ Plan[t][j] \in Entries /\ Doc(Plan[t][i]) = Doc(Plan[t][j])
            => i = j

\* A record then stands for one input or output.
LEMMA OccursOnce ==
    ASSUME NoneAlike, NEW d \in Docs
    PROVE  Occurrences(d) = 1
<1>1. PICK e \in Entries : d = Doc(e)
  BY DEF Docs
<1>2. d.txid = e.tx /\ e.tx \in TxIds
  BY <1>1, EntryFields
<1>3. PICK j \in 1..Len(Plan[e.tx]) : Plan[e.tx][j] = e
  BY EntryPlace
<1> DEFINE places == {i \in 1..Len(Plan[d.txid]) :
                         Plan[d.txid][i] \in Entries /\ Doc(Plan[d.txid][i]) = d}
<1>4. j \in places
  BY <1>1, <1>2, <1>3
<1>5. ASSUME NEW i \in places PROVE i = j
  BY <1>1, <1>2, <1>3 DEF NoneAlike
<1>6. places = {j}
  BY <1>4, <1>5
<1>7. Cardinality({j}) = 1
  BY FS_Singleton
<1> QED BY <1>6, <1>7 DEF Occurrences

\* While the chain only grows, no output is spent by two transactions and no transaction
\* has two inputs that one record stands for: at rest every value of the chain is in its
\* sum as often as it occurs, and nothing else is, however often the process died.
THEOREM SumsMatchGrowingChain ==
  ASSUME RawFetchable = {}, NoDoubleSpend, NoneAlike
  PROVE  Spec => [](reorgs = 0 => SettledSumsMatchChain)
<1>1. Grown => (reorgs = 0 => SettledSumsMatchChain)
  <2> SUFFICES ASSUME Grown, reorgs = 0, Settled, NEW d \in Docs
               PROVE  amount[d] = IF OnChain(d.txid) THEN 1 ELSE 0
    BY OccursOnce DEF SettledSumsMatchChain
  <2>1. /\ OnChain(d.txid) <=> d \in recorded
        /\ d \notin recorded => amount[d] = 0
    BY RestsComplete
  <2>2. CASE d \in recorded
    <3>1. amount[d] \in {0, 1}
      BY DEF Grown, GrowInv, PostedOnce
    <3>2. Due(d) = 1
      BY <2>2 DEF Due
    <3>3. amount[d] - 1 \in 0..crashes /\ crashes \in Nat
      BY <3>2 DEF Grown, Accounted, DriftBoundedByCrashes, NoDoubleSpend, TypeOK, StoreTypeOK
    <3>4. amount[d] = 1
      BY <3>1, <3>3
    <3> QED BY <2>1, <2>2, <3>4
  <2>3. CASE d \notin recorded
    BY <2>1, <2>3
  <2> QED BY <2>2, <2>3
<1> QED BY <1>1, GrownHolds, PTL

\* A sequence without repetition has as many members as places.
LEMMA AsManyAsPlaces ==
    ASSUME NEW S, NEW s \in Seq(S), NoRepeat(s)
    PROVE  Cardinality(Elements(s)) = Len(s)
<1>1. Len(s) \in Nat /\ DOMAIN s = 1..Len(s) /\ s \in [1..Len(s) -> S]
  BY LenProperties
<1>2. s \in [1..Len(s) -> Elements(s)]
  BY <1>1 DEF Elements
<1>3. ASSUME NEW i \in 1..Len(s), NEW j \in 1..Len(s), s[i] = s[j] PROVE i = j
  <2>1. ~ i < j /\ ~ j < i
    BY <1>3 DEF NoRepeat
  <2> QED BY <1>1, <2>1
<1>4. IsInjective(s)
  BY <1>1, <1>3 DEF IsInjective
<1>5. \A x \in Elements(s) : \E i \in 1..Len(s) : s[i] = x
  BY DEF Elements
<1>6. s \in Bijection(1..Len(s), Elements(s))
  BY <1>2, <1>4, <1>5 DEF Bijection, Injection, Surjection
<1>7. ExistsBijection(1..Len(s), Elements(s))
  BY <1>6 DEF ExistsBijection
<1> QED BY <1>1, <1>7, FS_CountingElements

\* ... and the history of an address names just the transactions of the chain that touch
\* it, each once.
THEOREM HistoryMatchesGrowingChain ==
  ASSUME RawFetchable = {}, NoDoubleSpend
  PROVE  Spec => [](reorgs = 0 => SettledHistoryMatchesChain)
<1>1. Grown => (reorgs = 0 => SettledHistoryMatchesChain)
  <2> SUFFICES ASSUME Grown, reorgs = 0, Settled, NEW a \in Addrs
               PROVE  /\ Elements(txs[a]) =
                           {d.txid : d \in {x \in Docs : x.address = a /\ OnChain(x.txid)}}
                      /\ Len(txs[a]) = Cardinality(Elements(txs[a]))
    BY DEF SettledHistoryMatchesChain
  <2>1. Histories /\ TypeOK
    BY DEF Grown, GrowInv
  <2>2. txs[a] \in Seq(TxIds) /\ NoRepeat(txs[a])
    BY <2>1 DEF Histories, TypeOK, StoreTypeOK
  <2>3. ASSUME NEW t \in Elements(txs[a])
        PROVE  \E d \in Docs : d.txid = t /\ d.address = a /\ OnChain(t)
    BY <2>1 DEF Histories, Named, OnChain
  <2>4. ASSUME NEW d \in Docs, d.address = a, OnChain(d.txid) PROVE d.txid \in Elements(txs[a])
    <3>1. PICK e \in Entries : d = Doc(e)
      BY DEF Docs
    <3>2. d.txid = e.tx /\ e.addr = a
      BY <2>4, <3>1, EntryFields
    <3>3. d \in recorded
      BY <2>4, RestsComplete
    <3>4. NamesRecorded(e)
      BY <2>1, <3>1 DEF Histories, NoDoubleSpend
    <3> QED BY <3>1, <3>2, <3>3, <3>4 DEF NamesRecorded, InSeq
  <2> QED BY <2>2, <2>3, <2>4, AsManyAsPlaces
<1> QED BY <1>1, GrownHolds, PTL
=============================================================================
