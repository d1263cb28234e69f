------------------------- MODULE AddressLedgerProofs -------------------------
(***************************************************************************)
(* What holds of AddressLedger for every chain, plan and bound: its types, *)
(* that a crash costs at most one repetition of a posting, and that it      *)
(* implements AddressBook.                                                  *)
(***************************************************************************)
EXTENDS AddressLedger, SequenceTheorems, TLAPS

\* What the fields of an input or output, and of its record, are.
LEMMA EntryFields ==
    ASSUME NEW e \in Entries
    PROVE  /\ e \in Entry /\ Valid(e)
           /\ e.side \in Sides /\ e.addr \in Addrs /\ e.tx \in TxIds /\ e.ref \in TxIds
           /\ Doc(e) \in Docs
           /\ Doc(e).side = e.side /\ Doc(e).address = e.addr /\ Doc(e).txid = e.tx
           /\ IndexOf(e) \in Indexes /\ IndexOf(e) # NoIndex
<1>1. e \in Entry
  BY PlanAssumption DEF Entries, AllEntries
<1>2. Valid(e) /\ e.addr \in Addrs
  BY <1>1 DEF Entries, Valid, Entry
<1>3. e.side \in Sides /\ e.tx \in TxIds /\ e.ref \in TxIds /\ e.n \in Nat
  BY <1>1 DEF Entry
<1>4. Doc(e) \in Docs
  BY DEF Docs
<1>5. Doc(e).side = e.side /\ Doc(e).address = e.addr /\ Doc(e).txid = e.tx
  BY <1>3 DEF Doc, Sides
<1>6. IndexOf(e) \in Indexes
  BY DEF Indexes
<1>7. IndexOf(e) # NoIndex
  <2>1. IndexOf(e)[1] = e.n /\ NoIndex[1] = -1
    BY DEF IndexOf, NoIndex
  <2> QED BY <2>1, <1>3
<1> QED BY <1>1, <1>2, <1>3, <1>4, <1>5, <1>6, <1>7

\* The record of an input or output is on its side, at its address, for its transaction.
LEMMA DocFields ==
    ASSUME NEW d \in Docs
    PROVE  d.side \in Sides /\ d.address \in Addrs /\ d.txid \in TxIds
<1>1. PICK e \in Entries : d = Doc(e)
  BY DEF Docs
<1> QED BY <1>1, EntryFields

\* A plan is a sequence of planned entries.
LEMMA PlanElements ==
    ASSUME NEW t \in TxIds
    PROVE  Plan[t] \in Seq(AllEntries)
<1>1. Plan[t] \in Seq(Entry)
  BY PlanAssumption
<1>2. \A i \in 1..Len(Plan[t]) : Plan[t][i] \in AllEntries
  BY DEF AllEntries
<1> QED BY <1>1, <1>2

\* Splicing an element out of a sequence leaves a sequence of the same kind.
LEMMA SplicedType ==
    ASSUME NEW S, NEW s \in Seq(S), NEW x
    PROVE  Spliced(s, x) \in Seq(S)
<1>1. CASE \E i \in 1..Len(s) : s[i] = x
  <2> DEFINE i == CHOOSE j \in 1..Len(s) : s[j] = x
  <2>1. SubSeq(s, 1, i - 1) \in Seq(S) /\ SubSeq(s, i + 1, Len(s)) \in Seq(S)
    <3>1. i \in 1..Len(s)
      BY <1>1
    <3>2. \A j \in 1..Len(s) : s[j] \in S
      OBVIOUS
    <3> HIDE DEF i
    <3>3. SubSeq(s, 1, i - 1) \in Seq(S)
      <4>1. \A j \in 1..(i - 1) : s[j] \in S
        BY <3>1, <3>2
      <4>2. i - 1 \in Int
        BY <3>1
      <4> QED BY <4>1, <4>2, SubSeqProperties
    <3>4. SubSeq(s, i + 1, Len(s)) \in Seq(S)
      <4>1. \A j \in (i + 1)..Len(s) : s[j] \in S
        BY <3>1, <3>2
      <4>2. i + 1 \in Int /\ Len(s) \in Int
        BY <3>1
      <4> QED BY <4>1, <4>2, SubSeqProperties
    <3> QED BY <3>3, <3>4
  <2> QED BY <1>1, <2>1, ConcatProperties DEF Spliced
<1>2. CASE ~ \E i \in 1..Len(s) : s[i] = x
  BY <1>2 DEF Spliced
<1> QED BY <1>1, <1>2

-----------------------------------------------------------------------------
(* Types.                                                                  *)

USE DEF PCs, Sides, NoWrite

\* The counts at the start.
LEMMA ZeroType == Zero \in [Docs -> Int] /\ \A d \in Docs : Zero[d] = 0
BY DEF Zero

\* Nothing in flight is a well-typed flight.
LEMMA NoFlightType ==
    NoFlight \in [blockIn: SUBSET Blocks, blockOut: SUBSET Blocks,
                  lockIn: [Docs -> Int], lockOut: [Docs -> Int]]
BY ZeroType DEF NoFlight

\* An empty database and a process about to sync are well typed.
LEMMA TypeInit == Init => TypeOK
<1> SUFFICES ASSUME Init PROVE TypeOK
  OBVIOUS
<1>1. last \in [Sides -> [Addrs -> Indexes]] /\ txs \in [Addrs -> Seq(TxIds)]
  BY DEF Init, Indexes
<1>2. StoreTypeOK
  BY <1>1, ChainAssumption, NoFlightType, ZeroType DEF Init, StoreTypeOK
<1>3. ProcessTypeOK
  <2>1. work \in Seq(TxIds) /\ stale \in Seq(Blocks) /\ todo \in Seq(AllEntries)
    BY DEF Init
  <2> QED BY <2>1, ZeroType DEF Init, ProcessTypeOK
<1>4. PlaceOK
  BY DEF Init, PlaceOK
<1> QED BY <1>2, <1>3, <1>4 DEF TypeOK

\* A process that goes down leaves well-typed variables behind.
LEMMA StopType ==
    ASSUME TypeOK, Stop, chain' = chain,
           reorgs' \in Nat, crashes' \in Nat, faults' \in Nat
    PROVE  TypeOK'
<1>1. StoreTypeOK'
  BY NoFlightType DEF TypeOK, StoreTypeOK, Stop, records, book
<1>2. ProcessTypeOK'
  <2>1. work' \in Seq(TxIds) /\ stale' \in Seq(Blocks) /\ todo' \in Seq(AllEntries)
    BY DEF Stop
  <2> QED BY <2>1, ZeroType DEF ProcessTypeOK, Stop
<1>3. PlaceOK'
  BY DEF PlaceOK, Stop
<1> QED BY <1>1, <1>2, <1>3 DEF TypeOK

\* One step per action: no handler, failure or environment step breaks a type.
LEMMA TypeNext == TypeOK /\ [Next]_vars => TypeOK'
<1> SUFFICES ASSUME TypeOK, [Next]_vars PROVE TypeOK'
  OBVIOUS
<1> USE DEF env, records, book, writes, process, TypeOK
<1>1. CASE ReadHeights
  BY <1>1, ChainAssumption DEF StoreTypeOK, ProcessTypeOK, PlaceOK, ReadHeights, ResumeHeight
<1>2. CASE NextBlock
  BY <1>2 DEF StoreTypeOK, ProcessTypeOK, PlaceOK, NextBlock, IssueCursor
<1>3. CASE SyncDone
  BY <1>3 DEF StoreTypeOK, ProcessTypeOK, PlaceOK, SyncDone, IssueCursor
<1>4. CASE FetchBlock
  <2>1. chain[db] \in Blocks /\ BlockTxs[chain[db]] \in Seq(TxIds)
    BY <1>4, ChainAssumption DEF StoreTypeOK, FetchBlock
  <2>store. StoreTypeOK'
    BY <1>4, <2>1 DEF StoreTypeOK, FetchBlock
  <2>process. ProcessTypeOK'
    BY <1>4, <2>1 DEF ProcessTypeOK, FetchBlock
  <2>place. PlaceOK'
    BY <1>4 DEF PlaceOK, FetchBlock
  <2> QED BY <2>store, <2>process, <2>place
<1>5. CASE NextTx
  BY <1>5, PlanElements DEF StoreTypeOK, ProcessTypeOK, PlaceOK, NextTx
<1>6. CASE SkipEntry
  BY <1>6 DEF StoreTypeOK, ProcessTypeOK, PlaceOK, SkipEntry
<1>7. CASE PostEntry
  <2> DEFINE e == Head(todo)
             d == Doc(e)
  <2>1. e \in AllEntries /\ e \in Entries
    BY <1>7 DEF ProcessTypeOK, PostEntry, Entries
  <2>2. /\ e.side \in Sides /\ e.addr \in Addrs /\ e.tx \in TxIds /\ d \in Docs
        /\ IndexOf(e) \in Indexes
    BY <2>1, EntryFields
  <2>3. Post(e)
    BY <1>7 DEF PostEntry
  <2> HIDE DEF e, d
  <2>4. /\ amount' = amount \/ amount' = [amount EXCEPT ![d] = @ + 1]
        /\ locked' = locked \/ locked' = [locked EXCEPT ![d] = IF Locked(e, db) THEN @ + 1 ELSE @]
        /\ interest' = interest
        /\ last' = last \/ last' = [last EXCEPT ![e.side][e.addr] = IndexOf(e)]
        /\ txs' = txs \/ txs' = [txs EXCEPT ![e.addr] = Listed(e.tx, @)]
        /\ flight' = [flight EXCEPT !.lockIn[d] = IF Locked(e, db) THEN @ + 1 ELSE @]
    BY <2>3 DEF Post, d
  <2>5. amount' \in [Docs -> Int]
    <3>1. [amount EXCEPT ![d] = @ + 1] \in [Docs -> Int]
      BY <2>2 DEF StoreTypeOK
    <3> QED BY <2>4, <3>1 DEF StoreTypeOK
  <2>6. locked' \in [Docs -> Int]
    <3>1. [locked EXCEPT ![d] = IF Locked(e, db) THEN @ + 1 ELSE @] \in [Docs -> Int]
      BY <2>2 DEF StoreTypeOK
    <3> QED BY <2>4, <3>1 DEF StoreTypeOK
  <2>7. last' \in [Sides -> [Addrs -> Indexes]]
    <3>1. [last EXCEPT ![e.side][e.addr] = IndexOf(e)] \in [Sides -> [Addrs -> Indexes]]
      BY <2>2 DEF StoreTypeOK
    <3> QED BY <2>4, <3>1 DEF StoreTypeOK
  <2>8. txs' \in [Addrs -> Seq(TxIds)]
    <3>1. Listed(e.tx, txs[e.addr]) \in Seq(TxIds)
      BY <2>2, ConcatProperties DEF StoreTypeOK, Listed
    <3> QED BY <2>2, <2>4, <3>1 DEF StoreTypeOK
  <2> DEFINE l == [flight.lockIn EXCEPT ![d] = IF Locked(e, db) THEN @ + 1 ELSE @]
  <2>9. l \in [Docs -> Int]
    BY <2>2 DEF StoreTypeOK
  <2>10. flight' = [flight EXCEPT !.lockIn = l]
    BY <2>4 DEF StoreTypeOK
  <2> HIDE DEF l
  <2>11. flight' \in [blockIn: SUBSET Blocks, blockOut: SUBSET Blocks,
                       lockIn: [Docs -> Int], lockOut: [Docs -> Int]]
    BY <2>9, <2>10 DEF StoreTypeOK
  <2>store. StoreTypeOK'
    BY <1>7, <2>4, <2>5, <2>6, <2>7, <2>8, <2>11 DEF StoreTypeOK, PostEntry
  <2>process. ProcessTypeOK'
    BY <1>7 DEF ProcessTypeOK, PostEntry
  <2>place. PlaceOK'
    BY <1>7, <2>1 DEF PlaceOK, PostEntry, e
  <2> QED BY <2>store, <2>process, <2>place
<1>8. CASE RecordEntry
  BY <1>8, EntryFields DEF StoreTypeOK, ProcessTypeOK, PlaceOK, RecordEntry
<1>9. CASE BlockDone
  <2>1. stale' \in Seq(Blocks)
    BY <1>9 DEF ProcessTypeOK, PlaceOK, BlockDone
  <2>2. flight' = flight \/ (stale # <<>> /\ flight' = StaleRemoved)
    BY <1>9 DEF ProcessTypeOK, PlaceOK, BlockDone
  <2>3. flight' \in [blockIn: SUBSET Blocks, blockOut: SUBSET Blocks,
                      lockIn: [Docs -> Int], lockOut: [Docs -> Int]]
    <3>1. stale # <<>> => flight.blockOut \union {Head(stale)} \subseteq Blocks
      BY DEF StoreTypeOK, ProcessTypeOK
    <3> QED BY <2>2, <3>1 DEF StoreTypeOK, StaleRemoved
  <2>store. StoreTypeOK'
    BY <1>9, <2>3 DEF StoreTypeOK, BlockDone
  <2>process. ProcessTypeOK'
    BY <1>9, <2>1 DEF ProcessTypeOK, BlockDone
  <2>place. PlaceOK'
    BY <1>9 DEF ProcessTypeOK, PlaceOK, BlockDone
  <2> QED BY <2>store, <2>process, <2>place
<1>10. CASE Tick
  BY <1>10 DEF StoreTypeOK, ProcessTypeOK, PlaceOK, Tick
<1>11. CASE ScanMatch
  BY <1>11 DEF StoreTypeOK, ProcessTypeOK, PlaceOK, ScanMatch
<1>12. CASE ScanMismatch
  BY <1>12, ChainAssumption DEF StoreTypeOK, ProcessTypeOK, PlaceOK, ScanMismatch
<1>13. CASE ScanThrows
  BY <1>13, StopType DEF ScanThrows, StoreTypeOK
<1>14. CASE ScanDone
  BY <1>14 DEF StoreTypeOK, ProcessTypeOK, PlaceOK, ScanDone
<1>15. CASE UndoTx
  BY <1>15 DEF StoreTypeOK, ProcessTypeOK, PlaceOK, UndoTx, RecordsOf
<1>16. CASE UndoRecord
  <2>1. PICK d \in undo :
          /\ recorded' = recorded \ {d} /\ doc' = d /\ lockSeen' = LocksFound(d)
          /\ flight' = [flight EXCEPT !.lockOut =
                [x \in Docs |-> IF LocksFound(d)[x] > 0 THEN LocksFound(d)[x] ELSE @[x]]]
    BY <1>16 DEF UndoRecord
  <2>2. LocksFound(d) \in [Docs -> Int]
    BY DEF LocksFound, StoreTypeOK
  <2>3. [x \in Docs |-> IF LocksFound(d)[x] > 0 THEN LocksFound(d)[x] ELSE flight.lockOut[x]]
           \in [Docs -> Int]
    BY <2>2 DEF StoreTypeOK
  <2>4. flight' \in [blockIn: SUBSET Blocks, blockOut: SUBSET Blocks,
                      lockIn: [Docs -> Int], lockOut: [Docs -> Int]]
    BY <2>1, <2>3 DEF StoreTypeOK
  <2>store. StoreTypeOK'
    BY <1>16, <2>1, <2>4 DEF StoreTypeOK, UndoRecord
  <2>process. ProcessTypeOK'
    BY <1>16, <2>1, <2>2 DEF ProcessTypeOK, UndoRecord
  <2>place. PlaceOK'
    BY <1>16, <2>1 DEF PlaceOK, UndoRecord
  <2> QED BY <2>store, <2>process, <2>place
<1>17. CASE UndoSum
  <2>1. doc \in undo /\ doc \in Docs /\ doc.side \in Sides /\ doc.address \in Addrs
    BY <1>17, DocFields DEF ProcessTypeOK, PlaceOK, UndoSum
  <2>2. amount' \in [Docs -> Int]
    BY <1>17, <2>1 DEF StoreTypeOK, UndoSum, AmountWithout
  <2>3. locked' \in [Docs -> Int]
    BY <1>17 DEF StoreTypeOK, ProcessTypeOK, UndoSum, LockedWithout
  <2>4. interest' \in [Docs -> Int]
    BY <1>17 DEF StoreTypeOK, ProcessTypeOK, UndoSum
  <2>5. last' \in [Sides -> [Addrs -> Indexes]]
    BY <1>17, <2>1 DEF StoreTypeOK, UndoSum, LastWithout, Indexes
  <2>6. txs' \in [Addrs -> Seq(TxIds)]
    BY <1>17, <2>1, SplicedType DEF StoreTypeOK, UndoSum, TxsWithout
  <2>store. StoreTypeOK'
    BY <1>17, <2>2, <2>3, <2>4, <2>5, <2>6 DEF StoreTypeOK, UndoSum
  <2>process. ProcessTypeOK'
    BY <1>17, ZeroType DEF ProcessTypeOK, UndoSum
  <2>place. PlaceOK'
    BY <1>17 DEF PlaceOK, UndoSum
  <2> QED BY <2>store, <2>process, <2>place
<1>18. CASE UndoDone
  BY <1>18 DEF StoreTypeOK, ProcessTypeOK, PlaceOK, UndoDone
<1>19. CASE ReadHeightsFails
  BY <1>19 DEF StoreTypeOK, ProcessTypeOK, PlaceOK, ReadHeightsFails, Fault
<1>20. CASE FetchBlockFails
  <2>1. faults' \in Nat /\ chain' = chain /\ reorgs' \in Nat /\ crashes' \in Nat
    BY <1>20 DEF StoreTypeOK, FetchBlockFails, Fault
  <2>2. CASE Stop
    BY <2>1, <2>2, StopType
  <2>3. CASE Abort
    <3>1. StoreTypeOK'
      BY <2>1, <2>3 DEF StoreTypeOK, Abort
    <3>2. ProcessTypeOK'
      <4>1. work' \in Seq(TxIds) /\ stale' \in Seq(Blocks) /\ todo' \in Seq(AllEntries)
        BY <2>3 DEF Abort
      <4> QED BY <2>3, <4>1 DEF ProcessTypeOK, Abort
    <3>3. PlaceOK'
      BY <2>3 DEF PlaceOK, Abort
    <3> QED BY <3>1, <3>2, <3>3
  <2> QED BY <1>20, <2>2, <2>3 DEF FetchBlockFails
<1>21. CASE NextTxFails
  BY <1>21, StopType DEF NextTxFails, Fault, StoreTypeOK
<1>22. CASE ScanFails
  <2>store. StoreTypeOK'
    BY <1>22 DEF StoreTypeOK, ScanFails, Fault, Abort
  <2>process. ProcessTypeOK'
    <3>1. work' \in Seq(TxIds) /\ stale' \in Seq(Blocks) /\ todo' \in Seq(AllEntries)
      BY <1>22 DEF ScanFails, Abort
    <3> QED BY <1>22, <3>1 DEF ProcessTypeOK, ScanFails, Abort
  <2>place. PlaceOK'
    BY <1>22 DEF PlaceOK, ScanFails, Abort
  <2> QED BY <2>store, <2>process, <2>place
<1>23. CASE DeliverCursor
  BY <1>23 DEF StoreTypeOK, ProcessTypeOK, PlaceOK, DeliverCursor
<1>24. CASE DeliverBlockIn
  <2>1. PICK b \in flight.blockIn : /\ blockDocs' \in Inserted(b)
                                   /\ flight' = [flight EXCEPT !.blockIn = @ \ {b}]
    BY <1>24 DEF DeliverBlockIn
  <2>2. b \in Blocks
    BY <2>1 DEF StoreTypeOK
  <2>3. blockDocs' \in Seq(Blocks)
    <3>1. Append(blockDocs, b) \in Seq(Blocks)
      BY <2>2 DEF StoreTypeOK
    <3>2. blockDocs # <<>> => Append(Tail(blockDocs), b) \in Seq(Blocks)
      BY <2>2 DEF StoreTypeOK
    <3> QED BY <2>1, <3>1, <3>2 DEF Inserted, StoreTypeOK
  <2>store. StoreTypeOK'
    BY <1>24, <2>1, <2>3 DEF StoreTypeOK, DeliverBlockIn
  <2>process. ProcessTypeOK'
    BY <1>24 DEF ProcessTypeOK, DeliverBlockIn
  <2>place. PlaceOK'
    BY <1>24 DEF PlaceOK, DeliverBlockIn
  <2> QED BY <2>store, <2>process, <2>place
<1>25. CASE DeliverBlockOut
  <2>1. PICK b \in flight.blockOut : /\ blockDocs' = Spliced(blockDocs, b)
                                    /\ flight' = [flight EXCEPT !.blockOut = @ \ {b}]
    BY <1>25 DEF DeliverBlockOut
  <2>2. blockDocs' \in Seq(Blocks)
    BY <2>1, SplicedType DEF StoreTypeOK
  <2>store. StoreTypeOK'
    BY <1>25, <2>1, <2>2 DEF StoreTypeOK, DeliverBlockOut
  <2>process. ProcessTypeOK'
    BY <1>25 DEF ProcessTypeOK, DeliverBlockOut
  <2>place. PlaceOK'
    BY <1>25 DEF PlaceOK, DeliverBlockOut
  <2> QED BY <2>store, <2>process, <2>place
<1>26. CASE DeliverLockIn
  <2>1. PICK d \in Docs : /\ lockDocs' = [lockDocs EXCEPT ![d] = @ + 1]
                         /\ flight' = [flight EXCEPT !.lockIn[d] = @ - 1]
    BY <1>26 DEF DeliverLockIn
  <2>2. lockDocs' \in [Docs -> Int]
    BY <2>1 DEF StoreTypeOK
  <2> DEFINE l == [flight.lockIn EXCEPT ![d] = @ - 1]
  <2>3. l \in [Docs -> Int]
    BY DEF StoreTypeOK
  <2>4. flight' = [flight EXCEPT !.lockIn = l]
    BY <2>1 DEF StoreTypeOK
  <2> HIDE DEF l
  <2>5. flight' \in [blockIn: SUBSET Blocks, blockOut: SUBSET Blocks,
                      lockIn: [Docs -> Int], lockOut: [Docs -> Int]]
    BY <2>3, <2>4 DEF StoreTypeOK
  <2>store. StoreTypeOK'
    BY <1>26, <2>2, <2>5 DEF StoreTypeOK, DeliverLockIn
  <2>process. ProcessTypeOK'
    BY <1>26 DEF ProcessTypeOK, DeliverLockIn
  <2>place. PlaceOK'
    BY <1>26 DEF PlaceOK, DeliverLockIn
  <2> QED BY <2>store, <2>process, <2>place
<1>27. CASE DeliverLockOut
  <2>1. PICK d \in Docs : /\ lockDocs' = [lockDocs EXCEPT ![d] = @ - flight.lockOut[d]]
                         /\ flight' = [flight EXCEPT !.lockOut[d] = 0]
    BY <1>27 DEF DeliverLockOut
  <2>2. lockDocs' \in [Docs -> Int]
    BY <2>1 DEF StoreTypeOK
  <2> DEFINE l == [flight.lockOut EXCEPT ![d] = 0]
  <2>3. l \in [Docs -> Int]
    BY DEF StoreTypeOK
  <2>4. flight' = [flight EXCEPT !.lockOut = l]
    BY <2>1 DEF StoreTypeOK
  <2> HIDE DEF l
  <2>5. flight' \in [blockIn: SUBSET Blocks, blockOut: SUBSET Blocks,
                      lockIn: [Docs -> Int], lockOut: [Docs -> Int]]
    BY <2>3, <2>4 DEF StoreTypeOK
  <2>store. StoreTypeOK'
    BY <1>27, <2>2, <2>5 DEF StoreTypeOK, DeliverLockOut
  <2>process. ProcessTypeOK'
    BY <1>27 DEF ProcessTypeOK, DeliverLockOut
  <2>place. PlaceOK'
    BY <1>27 DEF PlaceOK, DeliverLockOut
  <2> QED BY <2>store, <2>process, <2>place
<1>28. CASE Mine
  BY <1>28 DEF StoreTypeOK, ProcessTypeOK, PlaceOK, Mine
<1>29. CASE Reorganize
  BY <1>29 DEF StoreTypeOK, ProcessTypeOK, PlaceOK, Reorganize
<1>30. CASE FetchRaw
  BY <1>30, BoundAssumption DEF StoreTypeOK, ProcessTypeOK, PlaceOK, FetchRaw
<1>31. CASE Crash
  BY <1>31, StopType DEF Crash, StoreTypeOK
<1>32. CASE Restart
  BY <1>32 DEF StoreTypeOK, ProcessTypeOK, PlaceOK, Restart
<1>33. CASE UNCHANGED vars
  BY <1>33 DEF StoreTypeOK, ProcessTypeOK, PlaceOK, vars
<1> QED BY <1>1, <1>2, <1>3, <1>4, <1>5, <1>6, <1>7, <1>8, <1>9, <1>10, <1>11, <1>12, <1>13, <1>14, <1>15, <1>16, <1>17, <1>18, <1>19, <1>20, <1>21, <1>22, <1>23, <1>24, <1>25, <1>26, <1>27, <1>28, <1>29, <1>30, <1>31, <1>32, <1>33
       DEF Next, Sync, Walk, Clear, Failures, Deliver, Environment

\* The variables keep their types, whatever the chain and the failures.
THEOREM TypeCorrect == Spec => []TypeOK
<1>1. Init => TypeOK
  BY TypeInit
<1>2. TypeOK /\ [Next]_vars => TypeOK'
  BY TypeNext
<1> QED BY <1>1, <1>2, PTL DEF Spec

-----------------------------------------------------------------------------
(* The cost of a crash.                                                    *)

\* The part of LedgerInv beyond the types.
Accounted == WindowsMatchRecords /\ LastIsPosted /\ DriftBoundedByCrashes

\* Nothing is posted and nothing is due at the start.
LEMMA DriftInit == Init => Accounted
<1> SUFFICES ASSUME Init PROVE Accounted
  OBVIOUS
<1>1. \A e \in Entries : last[e.side][e.addr] # IndexOf(e)
  BY EntryFields DEF Init
<1>2. \A d \in Docs : amount[d] = 0 /\ Due(d) = 0
  BY ZeroType DEF Init, Due, Between
<1> QED BY <1>1, <1>2 DEF Init, Accounted, WindowsMatchRecords, LastIsPosted, DriftBoundedByCrashes

\* A step that leaves the ledger and the place of the process alone.
LEMMA StillStep ==
    ASSUME Accounted, UNCHANGED <<amount, last, recorded, crashes, pc, todo, undo, doc>>
    PROVE  Accounted'
<1>1. \A d : Due(d)' = Due(d)
  BY DEF Due, Between
<1> QED BY <1>1 DEF Accounted, WindowsMatchRecords, LastIsPosted, DriftBoundedByCrashes

\* A step of the process outside the two windows that leaves the ledger alone.
LEMMA QuietStep ==
    ASSUME Accounted, UNCHANGED <<amount, last, recorded, crashes>>,
           pc \notin {"record", "undoSum"}, pc' \notin {"record", "undoSum"},
           undo' \subseteq recorded, undo' # {} => pc' = "undo"
    PROVE  Accounted'
<1>1. \A d : Due(d)' = Due(d)
  BY DEF Due, Between
<1> QED BY <1>1 DEF Accounted, WindowsMatchRecords, LastIsPosted, DriftBoundedByCrashes

\* The first write of a posting: it was not due, so it was in the sum once per
\* crash at most, and now it is due.
LEMMA PostStep ==
    ASSUME TypeOK, Accounted, PostEntry
    PROVE  Accounted'
<1> DEFINE e == Head(todo)
           d == Doc(e)
<1>1. e \in Entries
  BY DEF TypeOK, ProcessTypeOK, PostEntry, Entries
<1>2. e.side \in Sides /\ e.addr \in Addrs /\ d \in Docs /\ IndexOf(e) \in Indexes
  BY <1>1, EntryFields
<1>3. /\ Post(e) /\ d \notin recorded
      /\ pc = "entry" /\ pc' = "record"
      /\ UNCHANGED <<recorded, crashes, todo, undo, doc>>
  BY DEF PostEntry, env, records
<1>4. /\ \A x \in Docs : Due(x) = IF x \in recorded THEN 1 ELSE 0
      /\ \A x \in Docs : Due(x)' = IF x \in recorded \/ x = d THEN 1 ELSE 0
  BY <1>3 DEF Due, Between
<1> HIDE DEF e, d
<1>5. WindowsMatchRecords'
  BY <1>3 DEF Accounted, WindowsMatchRecords, d, e
<1>6. CASE AlreadyLast(e)
  <2>1. amount' = amount /\ last' = last
    BY <1>3, <1>6 DEF Post
  <2>2. ~ Contested(d) => amount[d] >= 1
    BY <1>1, <1>6 DEF Accounted, LastIsPosted, AlreadyLast, d
  <2>3. DriftBoundedByCrashes'
    <3> SUFFICES ASSUME NEW x \in Docs, ~ Contested(x)
                 PROVE  amount'[x] - Due(x)' \in 0..crashes'
      BY DEF DriftBoundedByCrashes
    <3>1. amount[x] - Due(x) \in 0..crashes /\ amount[x] \in Int /\ crashes \in Nat
      BY DEF Accounted, DriftBoundedByCrashes, TypeOK, StoreTypeOK
    <3>2. CASE x = d
      BY <1>3, <1>4, <2>1, <2>2, <3>1, <3>2
    <3>3. CASE x # d
      BY <1>3, <1>4, <2>1, <3>1, <3>3
    <3> QED BY <3>2, <3>3
  <2> QED BY <1>5, <2>1, <2>3 DEF Accounted, LastIsPosted
<1>7. CASE ~ AlreadyLast(e)
  <2>1. /\ amount' = [amount EXCEPT ![d] = @ + 1]
        /\ last' = [last EXCEPT ![e.side][e.addr] = IndexOf(e)]
    BY <1>3, <1>7 DEF Post, d
  <2>2. \A x \in Docs : amount'[x] = IF x = d THEN amount[x] + 1 ELSE amount[x]
    BY <1>2, <2>1 DEF TypeOK, StoreTypeOK
  <2>3. DriftBoundedByCrashes'
    <3> SUFFICES ASSUME NEW x \in Docs, ~ Contested(x)
                 PROVE  amount'[x] - Due(x)' \in 0..crashes'
      BY DEF DriftBoundedByCrashes
    <3>1. amount[x] - Due(x) \in 0..crashes /\ amount[x] \in Int /\ crashes \in Nat
      BY DEF Accounted, DriftBoundedByCrashes, TypeOK, StoreTypeOK
    <3> QED BY <1>3, <1>4, <2>2, <3>1
  <2>4. LastIsPosted'
    <3> SUFFICES ASSUME NEW f \in Entries, ~ Contested(Doc(f)),
                        last'[f.side][f.addr] = IndexOf(f)
                 PROVE  amount'[Doc(f)] >= 1
      BY DEF LastIsPosted
    <3>1. f.side \in Sides /\ f.addr \in Addrs /\ Doc(f) \in Docs
      BY EntryFields
    <3>2. amount[Doc(f)] - Due(Doc(f)) \in 0..crashes /\ amount[Doc(f)] \in Int /\ crashes \in Nat
      BY <3>1 DEF Accounted, DriftBoundedByCrashes, TypeOK, StoreTypeOK
    <3>3. CASE Doc(f) = d
      BY <1>4, <2>2, <3>1, <3>2, <3>3
    <3>4. CASE Doc(f) # d
      <4>1. ~ (f.side = e.side /\ f.addr = e.addr)
        <5> SUFFICES ASSUME f.side = e.side, f.addr = e.addr PROVE FALSE
          OBVIOUS
        <5>1. IndexOf(f) = IndexOf(e)
          BY <1>2, <2>1, <3>1 DEF TypeOK, StoreTypeOK
        <5> QED BY <1>1, <3>4, <5>1 DEF Contested, d
      <4>2. last[f.side][f.addr] = IndexOf(f)
        BY <1>2, <2>1, <3>1, <4>1 DEF TypeOK, StoreTypeOK
      <4> QED BY <2>2, <3>1, <3>2, <3>4, <4>2 DEF Accounted, LastIsPosted
    <3> QED BY <3>3, <3>4
  <2> QED BY <1>5, <2>3, <2>4 DEF Accounted
<1> QED BY <1>6, <1>7

\* The second write: what was between is recorded.
LEMMA RecordStep ==
    ASSUME TypeOK, Accounted, RecordEntry
    PROVE  Accounted'
<1>1. /\ pc = "record" /\ pc' = "entry"
      /\ recorded' = recorded \union {Doc(Head(todo))}
      /\ UNCHANGED <<amount, last, crashes, undo, doc>>
  BY DEF RecordEntry, env, book
<1>2. \A x : Due(x)' = Due(x)
  BY <1>1 DEF Due, Between
<1>3. undo = {}
  BY <1>1 DEF Accounted, WindowsMatchRecords
<1> QED BY <1>1, <1>2, <1>3
        DEF Accounted, WindowsMatchRecords, LastIsPosted, DriftBoundedByCrashes

\* The first write of a rollback: what was recorded is between.
LEMMA UndoRecordStep ==
    ASSUME TypeOK, Accounted, UndoRecord
    PROVE  Accounted'
<1>1. /\ pc = "undo" /\ pc' = "undoSum"
      /\ doc' \in undo /\ recorded' = recorded \ {doc'}
      /\ UNCHANGED <<amount, last, crashes, undo>>
  BY DEF UndoRecord, env, book
<1>2. undo \subseteq recorded
  BY <1>1 DEF Accounted, WindowsMatchRecords
<1>3. \A x : Due(x)' = Due(x)
  BY <1>1, <1>2 DEF Due, Between
<1>4. WindowsMatchRecords'
  BY <1>1, <1>2 DEF WindowsMatchRecords
<1> QED BY <1>1, <1>3, <1>4 DEF Accounted, LastIsPosted, DriftBoundedByCrashes

\* The second: it leaves the sum, and the index of its address is reset.
LEMMA UndoSumStep ==
    ASSUME TypeOK, Accounted, UndoSum
    PROVE  Accounted'
<1>1. /\ pc = "undoSum" /\ pc' = "undo"
      /\ amount' = [amount EXCEPT ![doc] = @ - 1]
      /\ last' = [last EXCEPT ![doc.side][doc.address] = NoIndex]
      /\ undo' = undo \ {doc}
      /\ UNCHANGED <<recorded, crashes>>
  BY DEF UndoSum, AmountWithout, LastWithout, env, records
<1>2. doc \in Docs /\ doc.side \in Sides /\ doc.address \in Addrs
  BY <1>1, DocFields DEF TypeOK, ProcessTypeOK, PlaceOK
<1>3. doc \notin recorded /\ undo' \subseteq recorded
  BY <1>1 DEF Accounted, WindowsMatchRecords
<1>4. /\ \A x \in Docs : amount'[x] = IF x = doc THEN amount[x] - 1 ELSE amount[x]
      /\ \A x \in Docs : Due(x)' = IF x = doc THEN 0 ELSE Due(x)
      /\ Due(doc) = 1
  <2>1. \A x \in Docs : amount'[x] = IF x = doc THEN amount[x] - 1 ELSE amount[x]
    BY <1>1, <1>2 DEF TypeOK, StoreTypeOK
  <2>2. \A x \in Docs : Due(x)' = IF x = doc THEN 0 ELSE Due(x)
    BY <1>1, <1>3 DEF Due, Between
  <2>3. Due(doc) = 1
    BY <1>1 DEF Due, Between
  <2> QED BY <2>1, <2>2, <2>3
<1>5. WindowsMatchRecords'
  BY <1>1, <1>3 DEF WindowsMatchRecords
<1>6. DriftBoundedByCrashes'
  <2> SUFFICES ASSUME NEW x \in Docs, ~ Contested(x)
               PROVE  amount'[x] - Due(x)' \in 0..crashes'
    BY DEF DriftBoundedByCrashes
  <2>1. amount[x] - Due(x) \in 0..crashes /\ amount[x] \in Int /\ crashes \in Nat
    BY DEF Accounted, DriftBoundedByCrashes, TypeOK, StoreTypeOK
  <2> QED BY <1>1, <1>4, <2>1
<1>7. LastIsPosted'
  <2> SUFFICES ASSUME NEW f \in Entries, ~ Contested(Doc(f)),
                      last'[f.side][f.addr] = IndexOf(f)
               PROVE  amount'[Doc(f)] >= 1
    BY DEF LastIsPosted
  <2>1. /\ f.side \in Sides /\ f.addr \in Addrs /\ Doc(f) \in Docs /\ IndexOf(f) # NoIndex
        /\ Doc(f).side = f.side /\ Doc(f).address = f.addr
    BY EntryFields
  <2>2. ~ (f.side = doc.side /\ f.addr = doc.address)
    BY <1>1, <1>2, <2>1 DEF TypeOK, StoreTypeOK
  <2>3. last[f.side][f.addr] = IndexOf(f) /\ Doc(f) # doc
    BY <1>1, <1>2, <2>1, <2>2 DEF TypeOK, StoreTypeOK
  <2> QED BY <1>4, <2>1, <2>3 DEF Accounted, LastIsPosted
<1> QED BY <1>5, <1>6, <1>7 DEF Accounted

\* A crash turns what was between into what may be posted again.
LEMMA CrashStep ==
    ASSUME TypeOK, Accounted, Crash
    PROVE  Accounted'
<1>1. /\ pc' = "down" /\ undo' = {} /\ crashes' = crashes + 1
      /\ UNCHANGED <<amount, last, recorded>>
  BY DEF Crash, Stop, book, records
<1>2. \A x : Due(x)' \in {Due(x), Due(x) - 1} /\ Due(x) \in {0, 1} /\ Due(x)' \in {0, 1}
  BY <1>1 DEF Due, Between
<1>3. DriftBoundedByCrashes'
  <2> SUFFICES ASSUME NEW x \in Docs, ~ Contested(x)
               PROVE  amount'[x] - Due(x)' \in 0..crashes'
    BY DEF DriftBoundedByCrashes
  <2>1. amount[x] - Due(x) \in 0..crashes /\ amount[x] \in Int /\ crashes \in Nat
    BY DEF Accounted, DriftBoundedByCrashes, TypeOK, StoreTypeOK
  <2> QED BY <1>1, <1>2, <2>1
<1> QED BY <1>1, <1>3 DEF Accounted, WindowsMatchRecords, LastIsPosted

\* Every step keeps the account: only the two writes of a posting, the two of a
\* rollback and a crash touch it.
LEMMA DriftNext == TypeOK /\ Accounted /\ [Next]_vars => Accounted'
<1> SUFFICES ASSUME TypeOK, Accounted, [Next]_vars PROVE Accounted'
  OBVIOUS
<1> USE DEF env, records, book, writes, process
<1>1. CASE ReadHeights
  BY <1>1, QuietStep DEF Accounted, WindowsMatchRecords, ReadHeights
<1>2. CASE NextBlock
  BY <1>2, QuietStep DEF Accounted, WindowsMatchRecords, NextBlock
<1>3. CASE SyncDone
  BY <1>3, QuietStep DEF Accounted, WindowsMatchRecords, SyncDone
<1>4. CASE FetchBlock
  BY <1>4, QuietStep DEF Accounted, WindowsMatchRecords, FetchBlock
<1>5. CASE NextTx
  BY <1>5, QuietStep DEF Accounted, WindowsMatchRecords, NextTx
<1>6. CASE SkipEntry
  BY <1>6, QuietStep DEF Accounted, WindowsMatchRecords, SkipEntry
<1>7. CASE BlockDone
  BY <1>7, QuietStep DEF Accounted, WindowsMatchRecords, BlockDone
<1>8. CASE Tick
  BY <1>8, QuietStep DEF Accounted, WindowsMatchRecords, Tick
<1>9. CASE ScanMatch
  BY <1>9, QuietStep DEF Accounted, WindowsMatchRecords, ScanMatch
<1>10. CASE ScanMismatch
  BY <1>10, QuietStep DEF Accounted, WindowsMatchRecords, ScanMismatch
<1>11. CASE ScanThrows
  BY <1>11, QuietStep DEF Accounted, WindowsMatchRecords, ScanThrows, Stop
<1>12. CASE ScanDone
  BY <1>12, QuietStep DEF Accounted, WindowsMatchRecords, ScanDone
<1>13. CASE UndoTx
  BY <1>13, QuietStep DEF Accounted, WindowsMatchRecords, UndoTx, RecordsOf
<1>14. CASE UndoDone
  BY <1>14, QuietStep DEF Accounted, WindowsMatchRecords, UndoDone
<1>15. CASE ReadHeightsFails
  BY <1>15, QuietStep DEF Accounted, WindowsMatchRecords, ReadHeightsFails, Fault
<1>16. CASE FetchBlockFails
  BY <1>16, QuietStep DEF Accounted, WindowsMatchRecords, FetchBlockFails, Fault, Abort, Stop
<1>17. CASE NextTxFails
  BY <1>17, QuietStep DEF Accounted, WindowsMatchRecords, NextTxFails, Fault, Stop
<1>18. CASE ScanFails
  BY <1>18, QuietStep DEF Accounted, WindowsMatchRecords, ScanFails, Fault, Abort
<1>19. CASE Restart
  BY <1>19, QuietStep DEF Accounted, WindowsMatchRecords, Restart
<1>20. CASE DeliverCursor
  BY <1>20, StillStep DEF DeliverCursor
<1>21. CASE DeliverBlockIn
  BY <1>21, StillStep DEF DeliverBlockIn
<1>22. CASE DeliverBlockOut
  BY <1>22, StillStep DEF DeliverBlockOut
<1>23. CASE DeliverLockIn
  BY <1>23, StillStep DEF DeliverLockIn
<1>24. CASE DeliverLockOut
  BY <1>24, StillStep DEF DeliverLockOut
<1>25. CASE Mine
  BY <1>25, StillStep DEF Mine
<1>26. CASE Reorganize
  BY <1>26, StillStep DEF Reorganize
<1>27. CASE FetchRaw
  BY <1>27, StillStep DEF FetchRaw
<1>28. CASE PostEntry
  BY <1>28, PostStep
<1>29. CASE RecordEntry
  BY <1>29, RecordStep
<1>30. CASE UndoRecord
  BY <1>30, UndoRecordStep
<1>31. CASE UndoSum
  BY <1>31, UndoSumStep
<1>32. CASE Crash
  BY <1>32, CrashStep
<1>33. CASE UNCHANGED vars
  BY <1>33, StillStep DEF vars
<1> QED BY <1>1, <1>2, <1>3, <1>4, <1>5, <1>6, <1>7, <1>8, <1>9, <1>10, <1>11, <1>12,
        <1>13, <1>14, <1>15, <1>16, <1>17, <1>18, <1>19, <1>20, <1>21, <1>22, <1>23,
        <1>24, <1>25, <1>26, <1>27, <1>28, <1>29, <1>30, <1>31, <1>32, <1>33
        DEF Next, Sync, Walk, Clear, Failures, Deliver, Environment

\* A posting is in the sum of its address once for its record and at most once for
\* every crash, in every interleaving of the sync, the rollback, reorganisations,
\* failures and late writes.
THEOREM DriftIsBounded == Spec => []DriftBoundedByCrashes
<1>1. Init => TypeOK /\ Accounted
  BY TypeInit, DriftInit
<1>2. (TypeOK /\ Accounted) /\ [Next]_vars => (TypeOK /\ Accounted)'
  BY TypeNext, DriftNext
<1>3. TypeOK /\ Accounted => DriftBoundedByCrashes
  BY DEF Accounted
<1> QED BY <1>1, <1>2, <1>3, PTL DEF Spec

-----------------------------------------------------------------------------
(* The ledger implements AddressBook: each write of the sync and of the       *)
(* rollback is an entry, a taking back or no step of the book, and only a     *)
(* crash cuts it.  The accounts above are what makes the steps of the book    *)
(* possible.                                                                  *)

\* The book the ledger stands for.
InForce == {d \in Uncontested : Due(d) = 1}
Sums == [d \in Uncontested |-> amount[d]]

\* A step of the book is a step of what the ledger maps to.
LEMMA BookStep ==
    \/ UNCHANGED <<InForce, Sums, crashes>>
    \/ \E d \in Uncontested :
          /\ d \notin InForce /\ InForce' = InForce \union {d}
          /\ \/ Sums' = [Sums EXCEPT ![d] = @ + 1]
             \/ Sums[d] >= 1 /\ UNCHANGED Sums
          /\ UNCHANGED crashes
    \/ \E d \in Uncontested :
          /\ d \in InForce /\ InForce' = InForce \ {d}
          /\ Sums' = [Sums EXCEPT ![d] = @ - 1]
          /\ UNCHANGED crashes
    \/ /\ crashes < MaxCrashes /\ crashes' = crashes + 1
       /\ UNCHANGED InForce \/ \E d \in InForce : InForce' = InForce \ {d}
       /\ UNCHANGED Sums
    => [Book!BookNext]_(Book!bookVars)
BY DEF Book!BookNext, Book!Enter, Book!TakeBack, Book!Cut, Book!bookVars, InForce, Sums

\* An empty ledger is an empty book.
LEMMA BookInit == Init => Book!BookInit
<1> SUFFICES ASSUME Init PROVE Book!BookInit
  OBVIOUS
<1>1. \A d \in Docs : amount[d] = 0 /\ Due(d) = 0
  BY ZeroType DEF Init, Due, Between
<1>2. {d \in Uncontested : Due(d) = 1} = {}
  BY <1>1 DEF Uncontested
<1>3. [d \in Uncontested |-> amount[d]] = [d \in Uncontested |-> 0]
  BY <1>1 DEF Uncontested
<1>4. crashes = 0
  BY DEF Init
<1> QED BY <1>2, <1>3, <1>4 DEF Book!BookInit

\* What leaves the sums, the crashes and what is due alone is no step of the book.
LEMMA SameBook ==
    ASSUME UNCHANGED <<amount, crashes>>, \A d \in Docs : Due(d)' = Due(d)
    PROVE  UNCHANGED <<InForce, Sums, crashes>>
<1>1. InForce' = InForce
  BY DEF InForce, Uncontested
<1>2. Sums' = Sums
  BY DEF Sums
<1> QED BY <1>1, <1>2

\* A step that leaves the ledger and the place of the process alone.
LEMMA StillBook ==
    ASSUME UNCHANGED <<amount, recorded, crashes, pc, todo, doc>>
    PROVE  UNCHANGED <<InForce, Sums, crashes>>
<1>1. \A d \in Docs : Due(d)' = Due(d)
  BY DEF Due, Between
<1> QED BY <1>1, SameBook

\* A step of the process outside the two windows that leaves the ledger alone.
LEMMA QuietBook ==
    ASSUME UNCHANGED <<amount, recorded, crashes>>,
           pc \notin {"record", "undoSum"}, pc' \notin {"record", "undoSum"}
    PROVE  UNCHANGED <<InForce, Sums, crashes>>
<1>1. \A d \in Docs : Due(d)' = Due(d)
  BY DEF Due, Between
<1> QED BY <1>1, SameBook

\* The first write of a posting enters it; of a contested record, the book does
\* not speak.
LEMMA PostBook ==
    ASSUME TypeOK, Accounted, PostEntry
    PROVE  [Book!BookNext]_(Book!bookVars)
<1> DEFINE e == Head(todo)
           d == Doc(e)
<1>1. e \in Entries
  BY DEF TypeOK, ProcessTypeOK, PostEntry, Entries
<1>2. d \in Docs
  BY <1>1, EntryFields
<1>3. /\ Post(e) /\ d \notin recorded
      /\ pc = "entry" /\ pc' = "record"
      /\ UNCHANGED <<recorded, crashes, todo>>
  BY DEF PostEntry, env, records
<1>4. /\ \A x \in Docs : Due(x) = IF x \in recorded THEN 1 ELSE 0
      /\ \A x \in Docs : Due(x)' = IF x \in recorded \/ x = d THEN 1 ELSE 0
  BY <1>3 DEF Due, Between
<1>5. \/ amount' = [amount EXCEPT ![d] = @ + 1]
      \/ AlreadyLast(e) /\ amount' = amount
  BY <1>3 DEF Post
<1>6. AlreadyLast(e) /\ ~ Contested(d) => amount[d] >= 1
  BY <1>1 DEF Accounted, LastIsPosted, AlreadyLast
<1> HIDE DEF e, d
<1>7. amount \in [Docs -> Int]
  BY DEF TypeOK, StoreTypeOK
<1>8. CASE Contested(d)
  <2>1. InForce' = InForce
    BY <1>4, <1>8 DEF InForce, Uncontested
  <2>2. Sums' = Sums
    BY <1>2, <1>5, <1>7, <1>8 DEF Sums, Uncontested
  <2> QED BY <1>3, <2>1, <2>2, BookStep
<1>9. CASE ~ Contested(d)
  <2>1. d \in Uncontested /\ d \notin InForce
    BY <1>2, <1>3, <1>4, <1>9 DEF InForce, Uncontested
  <2>2. InForce' = InForce \union {d}
    BY <1>4, <2>1 DEF InForce, Uncontested
  <2>3. \/ Sums' = [Sums EXCEPT ![d] = @ + 1]
        \/ Sums[d] >= 1 /\ UNCHANGED Sums
    BY <1>2, <1>5, <1>6, <1>7, <1>9, <2>1 DEF Sums, Uncontested
  <2> QED BY <1>3, <2>1, <2>2, <2>3, BookStep
<1> QED BY <1>8, <1>9

\* The second write of a posting, and the first of a rollback, change nothing: what
\* was between is recorded, what was recorded is between.
LEMMA RecordBook ==
    ASSUME TypeOK, Accounted, RecordEntry \/ UndoRecord
    PROVE  UNCHANGED <<InForce, Sums, crashes>>
<1>1. CASE RecordEntry
  <2>1. \A d \in Docs : Due(d)' = Due(d)
    BY <1>1 DEF RecordEntry, Due, Between
  <2> QED BY <1>1, <2>1, SameBook DEF RecordEntry, env, book
<1>2. CASE UndoRecord
  <2>1. /\ pc = "undo" /\ pc' = "undoSum"
        /\ doc' \in undo /\ recorded' = recorded \ {doc'}
        /\ undo \subseteq recorded
    BY <1>2 DEF UndoRecord, Accounted, WindowsMatchRecords
  <2>2. \A d \in Docs : Due(d)' = Due(d)
    BY <2>1 DEF Due, Between
  <2> QED BY <1>2, <2>2, SameBook DEF UndoRecord, env, book
<1> QED BY <1>1, <1>2

\* The second write of a rollback takes the posting back.
LEMMA UndoBook ==
    ASSUME TypeOK, Accounted, UndoSum
    PROVE  [Book!BookNext]_(Book!bookVars)
<1>1. /\ pc = "undoSum" /\ pc' = "undo"
      /\ amount' = [amount EXCEPT ![doc] = @ - 1]
      /\ UNCHANGED <<recorded, crashes>>
  BY DEF UndoSum, AmountWithout, env, records
<1>2. doc \in Docs /\ doc \notin recorded
  BY <1>1 DEF TypeOK, ProcessTypeOK, PlaceOK, Accounted, WindowsMatchRecords
<1>3. /\ \A x \in Docs : Due(x) = IF x \in recorded \/ x = doc THEN 1 ELSE 0
      /\ \A x \in Docs : Due(x)' = IF x \in recorded THEN 1 ELSE 0
  BY <1>1 DEF Due, Between
<1>4. amount \in [Docs -> Int]
  BY DEF TypeOK, StoreTypeOK
<1>5. CASE Contested(doc)
  <2>1. InForce' = InForce
    BY <1>3, <1>5 DEF InForce, Uncontested
  <2>2. Sums' = Sums
    BY <1>1, <1>2, <1>4, <1>5 DEF Sums, Uncontested
  <2> QED BY <1>1, <2>1, <2>2, BookStep
<1>6. CASE ~ Contested(doc)
  <2>1. doc \in Uncontested /\ doc \in InForce
    BY <1>2, <1>3, <1>6 DEF InForce, Uncontested
  <2>2. InForce' = InForce \ {doc}
    BY <1>2, <1>3, <2>1 DEF InForce, Uncontested
  <2>3. Sums' = [Sums EXCEPT ![doc] = @ - 1]
    BY <1>1, <1>2, <1>4, <2>1 DEF Sums, Uncontested
  <2> QED BY <1>1, <2>1, <2>2, <2>3, BookStep
<1> QED BY <1>5, <1>6

\* A crash strikes out the posting under way, if there is one.
LEMMA CrashBook ==
    ASSUME TypeOK, Accounted, Crash
    PROVE  [Book!BookNext]_(Book!bookVars)
<1>1. /\ pc' = "down" /\ crashes < MaxCrashes /\ crashes' = crashes + 1
      /\ UNCHANGED <<amount, recorded>>
  BY DEF Crash, Stop, book, records
<1>2. UNCHANGED Sums
  BY <1>1 DEF Sums
<1>3. \A x \in Docs : Due(x)' = IF x \in recorded THEN 1 ELSE 0
  BY <1>1 DEF Due, Between
<1>4. CASE \E d \in Uncontested : d \notin recorded /\ Between(d)
  <2>1. PICK d \in Uncontested : d \notin recorded /\ Between(d)
    BY <1>4
  <2>2. \A x \in Docs : Due(x) = IF x \in recorded \/ x = d THEN 1 ELSE 0
    BY <2>1 DEF Due, Between
  <2>3. d \in InForce
    BY <2>1, <2>2 DEF InForce, Uncontested
  <2>4. InForce' = InForce \ {d}
    BY <1>3, <2>1, <2>2 DEF InForce, Uncontested
  <2> QED BY <1>1, <1>2, <2>3, <2>4, BookStep
<1>5. CASE ~ \E d \in Uncontested : d \notin recorded /\ Between(d)
  <2>1. InForce' = InForce
    BY <1>3, <1>5 DEF InForce, Uncontested, Due
  <2> QED BY <1>1, <1>2, <2>1, BookStep
<1> QED BY <1>4, <1>5

\* One step per action: each is a step of the book or none.
LEMMA BookNext == TypeOK /\ Accounted /\ [Next]_vars => [Book!BookNext]_(Book!bookVars)
<1> SUFFICES ASSUME TypeOK, Accounted, [Next]_vars
             PROVE  [Book!BookNext]_(Book!bookVars)
  OBVIOUS
<1> USE DEF env, records, book, writes, process
<1>1. CASE Sync
  BY <1>1, QuietBook, BookStep DEF Sync, ReadHeights, NextBlock, SyncDone
<1>2. CASE FetchBlock \/ NextTx \/ SkipEntry \/ BlockDone
  BY <1>2, QuietBook, BookStep DEF FetchBlock, NextTx, SkipEntry, BlockDone
<1>3. CASE PostEntry
  BY <1>3, PostBook
<1>4. CASE RecordEntry \/ UndoRecord
  BY <1>4, RecordBook, BookStep
<1>5. CASE Tick \/ ScanMatch \/ ScanMismatch \/ ScanThrows \/ ScanDone
  BY <1>5, QuietBook, BookStep DEF Tick, ScanMatch, ScanMismatch, ScanThrows, ScanDone, Stop
<1>6. CASE UndoTx \/ UndoDone
  BY <1>6, QuietBook, BookStep DEF UndoTx, UndoDone
<1>7. CASE UndoSum
  BY <1>7, UndoBook
<1>8. CASE Failures
  BY <1>8, QuietBook, BookStep
     DEF Failures, ReadHeightsFails, FetchBlockFails, NextTxFails, ScanFails, Fault, Abort, Stop
<1>9. CASE Deliver
  BY <1>9, StillBook, BookStep
     DEF Deliver, DeliverCursor, DeliverBlockIn, DeliverBlockOut, DeliverLockIn, DeliverLockOut
<1>10. CASE Mine \/ Reorganize \/ FetchRaw
  BY <1>10, StillBook, BookStep DEF Mine, Reorganize, FetchRaw
<1>11. CASE Crash
  BY <1>11, CrashBook
<1>12. CASE Restart
  BY <1>12, QuietBook, BookStep DEF Restart
<1>13. CASE UNCHANGED vars
  BY <1>13, StillBook, BookStep DEF vars
<1> QED BY <1>1, <1>2, <1>3, <1>4, <1>5, <1>6, <1>7, <1>8, <1>9, <1>10, <1>11, <1>12, <1>13
        DEF Next, Walk, Clear, Environment

\* Whatever the sync, the rollback, the chain and the failures do, readers of the
\* sums see a book in which every posting is entered and taken back in one step,
\* and which a crash cuts by one posting at most.
THEOREM LedgerImplementsBook == Spec => ImplementsBook
<1>1. Init => TypeOK /\ Accounted /\ Book!BookInit
  BY TypeInit, DriftInit, BookInit
<1>2. (TypeOK /\ Accounted) /\ [Next]_vars => (TypeOK /\ Accounted)'
  BY TypeNext, DriftNext
<1>3. (TypeOK /\ Accounted) /\ [Next]_vars => [Book!BookNext]_(Book!bookVars)
  BY BookNext
<1> QED BY <1>1, <1>2, <1>3, PTL DEF Spec, ImplementsBook, Book!BookSpec
=============================================================================
