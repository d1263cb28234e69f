-------------------------- MODULE AddressForkProofs --------------------------
(***************************************************************************)
(* What AddressLedger makes of one reorganisation, for every fork of every *)
(* set of chains, while nothing fails: the locked values match their       *)
(* documents throughout, nothing recorded is lost sight of, and at rest    *)
(* the sums and the histories are those of the chain.                      *)
(***************************************************************************)
EXTENDS AddressCursorProofs

\* Nothing failed so far, and the chain was reorganised at most once.
Quiet == crashes = 0 /\ faults = 0 /\ reorgs <= 1

-----------------------------------------------------------------------------
(* Sequences that name everything once.                                    *)

\* What splice leaves, by place.
LEMMA SplicedShape ==
    ASSUME NEW S, NEW s \in Seq(S), NEW x, InSeq(x, s)
    PROVE  \E i \in 1..Len(s) :
              /\ s[i] = x /\ Len(Spliced(s, x)) = Len(s) - 1
              /\ \A k \in 1..(i - 1) : Spliced(s, x)[k] = s[k]
              /\ \A k \in i..(Len(s) - 1) : Spliced(s, x)[k] = s[k + 1]
<1> DEFINE i == CHOOSE j \in 1..Len(s) : s[j] = x
           before == SubSeq(s, 1, i - 1)
           behind == SubSeq(s, i + 1, Len(s))
<1>1. i \in 1..Len(s) /\ s[i] = x /\ Len(s) \in Nat
  BY LenProperties DEF InSeq, Elements
<1>2. Spliced(s, x) = before \o behind
  BY DEF Spliced, InSeq, Elements
<1> HIDE DEF i
<1>3. /\ before \in Seq(S) /\ Len(before) = i - 1
      /\ \A k \in 1..(i - 1) : before[k] = s[k]
  <2>1. \A k \in 1..(i - 1) : s[k] \in S
    BY <1>1, ElementOfSeq
  <2> QED BY <1>1, <2>1, SubSeqProperties
<1>4. /\ behind \in Seq(S) /\ Len(behind) = Len(s) - i
      /\ \A k \in 1..(Len(s) - i) : behind[k] = s[i + k]
  BY <1>1, SubSeqProperties
<1> HIDE DEF before, behind
<1>5. /\ Len(before \o behind) = Len(before) + Len(behind)
      /\ \A k \in 1..(Len(before) + Len(behind)) :
            (before \o behind)[k] = IF k <= Len(before) THEN before[k] ELSE behind[k - Len(before)]
  BY <1>3, <1>4, ConcatProperties, Zenon
<1>6. Len(before \o behind) = Len(s) - 1
  BY <1>1, <1>3, <1>4, <1>5
<1>7. ASSUME NEW k \in 1..(i - 1) PROVE (before \o behind)[k] = s[k]
  <2>1. k \in 1..(Len(before) + Len(behind)) /\ k <= Len(before)
    BY <1>1, <1>3, <1>4
  <2> QED BY <1>3, <1>5, <2>1
<1>8. ASSUME NEW k \in i..(Len(s) - 1) PROVE (before \o behind)[k] = s[k + 1]
  <2>1. /\ k \in 1..(Len(before) + Len(behind)) /\ ~ (k <= Len(before))
        /\ k - Len(before) \in 1..(Len(s) - i) /\ i + (k - Len(before)) = k + 1
    BY <1>1, <1>3, <1>4
  <2> QED BY <1>4, <1>5, <2>1
<1> QED BY <1>1, <1>2, <1>6, <1>7, <1>8

\* Splice takes the element out, for it was there once.
LEMMA SplicedOnce ==
    ASSUME NEW S, NEW s \in Seq(S), NoRepeat(s), NEW x
    PROVE  NoRepeat(Spliced(s, x)) /\ Elements(Spliced(s, x)) = Elements(s) \ {x}
<1>1. CASE ~ InSeq(x, s)
  <2>1. Spliced(s, x) = s
    BY <1>1 DEF Spliced, InSeq, Elements
  <2> QED BY <1>1, <2>1 DEF InSeq
<1>2. CASE InSeq(x, s)
  <2> DEFINE u == Spliced(s, x)
  <2>1. PICK i \in 1..Len(s) : /\ s[i] = x /\ Len(u) = Len(s) - 1
                               /\ \A k \in 1..(i - 1) : u[k] = s[k]
                               /\ \A k \in i..(Len(s) - 1) : u[k] = s[k + 1]
    BY <1>2, SplicedShape
  <2>2. Len(s) \in Nat
    BY LenProperties
  <2> HIDE DEF u
  <2> DEFINE f(k) == IF k < i THEN k ELSE k + 1
  <2>3. ASSUME NEW k \in 1..Len(u) PROVE f(k) \in 1..Len(s) /\ f(k) # i /\ u[k] = s[f(k)]
    <3>1. CASE k < i
      <4>1. k \in 1..(i - 1) /\ k \in 1..Len(s)
        BY <2>1, <2>2, <3>1
      <4> QED BY <2>1, <3>1, <4>1
    <3>2. CASE ~ k < i
      <4>1. k \in i..(Len(s) - 1) /\ k + 1 \in 1..Len(s) /\ k + 1 # i
        BY <2>1, <2>2, <3>2
      <4> QED BY <2>1, <3>2, <4>1
    <3> QED BY <3>1, <3>2
  <2>4. ASSUME NEW j \in 1..Len(u), NEW k \in 1..Len(u), j < k PROVE f(j) < f(k)
    BY <2>2, <2>4
  <2>5. ASSUME NEW m \in 1..Len(s), m # i PROVE \E k \in 1..Len(u) : f(k) = m
    <3>1. CASE m < i
      <4>1. m \in 1..Len(u) /\ f(m) = m
        BY <2>1, <2>2, <3>1
      <4> QED BY <4>1
    <3>2. CASE ~ m < i
      <4>1. m - 1 \in 1..Len(u) /\ f(m - 1) = m
        BY <2>1, <2>2, <2>5, <3>2
      <4> QED BY <4>1
    <3> QED BY <3>1, <3>2
  <2> HIDE DEF f
  <2>6. ASSUME NEW j \in 1..Len(u), NEW k \in 1..Len(u), j < k PROVE u[j] # u[k]
    BY <2>3, <2>4, <2>6 DEF NoRepeat
  <2>7. ASSUME NEW m \in 1..Len(s), m # i PROVE s[m] # x
    BY <2>1, <2>2, <2>7 DEF NoRepeat
  <2>8. ASSUME NEW k \in 1..Len(u) PROVE u[k] \in Elements(s) /\ u[k] # x
    BY <2>3, <2>7 DEF Elements
  <2>9. ASSUME NEW m \in 1..Len(s), s[m] # x PROVE s[m] \in Elements(u)
    <3>1. PICK k \in 1..Len(u) : f(k) = m
      BY <2>1, <2>5, <2>9
    <3> QED BY <2>3, <3>1 DEF Elements
  <2>10. NoRepeat(u)
    BY <2>6 DEF NoRepeat
  <2>11. Elements(u) = Elements(s) \ {x}
    BY <2>8, <2>9 DEF Elements
  <2> QED BY <2>10, <2>11 DEF u
<1> QED BY <1>1, <1>2

\* The head of such a sequence is not in its tail,
LEMMA TailOnce ==
    ASSUME NEW S, NEW s \in Seq(S), s # <<>>, NoRepeat(s)
    PROVE  NoRepeat(Tail(s)) /\ Elements(Tail(s)) = Elements(s) \ {Head(s)}
<1>1. /\ Len(s) \in Nat /\ Len(Tail(s)) = Len(s) - 1 /\ Len(s) >= 1
      /\ \A i \in 1..(Len(s) - 1) : Tail(s)[i] = s[i + 1]
      /\ Head(s) = s[1]
  <2>1. Len(s) \in Nat /\ Len(s) # 0
    BY EmptySeq, LenProperties
  <2> QED BY <2>1, HeadTailProperties
<1>2. ASSUME NEW i \in 1..Len(Tail(s)), NEW j \in 1..Len(Tail(s)), i < j
      PROVE  Tail(s)[i] # Tail(s)[j]
  <2>1. i + 1 \in 1..Len(s) /\ j + 1 \in 1..Len(s) /\ i + 1 < j + 1
    BY <1>1, <1>2
  <2>2. s[i + 1] # s[j + 1]
    BY <2>1 DEF NoRepeat
  <2> QED BY <1>1, <2>2
<1>3. ASSUME NEW i \in 1..Len(Tail(s)) PROVE Tail(s)[i] # Head(s)
  <2>1. i + 1 \in 1..Len(s) /\ 1 \in 1..Len(s) /\ 1 < i + 1
    BY <1>1
  <2>2. s[1] # s[i + 1]
    BY <2>1 DEF NoRepeat
  <2> QED BY <1>1, <2>2
<1>4. Head(s) \notin Elements(Tail(s))
  BY <1>3 DEF Elements
<1>5. Elements(s) = {Head(s)} \union Elements(Tail(s))
  BY HeadAndTail
<1> QED BY <1>2, <1>4, <1>5 DEF NoRepeat

\* and what is appended was not in it.
LEMMA AppendOnce ==
    ASSUME NEW S, NEW s \in Seq(S), NoRepeat(s), NEW x \in S, ~ InSeq(x, s)
    PROVE  NoRepeat(Append(s, x)) /\ Elements(Append(s, x)) = Elements(s) \union {x}
<1> DEFINE u == Append(s, x)
<1>1. /\ Len(u) = Len(s) + 1 /\ Len(s) \in Nat
      /\ \A i \in 1..Len(s) : u[i] = s[i]
      /\ u[Len(s) + 1] = x
  BY AppendProperties, LenProperties
<1> HIDE DEF u
<1>2. ASSUME NEW i \in 1..Len(u), NEW j \in 1..Len(u), i < j PROVE u[i] # u[j]
  <2>1. i \in 1..Len(s) /\ (j \in 1..Len(s) \/ j = Len(s) + 1)
    BY <1>1, <1>2
  <2>2. s[i] # x
    BY <2>1 DEF InSeq, Elements
  <2> QED BY <1>1, <1>2, <2>1, <2>2 DEF NoRepeat
<1>3. Elements(u) \subseteq Elements(s) \union {x}
  BY ElementsOfAppend DEF u
<1>4. ASSUME NEW i \in 1..Len(s) PROVE s[i] \in Elements(u)
  <2>1. i \in 1..Len(u) /\ u[i] = s[i]
    BY <1>1
  <2> QED BY <2>1 DEF Elements
<1>5. x \in Elements(u)
  <2>1. Len(s) + 1 \in 1..Len(u)
    BY <1>1
  <2> QED BY <1>1, <2>1 DEF Elements
<1>6. Elements(u) = Elements(s) \union {x}
  BY <1>3, <1>4, <1>5 DEF Elements
<1> QED BY <1>2, <1>6 DEF u, NoRepeat

-----------------------------------------------------------------------------
(* The two branches.                                                       *)

\* The blocks the synchronizer has noted, is about to note, or compares.
Noted == Elements(blockDocs) \union flight.blockIn \union Elements(stale)

Undoing == pc \in {"undo", "undoSum"}
Replacing == Undoing \/ pc \in {"fetch", "entry", "record"}
Clearing == mode = "clear" /\ Replacing

\* The blocks of chain c that the chain has no more.
Gone(c) == Elements(c) \ Elements(chain)

\* What is noted is of the chain, or of c, which was left for it; what is cleared is of c.
LeftFor(c) ==
    /\ Len(c) <= Len(chain) /\ (reorgs = 0 => c = chain)
    /\ Noted \subseteq Elements(c) \union Elements(chain)
    /\ flight.blockOut \subseteq Gone(c)
    /\ Clearing => Head(stale) \in Gone(c) /\ db = HeightOf[Head(stale)]

\* The walk stays within the chain, so that no error path is taken.
Undisturbed == info /\ goal <= Len(chain) /\ (Replacing => db <= Len(chain))

Idles == Restart \/ FetchRaw \/ UNCHANGED vars

\* What has not happened yet had not happened before.
LEMMA QuietBefore ==
    ASSUME TypeOK, [Next]_vars, Quiet'
    PROVE  Quiet
<1> USE DEF env
<1>1. reorgs \in Nat /\ crashes \in Nat /\ faults \in Nat
  BY DEF TypeOK, StoreTypeOK
<1> DEFINE Later == /\ reorgs' \in {reorgs, reorgs + 1} /\ crashes' \in {crashes, crashes + 1}
                     /\ faults' \in {faults, faults + 1}
<1>2. Sync => Later
  BY DEF Sync, ReadHeights, NextBlock, SyncDone
<1>3. Walk => Later
  BY DEF Walk, FetchBlock, NextTx, SkipEntry, PostEntry, RecordEntry, BlockDone
<1>4. Clear => Later
  BY DEF Clear, Tick, ScanMatch, ScanMismatch, ScanThrows, ScanDone, UndoTx, UndoRecord, UndoSum,
         UndoDone
<1>5. Failures => Later
  BY DEF Failures, ReadHeightsFails, FetchBlockFails, NextTxFails, ScanFails, Fault
<1>6. Deliver => Later
  BY DEF Deliver, DeliverCursor, DeliverBlockIn, DeliverBlockOut, DeliverLockIn, DeliverLockOut
<1>7. Environment => Later
  BY DEF Environment, Mine, Reorganize, FetchRaw, Crash, Restart
<1>8. UNCHANGED vars => Later
  BY DEF vars
<1>9. Later
  BY <1>2, <1>3, <1>4, <1>5, <1>6, <1>7, <1>8 DEF Next
<1> QED BY <1>1, <1>9 DEF Quiet

\* While nothing fails, the process neither stops nor gives up.
LEMMA CalmSteps ==
    ASSUME TypeOK, NEW c \in Chains, LeftFor(c), Undisturbed, [Next]_vars, Quiet'
    PROVE  /\ Quiet
           /\ ~ Failures /\ ~ Crash /\ ~ ScanThrows
           /\ \/ Mine
              \/ Reorganize
              \/ /\ UNCHANGED <<chain, reorgs, crashes, faults>>
                 /\ \/ Sync \/ Walk \/ Deliver \/ Idles
                    \/ Clear /\ ~ ScanThrows
<1> USE DEF env, records, book, writes, process
<1>1. /\ reorgs \in Nat /\ crashes \in Nat /\ faults \in Nat /\ chain \in Chains
      /\ stale \in Seq(Blocks)
  BY DEF TypeOK, StoreTypeOK, ProcessTypeOK
<1>2. stale # <<>> => ~ HeightOf[Head(stale)] > Len(chain)
  <2> SUFFICES ASSUME stale # <<>> PROVE ~ HeightOf[Head(stale)] > Len(chain)
    OBVIOUS
  <2>1. Head(stale) \in Elements(c) \union Elements(chain)
    BY <1>1, HeadAndTail DEF LeftFor, Noted
  <2>2. Len(c) \in Nat /\ Len(chain) \in Nat /\ Len(c) <= Len(chain)
    BY <1>1, ChainAssumption, LenProperties DEF LeftFor
  <2>3. HeightOf[Head(stale)] \in 1..Len(c) \/ HeightOf[Head(stale)] \in 1..Len(chain)
    BY <1>1, <2>1, AtItsHeight
  <2> QED BY <2>2, <2>3
<1>0. ~ ScanThrows
  BY DEF ScanThrows, Undisturbed
<1>4. ~ Failures
  <2>1. ~ Fault
    BY <1>1 DEF Fault, Quiet
  <2>2. ~ ReadHeightsFails /\ ~ NextTxFails
    BY <2>1 DEF ReadHeightsFails, NextTxFails
  <2>3. ~ ScanFails
    BY <1>2, <2>1 DEF ScanFails
  <2>4. ~ FetchBlockFails
    <3> SUFFICES ASSUME FetchBlockFails PROVE FALSE
      OBVIOUS
    <3>1. pc = "fetch" /\ db > Len(chain)
      BY <2>1 DEF FetchBlockFails
    <3>2. db <= Len(chain) /\ Len(chain) \in Nat /\ db \in Nat
      BY <1>1, <3>1, ChainAssumption, LenProperties DEF Undisturbed, Replacing, TypeOK, ProcessTypeOK
    <3> QED BY <3>1, <3>2
  <2> QED BY <2>2, <2>3, <2>4 DEF Failures
<1>9. ~ Crash
  BY <1>1 DEF Crash, Quiet
<1> SUFFICES /\ Quiet
             /\ \/ Mine
                \/ Reorganize
                \/ /\ UNCHANGED <<chain, reorgs, crashes, faults>>
                   /\ \/ Sync \/ Walk \/ Deliver \/ Idles
                      \/ Clear /\ ~ ScanThrows
  BY <1>0, <1>4, <1>9
<1>3. CASE Sync \/ Walk \/ Clear
  <2>2. UNCHANGED <<chain, reorgs, crashes, faults>>
    <3>1. Sync => UNCHANGED env
      BY DEF Sync, ReadHeights, NextBlock, SyncDone
    <3>2. Walk => UNCHANGED env
      BY DEF Walk, FetchBlock, NextTx, SkipEntry, PostEntry, RecordEntry, BlockDone
    <3>3. Clear => UNCHANGED env
      BY DEF Clear, Tick, ScanMatch, ScanMismatch, ScanThrows, ScanDone, UndoTx, UndoRecord,
             UndoSum, UndoDone
    <3> QED BY <1>3, <3>1, <3>2, <3>3
  <2> QED BY <1>0, <1>3, <2>2 DEF Quiet
<1>5. CASE Deliver
  BY <1>5 DEF Deliver, DeliverCursor, DeliverBlockIn, DeliverBlockOut, DeliverLockIn, DeliverLockOut,
              Quiet
<1>6. CASE Mine
  BY <1>6 DEF Mine, Quiet
<1>7. CASE Reorganize
  BY <1>1, <1>7 DEF Reorganize, Quiet
<1>8. CASE Idles
  BY <1>8 DEF Idles, Restart, FetchRaw, vars, Quiet
<1> QED BY <1>3, <1>4, <1>5, <1>6, <1>7, <1>8, <1>9 DEF Next, Environment, Idles

\* An insert adds the block, and may drop the oldest.
LEMMA ElementsOfInserted ==
    ASSUME blockDocs \in Seq(Blocks), NEW b \in Blocks, blockDocs' \in Inserted(b)
    PROVE  Elements(blockDocs') \subseteq Elements(blockDocs) \union {b}
<1>1. CASE InSeq(b, blockDocs)
  BY <1>1 DEF Inserted
<1>2. CASE blockDocs' = Append(blockDocs, b)
  BY <1>2, ElementsOfAppend
<1>3. CASE blockDocs # <<>> /\ blockDocs' = Append(Tail(blockDocs), b)
  <2>1. Tail(blockDocs) \in Seq(Blocks)
    BY <1>3, HeadTailProperties
  <2>2. Elements(Tail(blockDocs)) \subseteq Elements(blockDocs)
    BY <1>3, HeadAndTail
  <2> QED BY <1>3, <2>1, <2>2, ElementsOfAppend
<1> QED BY <1>1, <1>2, <1>3 DEF Inserted

\* What the chain has lost it does not get back by growing.
LEMMA StaysGone ==
    ASSUME NEW c \in Chains, chain \in Chains, chain' \in Chains, IsPrefixOf(chain, chain'),
           Len(c) <= Len(chain)
    PROVE  Gone(c)' = Gone(c) /\ Elements(chain) \subseteq Elements(chain') /\ Len(c) <= Len(chain')
<1>1. Elements(chain) \subseteq Elements(chain') /\ Len(chain) <= Len(chain')
      /\ \A i \in 1..Len(chain) : chain'[i] = chain[i]
  BY PrefixElements
<1>2. Len(c) \in Nat /\ Len(chain) \in Nat /\ Len(chain') \in Nat
  BY ChainAssumption, LenProperties
<1>3. ASSUME NEW b \in Elements(c), b \in Elements(chain') PROVE b \in Elements(chain)
  <2>1. HeightOf[b] \in 1..Len(c) /\ chain'[HeightOf[b]] = b
    BY <1>3, AtItsHeight
  <2>2. HeightOf[b] \in 1..Len(chain)
    BY <1>2, <2>1
  <2>3. chain[HeightOf[b]] = b
    BY <1>1, <2>1, <2>2
  <2> QED BY <2>2, <2>3 DEF Elements
<1> QED BY <1>1, <1>2, <1>3 DEF Gone

\* What a step of the process, or a write that lands, does to what is noted.
LEMMA NotedSteps ==
    ASSUME TypeOK, Sync \/ Walk \/ Deliver \/ Idles \/ (Clear /\ ~ ScanThrows)
    PROVE  /\ \/ Noted' \subseteq Noted
              \/ FetchBlock /\ Noted' = Noted \union {chain[db]}
           /\ \/ flight'.blockOut \subseteq flight.blockOut
              \/ /\ BlockDone /\ mode = "clear"
                 /\ flight'.blockOut = flight.blockOut \union {Head(stale)}
           /\ \/ Clearing /\ UNCHANGED <<db, stale>>
              \/ ScanMismatch
              \/ ~ Clearing'
<1> USE DEF env, records, book, writes, process
<1>0. /\ blockDocs \in Seq(Blocks) /\ stale \in Seq(Blocks) /\ mode \in {"sync", "clear"}
      /\ flight \in [blockIn: SUBSET Blocks, blockOut: SUBSET Blocks,
                     lockIn: [Docs -> Int], lockOut: [Docs -> Int]]
      /\ (pc = "loop" => mode = "sync")
      /\ mode = "clear" /\ pc \in {"fetch", "entry", "record", "undo", "undoSum"} => stale # <<>>
  BY DEF TypeOK, StoreTypeOK, ProcessTypeOK, PlaceOK
<1>1. CASE Sync
  <2>1. UNCHANGED <<blockDocs, flight, stale>>
    BY <1>1 DEF Sync, ReadHeights, NextBlock, SyncDone
  <2>2. ~ Clearing'
    BY <1>0, <1>1 DEF Sync, ReadHeights, NextBlock, SyncDone, Clearing, Replacing, Undoing
  <2> QED BY <2>1, <2>2 DEF Noted
<1>2. CASE FetchBlock
  <2>1. /\ UNCHANGED <<blockDocs, stale, db, mode>> /\ pc = "fetch" /\ pc' = "entry"
        /\ flight'.blockIn = flight.blockIn \union {chain[db]}
        /\ flight'.blockOut = flight.blockOut
    BY <1>0, <1>2 DEF FetchBlock
  <2> QED BY <1>2, <2>1 DEF Noted, Clearing, Replacing, Undoing
<1>3. CASE NextTx \/ SkipEntry \/ RecordEntry
  BY <1>3 DEF NextTx, SkipEntry, RecordEntry, Noted, Clearing, Replacing, Undoing
<1>4. CASE PostEntry
  <2>1. /\ UNCHANGED <<blockDocs, stale, db, mode>> /\ pc = "entry" /\ pc' = "record"
        /\ flight'.blockIn = flight.blockIn /\ flight'.blockOut = flight.blockOut
    BY <1>0, <1>4 DEF PostEntry, Post
  <2> QED BY <2>1 DEF Noted, Clearing, Replacing, Undoing
<1>5. CASE BlockDone
  <2>1. ~ Clearing'
    BY <1>5 DEF BlockDone, Clearing, Replacing, Undoing
  <2>2. CASE mode = "sync"
    BY <1>5, <2>1, <2>2 DEF BlockDone, Noted
  <2>3. CASE mode = "clear"
    <3>1. /\ UNCHANGED blockDocs /\ stale # <<>> /\ stale' = Tail(stale)
          /\ flight'.blockIn = flight.blockIn
          /\ flight'.blockOut = flight.blockOut \union {Head(stale)}
      BY <1>0, <1>5, <2>3 DEF BlockDone, StaleRemoved
    <3>2. Elements(stale') \subseteq Elements(stale)
      BY <1>0, <3>1, HeadAndTail
    <3> QED BY <1>5, <2>1, <2>3, <3>1, <3>2 DEF Noted
  <2> QED BY <1>0, <2>2, <2>3
<1>6. CASE Tick
  BY <1>6 DEF Tick, Noted, Clearing, Replacing, Undoing
<1>7. CASE ScanMatch
  <2>1. /\ UNCHANGED <<blockDocs, flight, pc>> /\ stale' = Tail(stale) /\ stale # <<>> /\ pc = "scan"
    BY <1>7 DEF ScanMatch
  <2>2. Elements(stale') \subseteq Elements(stale)
    BY <1>0, <2>1, HeadAndTail
  <2> QED BY <2>1, <2>2 DEF Noted, Clearing, Replacing, Undoing
<1>8. CASE ScanMismatch
  BY <1>8 DEF ScanMismatch, Noted
<1>9. CASE ScanDone
  BY <1>9 DEF ScanDone, Noted, Clearing, Replacing, Undoing
<1>10. CASE UndoTx \/ UndoSum \/ UndoDone
  BY <1>10 DEF UndoTx, UndoSum, UndoDone, Noted, Clearing, Replacing, Undoing
<1>11. CASE UndoRecord
  <2>1. /\ UNCHANGED <<blockDocs, stale, db, mode>> /\ pc = "undo" /\ pc' = "undoSum"
        /\ flight'.blockIn = flight.blockIn /\ flight'.blockOut = flight.blockOut
    BY <1>0, <1>11 DEF UndoRecord
  <2> QED BY <2>1 DEF Noted, Clearing, Replacing, Undoing
<1>12. CASE Deliver
  <2>0. UNCHANGED <<stale, db, mode, pc>>
    BY <1>12 DEF Deliver, DeliverCursor, DeliverBlockIn, DeliverBlockOut, DeliverLockIn, DeliverLockOut
  <2>1. (Clearing /\ UNCHANGED <<db, stale>>) \/ ~ Clearing'
    BY <2>0 DEF Clearing, Replacing, Undoing
  <2>2. CASE DeliverCursor
    BY <2>1, <2>2 DEF DeliverCursor, Noted
  <2>3. CASE DeliverBlockIn
    <3>1. PICK b \in flight.blockIn : blockDocs' \in Inserted(b)
                                      /\ flight' = [flight EXCEPT !.blockIn = @ \ {b}]
      BY <2>3 DEF DeliverBlockIn
    <3>2. flight'.blockIn \subseteq flight.blockIn /\ flight'.blockOut = flight.blockOut
      BY <1>0, <3>1
    <3>3. Elements(blockDocs') \subseteq Elements(blockDocs) \union {b}
      BY <1>0, <3>1, ElementsOfInserted
    <3> QED BY <2>0, <2>1, <3>1, <3>2, <3>3 DEF Noted
  <2>4. CASE DeliverBlockOut
    <3>1. PICK b \in flight.blockOut : blockDocs' = Spliced(blockDocs, b)
                                       /\ flight' = [flight EXCEPT !.blockOut = @ \ {b}]
      BY <2>4 DEF DeliverBlockOut
    <3>2. flight'.blockIn = flight.blockIn /\ flight'.blockOut \subseteq flight.blockOut
      BY <1>0, <3>1
    <3>3. Elements(blockDocs') \subseteq Elements(blockDocs)
      BY <1>0, <3>1, ElementsOfSpliced
    <3> QED BY <2>0, <2>1, <3>2, <3>3 DEF Noted
  <2>5. CASE DeliverLockIn \/ DeliverLockOut
    <3>1. /\ UNCHANGED blockDocs
          /\ flight'.blockIn = flight.blockIn /\ flight'.blockOut = flight.blockOut
      BY <1>0, <2>5 DEF DeliverLockIn, DeliverLockOut
    <3> QED BY <2>0, <2>1, <3>1 DEF Noted
  <2> QED BY <1>12, <2>2, <2>3, <2>4, <2>5 DEF Deliver
<1>13. CASE Idles
  BY <1>13 DEF Idles, Restart, FetchRaw, vars, Noted, Clearing, Replacing, Undoing
<1> QED BY <1>1, <1>2, <1>3, <1>4, <1>5, <1>6, <1>7, <1>8, <1>9, <1>10, <1>11, <1>12, <1>13
        DEF Walk, Clear

\* The walk stays within the chain: a height is looked up in the chain before anything is
\* done at it, and the chain never gets shorter.
LEMMA UndisturbedNext ==
    ASSUME TypeOK, NEW c \in Chains, LeftFor(c), Undisturbed, [Next]_vars, Quiet'
    PROVE  Undisturbed'
<1> USE DEF env, records, book, writes, process
<1>0. /\ chain \in Chains /\ Len(chain) \in Nat /\ db \in Nat /\ goal \in Nat
      /\ chain' \in Chains /\ Len(chain') \in Nat
  <2>1. TypeOK'
    BY TypeNext
  <2> QED BY <2>1, ChainAssumption, LenProperties DEF TypeOK, StoreTypeOK, ProcessTypeOK
<1>1. CASE Mine \/ Reorganize
  <2>1. Len(chain) <= Len(chain') /\ UNCHANGED <<info, goal, pc, db>>
    BY <1>0, <1>1 DEF Mine, Reorganize, IsPrefixOf
  <2> QED BY <1>0, <2>1 DEF Undisturbed, Replacing, Undoing
<1>2. CASE UNCHANGED chain /\ (Deliver \/ Idles)
  <2>1. UNCHANGED <<info, goal, db>> /\ (pc' = pc \/ pc' = "begin")
    BY <1>2 DEF Deliver, DeliverCursor, DeliverBlockIn, DeliverBlockOut, DeliverLockIn, DeliverLockOut,
                Idles, Restart, FetchRaw, vars
  <2> QED BY <1>2, <2>1 DEF Undisturbed, Replacing, Undoing
<1>3. CASE Sync
  <2>1. CASE ReadHeights \/ SyncDone
    <3>1. /\ info' /\ chain' = chain /\ pc' \in {"loop", "idle"}
          /\ goal' = goal \/ goal' = Len(chain)
      BY <2>1 DEF ReadHeights, SyncDone, Undisturbed
    <3>2. goal' <= Len(chain') /\ ~ Replacing'
      BY <1>0, <3>1 DEF Undisturbed, Replacing, Undoing
    <3> QED BY <3>1, <3>2 DEF Undisturbed
  <2>2. CASE NextBlock
    <3>1. goal > db /\ db' = db + 1 /\ UNCHANGED <<info, goal, chain>>
      BY <2>2 DEF NextBlock
    <3>2. db' <= Len(chain)
      BY <1>0, <3>1 DEF Undisturbed
    <3> QED BY <3>1, <3>2 DEF Undisturbed
  <2> QED BY <1>3, <2>1, <2>2 DEF Sync
<1>4. CASE Walk
  <2>1. UNCHANGED <<info, goal, db, chain>> /\ (pc \in {"fetch", "entry", "record"})
    BY <1>4 DEF Walk, FetchBlock, NextTx, SkipEntry, PostEntry, RecordEntry, BlockDone
  <2> QED BY <2>1 DEF Undisturbed, Replacing
<1>5. CASE ScanMismatch
  BY <1>5 DEF ScanMismatch, Mismatch, Undisturbed, Replacing, Undoing
<1>6. CASE Tick \/ ScanMatch \/ ScanDone
  BY <1>6 DEF Tick, ScanMatch, ScanDone, Undisturbed, Replacing, Undoing
<1>7. CASE UndoTx \/ UndoRecord \/ UndoSum \/ UndoDone
  <2>1. UNCHANGED <<info, goal, db, chain>> /\ (pc \in {"undo", "undoSum"})
    BY <1>7 DEF UndoTx, UndoRecord, UndoSum, UndoDone
  <2> QED BY <2>1 DEF Undisturbed, Replacing, Undoing
<1> QED BY <1>1, <1>2, <1>3, <1>4, <1>5, <1>6, <1>7, CalmSteps DEF Clear

\* A block that differs from that of the chain at its height is of the branch left.
LEMMA MismatchIsGone ==
    ASSUME TypeOK, NEW c \in Chains, LeftFor(c), ScanMismatch
    PROVE  Head(stale) \in Gone(c)
<1>1. stale # <<>> /\ stale \in Seq(Blocks) /\ chain \in Chains /\ Differs(Head(stale))
  BY DEF ScanMismatch, Mismatch, TypeOK, StoreTypeOK, ProcessTypeOK
<1>2. Head(stale) \in Elements(c) \union Elements(chain)
  BY <1>1, HeadAndTail DEF LeftFor, Noted
<1>3. Head(stale) \notin Elements(chain)
  BY <1>1, AtItsHeight DEF Differs
<1> QED BY <1>2, <1>3 DEF Gone

\* One chain at most was left, and it is the same one from then on.
LEMMA ForkNext ==
    ASSUME TypeOK, NEW c \in Chains, LeftFor(c), Undisturbed, [Next]_vars, Quiet'
    PROVE  \E d \in Chains : LeftFor(d)' /\ Gone(c) \subseteq Gone(d)'
<1>0. chain \in Chains /\ chain' \in Chains /\ Len(chain) \in Nat /\ Len(chain') \in Nat
  <2>1. TypeOK'
    BY TypeNext
  <2> QED BY <2>1, ChainAssumption, LenProperties DEF TypeOK, StoreTypeOK
<1>1. CASE Mine
  <2>1. IsPrefixOf(chain, chain') /\ UNCHANGED <<reorgs, Noted, flight, Clearing, stale, db>>
    BY <1>1 DEF Mine, records, book, writes, process, Noted, Clearing, Replacing, Undoing
  <2>2. Gone(c)' = Gone(c) /\ Elements(chain) \subseteq Elements(chain') /\ Len(c) <= Len(chain')
    BY <1>0, <2>1, StaysGone DEF LeftFor
  <2>3. CASE reorgs = 0
    <3>0. PICK d : d = chain'
      OBVIOUS
    <3>1. c = chain /\ Gone(c) = {} /\ Gone(d)' = {}
      BY <2>3, <3>0 DEF LeftFor, Gone
    <3>2. LeftFor(d)'
      BY <1>0, <2>1, <2>2, <3>0, <3>1 DEF LeftFor
    <3> QED BY <1>0, <3>0, <3>1, <3>2
  <2>4. CASE reorgs # 0
    <3>1. LeftFor(c)'
      BY <2>1, <2>2, <2>4 DEF LeftFor
    <3> QED BY <2>2, <3>1
  <2> QED BY <2>3, <2>4
<1>2. CASE Reorganize
  <2>1. /\ reorgs' = reorgs + 1 /\ Len(chain') >= Len(chain)
        /\ UNCHANGED <<Noted, flight, Clearing, stale, db>>
    BY <1>2 DEF Reorganize, records, book, writes, process, Noted, Clearing, Replacing, Undoing
  <2>2. reorgs = 0 /\ reorgs' # 0
    BY <2>1 DEF Quiet, TypeOK, StoreTypeOK
  <2>3. c = chain /\ Gone(c) = {}
    BY <2>2 DEF LeftFor, Gone
  <2>4. LeftFor(c)'
    BY <1>0, <2>1, <2>2, <2>3 DEF LeftFor
  <2> QED BY <2>3, <2>4
<1>3. CASE /\ UNCHANGED <<chain, reorgs>>
           /\ Sync \/ Walk \/ Deliver \/ Idles \/ (Clear /\ ~ ScanThrows)
  <2>1. Gone(c)' = Gone(c)
    BY <1>3 DEF Gone
  <2>2. Noted' \subseteq Elements(c) \union Elements(chain)
    <3>1. CASE FetchBlock
      <4>1. chain[db] \in Elements(chain)
        BY <3>1 DEF FetchBlock, Elements
      <4> QED BY <1>3, <4>1, NotedSteps DEF LeftFor
    <3>2. CASE ~ FetchBlock
      BY <1>3, <3>2, NotedSteps DEF LeftFor
    <3> QED BY <3>1, <3>2
  <2>3. flight'.blockOut \subseteq Gone(c)
    <3>1. CASE BlockDone /\ mode = "clear"
      <4>1. Clearing
        BY <3>1 DEF BlockDone, Clearing, Replacing
      <4> QED BY <1>3, <4>1, NotedSteps DEF LeftFor
    <3>2. CASE ~ (BlockDone /\ mode = "clear")
      BY <1>3, <3>2, NotedSteps DEF LeftFor
    <3> QED BY <3>1, <3>2
  <2>4. Clearing' => Head(stale') \in Gone(c) /\ db' = HeightOf[Head(stale')]
    <3>1. CASE ScanMismatch
      <4>1. UNCHANGED stale /\ db' = HeightOf[Head(stale)]
        BY <3>1 DEF ScanMismatch
      <4> QED BY <3>1, <4>1, MismatchIsGone
    <3>2. CASE ~ ScanMismatch
      BY <1>3, <3>2, NotedSteps DEF LeftFor
    <3> QED BY <3>1, <3>2
  <2> QED BY <1>3, <2>1, <2>2, <2>3, <2>4 DEF LeftFor
<1> QED BY <1>1, <1>2, <1>3, CalmSteps

\* An insert looks for the block first.
LEMMA InsertedOnce ==
    ASSUME blockDocs \in Seq(Blocks), NoRepeat(blockDocs), NEW b \in Blocks, blockDocs' \in Inserted(b)
    PROVE  NoRepeat(blockDocs')
<1>1. CASE blockDocs' = blockDocs
  BY <1>1
<1>2. CASE ~ InSeq(b, blockDocs) /\ blockDocs' = Append(blockDocs, b)
  BY <1>2, AppendOnce
<1>3. CASE /\ ~ InSeq(b, blockDocs) /\ blockDocs # <<>>
           /\ blockDocs' = Append(Tail(blockDocs), b)
  <2>1. Tail(blockDocs) \in Seq(Blocks)
    BY <1>3, HeadTailProperties
  <2>2. NoRepeat(Tail(blockDocs)) /\ ~ InSeq(b, Tail(blockDocs))
    BY <1>3, TailOnce DEF InSeq
  <2> QED BY <1>3, <2>1, <2>2, AppendOnce
<1> QED BY <1>1, <1>2, <1>3 DEF Inserted

\* No block is noted twice.
LEMMA NotedOnceNext ==
    ASSUME TypeOK, NoRepeat(blockDocs), NoRepeat(stale), [Next]_vars
    PROVE  NoRepeat(blockDocs') /\ NoRepeat(stale')
<1> USE DEF env, records, book, writes, process
<1>0. /\ blockDocs \in Seq(Blocks) /\ stale \in Seq(Blocks) /\ flight.blockIn \subseteq Blocks
      /\ mode \in {"sync", "clear"}
      /\ mode = "clear" /\ pc = "entry" => stale # <<>>
  BY DEF TypeOK, StoreTypeOK, ProcessTypeOK, PlaceOK
<1>1. NoRepeat(<<>>)
  <2>1. \A i \in 1..Len(<<>>) : FALSE
    BY EmptySeq
  <2> QED BY <2>1 DEF NoRepeat
<1> DEFINE Same == UNCHANGED blockDocs /\ stale' \in {stale, blockDocs, <<>>}
           Shorter == UNCHANGED blockDocs /\ stale # <<>> /\ stale' = Tail(stale)
<1>2. Same => NoRepeat(blockDocs') /\ NoRepeat(stale')
  BY <1>1
<1>3. Shorter => NoRepeat(blockDocs') /\ NoRepeat(stale')
  BY <1>0, TailOnce
<1>4. Sync => Same
  BY DEF Sync, ReadHeights, NextBlock, SyncDone, IssueCursor
<1>5. Walk => Same \/ Shorter
  <2>1. FetchBlock \/ NextTx \/ SkipEntry \/ RecordEntry => Same
    BY DEF FetchBlock, NextTx, SkipEntry, RecordEntry
  <2>2. PostEntry => Same
    BY DEF PostEntry
  <2>3. BlockDone => Same \/ Shorter
    BY <1>0 DEF BlockDone
  <2> QED BY <2>1, <2>2, <2>3 DEF Walk
<1>6. Clear => Same \/ Shorter
  <2>1. Tick \/ ScanMismatch \/ ScanDone \/ ScanThrows => Same
    BY DEF Tick, ScanMismatch, ScanDone, ScanThrows, Stop
  <2>2. ScanMatch => Shorter
    BY DEF ScanMatch
  <2>3. UndoTx \/ UndoRecord \/ UndoSum \/ UndoDone => Same
    BY DEF UndoTx, UndoRecord, UndoSum, UndoDone
  <2> QED BY <2>1, <2>2, <2>3 DEF Clear
<1>7. Failures => Same
  BY DEF Failures, ReadHeightsFails, FetchBlockFails, NextTxFails, ScanFails, Abort, Stop
<1>8. Environment => Same
  BY DEF Environment, Mine, Reorganize, FetchRaw, Crash, Restart, Stop
<1>9. CASE Deliver
  <2>1. UNCHANGED stale
    BY <1>9 DEF Deliver, DeliverCursor, DeliverBlockIn, DeliverBlockOut, DeliverLockIn, DeliverLockOut
  <2>2. DeliverCursor \/ DeliverLockIn \/ DeliverLockOut => Same
    BY DEF DeliverCursor, DeliverLockIn, DeliverLockOut
  <2>3. CASE DeliverBlockIn
    <3>1. \E b \in Blocks : blockDocs' \in Inserted(b)
      BY <1>0, <2>3 DEF DeliverBlockIn
    <3> QED BY <1>0, <2>1, <3>1, InsertedOnce
  <2>4. CASE DeliverBlockOut
    <3>1. \E b : blockDocs' = Spliced(blockDocs, b)
      BY <2>4 DEF DeliverBlockOut
    <3>2. NoRepeat(blockDocs')
      BY <1>0, <3>1, SplicedOnce
    <3> QED BY <2>1, <3>2
  <2> QED BY <1>2, <1>9, <2>2, <2>3, <2>4 DEF Deliver
<1>10. UNCHANGED vars => Same
  BY DEF vars
<1> HIDE DEF Same, Shorter
<1> QED BY <1>2, <1>3, <1>4, <1>5, <1>6, <1>7, <1>8, <1>9, <1>10 DEF Next

-----------------------------------------------------------------------------
(* The block being taken back.                                             *)

\* What is taken back is of the block at the head.
OneBlock ==
    Undoing =>
        /\ \A t \in Elements(work) : InSeq(t, BlockTxs[Head(stale)])
        /\ \A d \in undo : InSeq(d.txid, BlockTxs[Head(stale)])

\* The steps that take a block back, and all others.
LEMMA UndoSteps ==
    ASSUME TypeOK, [Next]_vars
    PROVE  \/ ScanMismatch \/ UndoTx \/ UndoRecord \/ UndoSum
           \/ ~ Undoing'
           \/ Undoing /\ UNCHANGED <<work, stale, undo, doc, recorded, pc>>
<1> USE DEF env, records, book, writes, process, Undoing
<1>1. Sync => ~ Undoing'
  BY DEF Sync, ReadHeights, NextBlock, SyncDone
<1>2. Walk => ~ Undoing'
  BY DEF Walk, FetchBlock, NextTx, SkipEntry, PostEntry, RecordEntry, BlockDone
<1>3. Tick \/ ScanMatch \/ ScanThrows \/ ScanDone \/ UndoDone => ~ Undoing'
  BY DEF Tick, ScanMatch, ScanThrows, ScanDone, UndoDone, Stop
<1>4. Failures => ~ Undoing'
  BY DEF Failures, ReadHeightsFails, FetchBlockFails, NextTxFails, ScanFails, Abort, Stop
<1>5. Deliver => UNCHANGED <<work, stale, undo, doc, recorded, pc>>
  BY DEF Deliver, DeliverCursor, DeliverBlockIn, DeliverBlockOut, DeliverLockIn, DeliverLockOut
<1>6. Mine \/ Reorganize \/ FetchRaw => UNCHANGED <<work, stale, undo, doc, recorded, pc>>
  BY DEF Mine, Reorganize, FetchRaw
<1>7. Crash \/ Restart => ~ Undoing'
  BY DEF Crash, Restart, Stop
<1>8. UNCHANGED vars => UNCHANGED <<work, stale, undo, doc, recorded, pc>>
  BY DEF vars
<1> QED BY <1>1, <1>2, <1>3, <1>4, <1>5, <1>6, <1>7, <1>8 DEF Next, Clear, Environment

\* The transactions of the block are looked up in its own list.
LEMMA OneBlockNext ==
    ASSUME TypeOK, WindowsMatchRecords, OneBlock, [Next]_vars
    PROVE  OneBlock'
<1> USE DEF records, book, writes, process
<1>0. work \in Seq(TxIds)
  BY DEF TypeOK, ProcessTypeOK
<1>1. CASE ScanMismatch
  <2>1. undo' = {} /\ stale' = stale /\ work' = BlockTxs[Head(stale)]
    BY <1>1 DEF ScanMismatch, WindowsMatchRecords
  <2> QED BY <2>1 DEF OneBlock, InSeq
<1>2. CASE UndoTx
  <2>1. /\ Undoing /\ stale' = stale /\ work # <<>> /\ work' = Tail(work)
        /\ \A d \in undo' : d.txid = Head(work)
    BY <1>2 DEF UndoTx, RecordsOf, Undoing
  <2>2. Elements(work) = {Head(work)} \union Elements(work')
    BY <1>0, <2>1, HeadAndTail
  <2> QED BY <2>1, <2>2 DEF OneBlock
<1>3. CASE UndoRecord \/ UndoSum
  <2>1. Undoing /\ UNCHANGED <<stale, work>> /\ undo' \subseteq undo
    BY <1>3 DEF UndoRecord, UndoSum, Undoing
  <2> QED BY <2>1 DEF OneBlock
<1>4. CASE ~ Undoing' \/ (Undoing /\ UNCHANGED <<work, stale, undo, doc, recorded, pc>>)
  BY <1>4 DEF OneBlock
<1> QED BY <1>1, <1>2, <1>3, <1>4, UndoSteps

\* Once a block is being replaced it is replaced to the end.
LEMMA ClearingSteps ==
    ASSUME TypeOK, Clearing, ~ BlockDone,
           Mine \/ Reorganize \/ Sync \/ Walk \/ Deliver \/ Idles \/ (Clear /\ ~ ScanThrows)
    PROVE  /\ Clearing' /\ UNCHANGED stale
           /\ Undoing' => Undoing /\ recorded' \subseteq recorded
<1> USE DEF env, records, book, writes, process, Undoing, Replacing, Clearing
<1>0. pc \in {"undo", "undoSum", "fetch", "entry", "record"} /\ mode = "clear"
  OBVIOUS
<1>1. CASE FetchBlock \/ NextTx \/ SkipEntry \/ PostEntry \/ RecordEntry
  BY <1>0, <1>1 DEF FetchBlock, NextTx, SkipEntry, PostEntry, RecordEntry
<1>2. CASE UndoTx \/ UndoRecord \/ UndoSum \/ UndoDone
  BY <1>0, <1>2 DEF UndoTx, UndoRecord, UndoSum, UndoDone
<1>3. ~ Sync /\ ~ (Tick \/ ScanMatch \/ ScanMismatch \/ ScanDone)
  BY <1>0 DEF Sync, ReadHeights, NextBlock, SyncDone, Tick, ScanMatch, ScanMismatch, ScanDone
<1>4. CASE Deliver
  BY <1>0, <1>4 DEF Deliver, DeliverCursor, DeliverBlockIn, DeliverBlockOut, DeliverLockIn, DeliverLockOut
<1>5. CASE Mine \/ Reorganize
  BY <1>0, <1>5 DEF Mine, Reorganize
<1>6. CASE Idles
  BY <1>0, <1>6 DEF Idles, Restart, FetchRaw, vars
<1> QED BY <1>1, <1>2, <1>3, <1>4, <1>5, <1>6 DEF Walk, Clear

\* Nothing is taken from what is compared but its head, until the next comparison.
LEMMA StaleShrinks ==
    ASSUME TypeOK, ~ Tick,
           Mine \/ Reorganize \/ Sync \/ Walk \/ Deliver \/ Idles \/ (Clear /\ ~ ScanThrows)
    PROVE  Elements(stale') \subseteq Elements(stale)
<1> USE DEF env, records, book, writes, process
<1>0. /\ stale \in Seq(Blocks) /\ mode \in {"sync", "clear"}
      /\ mode = "clear" /\ pc = "entry" => stale # <<>>
  BY DEF TypeOK, ProcessTypeOK, PlaceOK
<1>1. Sync \/ Deliver => stale' = stale
  BY DEF Sync, ReadHeights, NextBlock, SyncDone,
         Deliver, DeliverCursor, DeliverBlockIn, DeliverBlockOut, DeliverLockIn, DeliverLockOut
<1>2. Mine \/ Reorganize \/ Idles => stale' = stale
  BY DEF Mine, Reorganize, Idles, Restart, FetchRaw, vars
<1>3. FetchBlock \/ NextTx \/ SkipEntry \/ PostEntry \/ RecordEntry => stale' = stale
  BY DEF FetchBlock, NextTx, SkipEntry, PostEntry, RecordEntry
<1>4. BlockDone => stale' = stale \/ (stale # <<>> /\ stale' = Tail(stale))
  BY <1>0 DEF BlockDone
<1>5. ScanMatch => stale # <<>> /\ stale' = Tail(stale)
  BY DEF ScanMatch
<1>6. ScanMismatch \/ ScanDone \/ UndoTx \/ UndoRecord \/ UndoSum \/ UndoDone => stale' = stale
  BY DEF ScanMismatch, ScanDone, UndoTx, UndoRecord, UndoSum, UndoDone
<1>7. stale' = stale \/ (stale # <<>> /\ stale' = Tail(stale))
  BY <1>1, <1>2, <1>3, <1>4, <1>5, <1>6 DEF Walk, Clear
<1> QED BY <1>0, <1>7, HeadAndTail

-----------------------------------------------------------------------------
(* The locked value.                                                       *)

\* The lockedTx documents in flight are there to be written or removed, and the process
\* holds some only between the two writes of a rollback.
LockCounts ==
    \A d \in Docs :
        /\ 0 <= flight.lockIn[d]
        /\ 0 <= flight.lockOut[d] /\ flight.lockOut[d] <= lockDocs[d]
        /\ pc # "undoSum" => lockSeen[d] = 0

\* The outputs whose lockedTx documents are theirs alone.
Single == {d \in Docs : d.side = "out" /\ Alone(d)}

\* The removal in flight for d was sent when block b was taken back, and b is not compared
\* again before it has landed.
UndoneWith(d, b) ==
    /\ InSeq(d.txid, BlockTxs[b])
    /\ InSeq(b, stale) => b = Head(stale) /\ Clearing /\ (Undoing => d \notin recorded)

Removals(c) == \A d \in Single : flight.lockOut[d] > 0 => \E b \in Gone(c) : UndoneWith(d, b)

\* The principals in lockedValue are those of the lockedTx documents.
LockSums ==
    \A d \in Single :
        locked[d] - lockSeen[d] = lockDocs[d] + flight.lockIn[d] - flight.lockOut[d]

LocksAlone ==
    /\ flight'.lockIn = flight.lockIn /\ flight'.lockOut = flight.lockOut
    /\ UNCHANGED <<lockDocs, locked, lockSeen>>
    /\ pc' = "undoSum" <=> pc = "undoSum"

LocksLost ==
    /\ flight' = NoFlight /\ lockSeen' = Zero /\ pc' = "down"
    /\ UNCHANGED <<lockDocs, locked>>

\* The steps that touch what is locked, and all others.
LEMMA LockSteps ==
    ASSUME TypeOK, [Next]_vars
    PROVE  \/ PostEntry \/ UndoRecord \/ UndoSum \/ DeliverLockIn \/ DeliverLockOut
           \/ LocksLost /\ (Failures \/ Crash \/ ScanThrows)
           \/ LocksAlone
<1> USE DEF env, records, book, writes, process, LocksAlone
<1>0. /\ flight \in [blockIn: SUBSET Blocks, blockOut: SUBSET Blocks,
                     lockIn: [Docs -> Int], lockOut: [Docs -> Int]]
      /\ mode \in {"sync", "clear"}
  BY DEF TypeOK, StoreTypeOK, ProcessTypeOK
<1>1. Stop => LocksLost
  BY DEF Stop, LocksLost
<1>2. Sync => LocksAlone
  BY DEF Sync, ReadHeights, NextBlock, SyncDone
<1>3. FetchBlock \/ NextTx \/ SkipEntry \/ RecordEntry => LocksAlone
  BY <1>0 DEF FetchBlock, NextTx, SkipEntry, RecordEntry
<1>4. BlockDone => LocksAlone
  <2>1. BlockDone => flight' = flight \/ flight' = StaleRemoved
    BY DEF BlockDone
  <2>2. BlockDone => flight'.lockIn = flight.lockIn /\ flight'.lockOut = flight.lockOut
    BY <1>0, <2>1 DEF StaleRemoved
  <2> QED BY <2>2 DEF BlockDone
<1>5. Tick \/ ScanMatch \/ ScanMismatch \/ ScanDone \/ UndoTx \/ UndoDone => LocksAlone
  BY DEF Tick, ScanMatch, ScanMismatch, ScanDone, UndoTx, UndoDone
<1>6. ScanThrows => LocksLost
  BY <1>1 DEF ScanThrows
<1>7. Failures => LocksLost \/ LocksAlone
  BY <1>1 DEF Failures, ReadHeightsFails, FetchBlockFails, NextTxFails, ScanFails, Abort
<1>8. DeliverCursor \/ DeliverBlockIn \/ DeliverBlockOut => LocksAlone
  BY <1>0 DEF DeliverCursor, DeliverBlockIn, DeliverBlockOut
<1>9. Environment => (LocksLost /\ Crash) \/ LocksAlone
  BY <1>1 DEF Environment, Mine, Reorganize, FetchRaw, Crash, Restart
<1>10. UNCHANGED vars => LocksAlone
  BY DEF vars
<1> HIDE DEF LocksAlone
<1> QED BY <1>1, <1>2, <1>3, <1>4, <1>5, <1>6, <1>7, <1>8, <1>9, <1>10
        DEF Next, Walk, Clear, Deliver

\* What the two writes of a posting and of a rollback, and the writes that land, do to what
\* is locked, output by output.
LEMMA LockChanges ==
    ASSUME TypeOK, NEW d \in Docs
    PROVE  /\ /\ lockDocs[d] \in Int /\ locked[d] \in Int /\ lockSeen[d] \in Int
              /\ flight.lockIn[d] \in Int /\ flight.lockOut[d] \in Int
           /\ PostEntry =>
                 /\ lockDocs' = lockDocs /\ lockSeen' = lockSeen /\ flight'.lockOut = flight.lockOut
                 /\ \/ flight'.lockIn[d] = flight.lockIn[d] /\ locked'[d] = locked[d]
                    \/ /\ d = Doc(Head(todo)) /\ flight'.lockIn[d] = flight.lockIn[d] + 1
                       /\ locked'[d] = locked[d] + 1 \/ AlreadyLast(Head(todo))
           /\ UndoSum =>
                 /\ UNCHANGED <<lockDocs, flight>> /\ lockSeen' = Zero
                 /\ locked'[d] = locked[d] - lockSeen[d]
           /\ DeliverLockIn =>
                 /\ UNCHANGED <<locked, lockSeen, pc>> /\ flight'.lockOut = flight.lockOut
                 /\ \/ flight'.lockIn[d] = flight.lockIn[d] /\ lockDocs'[d] = lockDocs[d]
                    \/ /\ flight.lockIn[d] > 0 /\ flight'.lockIn[d] = flight.lockIn[d] - 1
                       /\ lockDocs'[d] = lockDocs[d] + 1
           /\ DeliverLockOut =>
                 /\ UNCHANGED <<locked, lockSeen, pc>> /\ flight'.lockIn = flight.lockIn
                 /\ \/ flight'.lockOut[d] = flight.lockOut[d] /\ lockDocs'[d] = lockDocs[d]
                    \/ /\ flight'.lockOut[d] = 0
                       /\ lockDocs'[d] = lockDocs[d] - flight.lockOut[d]
<1>0. /\ flight \in [blockIn: SUBSET Blocks, blockOut: SUBSET Blocks,
                     lockIn: [Docs -> Int], lockOut: [Docs -> Int]]
      /\ lockDocs \in [Docs -> Int] /\ locked \in [Docs -> Int] /\ lockSeen \in [Docs -> Int]
      /\ todo \in Seq(AllEntries)
  BY DEF TypeOK, StoreTypeOK, ProcessTypeOK
<1>1. /\ lockDocs[d] \in Int /\ locked[d] \in Int /\ lockSeen[d] \in Int
      /\ flight.lockIn[d] \in Int /\ flight.lockOut[d] \in Int
  BY <1>0
<1>2. ASSUME PostEntry
      PROVE  /\ lockDocs' = lockDocs /\ lockSeen' = lockSeen /\ flight'.lockOut = flight.lockOut
             /\ \/ flight'.lockIn[d] = flight.lockIn[d] /\ locked'[d] = locked[d]
                \/ /\ d = Doc(Head(todo)) /\ flight'.lockIn[d] = flight.lockIn[d] + 1
                   /\ locked'[d] = locked[d] + 1 \/ AlreadyLast(Head(todo))
  <2> DEFINE y == Doc(Head(todo))
             up == Locked(Head(todo), db)
             l == [flight.lockIn EXCEPT ![y] = IF up THEN @ + 1 ELSE @]
  <2>1. /\ lockDocs' = lockDocs /\ lockSeen' = lockSeen /\ flight' = [flight EXCEPT !.lockIn = l]
        /\ \/ AlreadyLast(Head(todo)) /\ locked' = locked
           \/ locked' = [locked EXCEPT ![y] = IF up THEN @ + 1 ELSE @]
    BY <1>0, <1>2 DEF PostEntry, Post, records, process
  <2>0. y \in Docs
    BY <1>0, <1>2 DEF PostEntry, Entries, Docs
  <2> HIDE DEF y, up
  <2>2. /\ l \in [Docs -> Int] /\ (d # y => l[d] = flight.lockIn[d])
        /\ (d = y /\ up => l[d] = flight.lockIn[d] + 1)
        /\ (d = y /\ ~ up => l[d] = flight.lockIn[d])
    <3>1. flight.lockIn \in [Docs -> Int] /\ y \in Docs
      BY <1>0, <2>0
    <3>2. CASE up
      BY <3>1, <3>2
    <3>3. CASE ~ up
      BY <3>1, <3>3
    <3> QED BY <3>2, <3>3
  <2> HIDE DEF l
  <2>3. flight'.lockIn = l /\ flight'.lockOut = flight.lockOut
    BY <1>0, <2>1
  <2>4. /\ (d # y => locked'[d] = locked[d])
        /\ ~ up => locked'[d] = locked[d]
        /\ d = y /\ up => locked'[d] = locked[d] + 1 \/ AlreadyLast(Head(todo))
    BY <1>0, <2>1
  <2>5. d = y => d = Doc(Head(todo))
    BY DEF y
  <2> QED BY <2>1, <2>2, <2>3, <2>4, <2>5
<1>3. ASSUME UndoSum
      PROVE  /\ UNCHANGED <<lockDocs, flight>> /\ lockSeen' = Zero
             /\ locked'[d] = locked[d] - lockSeen[d]
  BY <1>3 DEF UndoSum, LockedWithout, records, writes
<1>4. ASSUME DeliverLockIn
      PROVE  /\ UNCHANGED <<locked, lockSeen, pc>> /\ flight'.lockOut = flight.lockOut
             /\ \/ flight'.lockIn[d] = flight.lockIn[d] /\ lockDocs'[d] = lockDocs[d]
                \/ /\ flight.lockIn[d] > 0 /\ flight'.lockIn[d] = flight.lockIn[d] - 1
                   /\ lockDocs'[d] = lockDocs[d] + 1
  <2>1. PICK x \in Docs : /\ flight.lockIn[x] > 0 /\ lockDocs' = [lockDocs EXCEPT ![x] = @ + 1]
                          /\ flight' = [flight EXCEPT !.lockIn[x] = @ - 1]
    BY <1>4 DEF DeliverLockIn
  <2> DEFINE l == [flight.lockIn EXCEPT ![x] = @ - 1]
  <2>2. flight' = [flight EXCEPT !.lockIn = l] /\ l \in [Docs -> Int]
        /\ l[d] = IF d = x THEN flight.lockIn[d] - 1 ELSE flight.lockIn[d]
    BY <1>0, <2>1
  <2> HIDE DEF l
  <2>3. flight'.lockIn = l /\ flight'.lockOut = flight.lockOut
    BY <1>0, <2>2
  <2> QED BY <1>0, <1>4, <2>1, <2>2, <2>3 DEF DeliverLockIn, book, process
<1>5. ASSUME DeliverLockOut
      PROVE  /\ UNCHANGED <<locked, lockSeen, pc>> /\ flight'.lockIn = flight.lockIn
             /\ \/ flight'.lockOut[d] = flight.lockOut[d] /\ lockDocs'[d] = lockDocs[d]
                \/ /\ flight'.lockOut[d] = 0
                   /\ lockDocs'[d] = lockDocs[d] - flight.lockOut[d]
  <2>1. PICK x \in Docs : /\ lockDocs' = [lockDocs EXCEPT ![x] = @ - flight.lockOut[x]]
                          /\ flight' = [flight EXCEPT !.lockOut[x] = 0]
    BY <1>5 DEF DeliverLockOut
  <2> DEFINE l == [flight.lockOut EXCEPT ![x] = 0]
  <2>2. flight' = [flight EXCEPT !.lockOut = l] /\ l \in [Docs -> Int]
        /\ l[d] = IF d = x THEN 0 ELSE flight.lockOut[d]
    BY <1>0, <2>1
  <2> HIDE DEF l
  <2>3. flight'.lockOut = l /\ flight'.lockIn = flight.lockIn
    BY <1>0, <2>2
  <2> QED BY <1>0, <1>5, <2>1, <2>2, <2>3 DEF DeliverLockOut, book, process
<1> QED BY <1>1, <1>2, <1>3, <1>4, <1>5

\* The first write of a rollback, output by output: the documents found are removed.
LEMMA LocksTaken ==
    ASSUME TypeOK, UndoRecord, NEW d \in Docs
    PROVE  /\ pc = "undo" /\ pc' = "undoSum" /\ UNCHANGED <<lockDocs, locked, undo, stale, mode>>
           /\ flight'.lockIn = flight.lockIn
           /\ \E x \in undo :
                 /\ recorded' = recorded \ {x}
                 /\ \/ /\ x.side = "out" /\ d.txid = x.txid /\ d.address = x.address
                       /\ lockSeen'[d] = lockDocs[d]
                       /\ flight'.lockOut[d] = IF lockDocs[d] > 0 THEN lockDocs[d]
                                               ELSE flight.lockOut[d]
                    \/ /\ ~ (x.side = "out" /\ d.txid = x.txid /\ d.address = x.address)
                       /\ lockSeen'[d] = 0 /\ flight'.lockOut[d] = flight.lockOut[d]
<1>0. /\ flight \in [blockIn: SUBSET Blocks, blockOut: SUBSET Blocks,
                     lockIn: [Docs -> Int], lockOut: [Docs -> Int]]
      /\ lockDocs \in [Docs -> Int]
  BY DEF TypeOK, StoreTypeOK
<1>1. PICK x \in undo :
          /\ recorded' = recorded \ {x} /\ lockSeen' = LocksFound(x)
          /\ flight' = [flight EXCEPT !.lockOut =
                [y \in Docs |-> IF LocksFound(x)[y] > 0 THEN LocksFound(x)[y] ELSE @[y]]]
  BY DEF UndoRecord
<1> DEFINE l == [y \in Docs |-> IF LocksFound(x)[y] > 0 THEN LocksFound(x)[y] ELSE flight.lockOut[y]]
<1>2. flight' = [flight EXCEPT !.lockOut = l]
      /\ l[d] = IF LocksFound(x)[d] > 0 THEN LocksFound(x)[d] ELSE flight.lockOut[d]
  BY <1>0, <1>1
<1> HIDE DEF l
<1>3. flight'.lockOut = l /\ flight'.lockIn = flight.lockIn
  BY <1>0, <1>2
<1>4. LocksFound(x)[d] = IF x.side = "out" /\ d.txid = x.txid /\ d.address = x.address
                         THEN lockDocs[d] ELSE 0
  BY DEF LocksFound
<1>5. pc = "undo" /\ pc' = "undoSum" /\ UNCHANGED <<lockDocs, locked, undo, stale, mode>>
  BY DEF UndoRecord, book
<1> QED BY <1>1, <1>2, <1>3, <1>4, <1>5

\* No more is removed than there is, whatever is in flight.
LEMMA LockCountsNext ==
    ASSUME TypeOK, LockCounts, [Next]_vars
    PROVE  LockCounts'
<1> SUFFICES ASSUME NEW d \in Docs
             PROVE  /\ 0 <= flight'.lockIn[d]
                    /\ 0 <= flight'.lockOut[d] /\ flight'.lockOut[d] <= lockDocs'[d]
                    /\ pc' # "undoSum" => lockSeen'[d] = 0
  BY DEF LockCounts
<1>1. /\ 0 <= flight.lockIn[d]
      /\ 0 <= flight.lockOut[d] /\ flight.lockOut[d] <= lockDocs[d]
      /\ pc # "undoSum" => lockSeen[d] = 0
  BY DEF LockCounts
<1>2. /\ lockDocs[d] \in Int /\ lockSeen[d] \in Int
      /\ flight.lockIn[d] \in Int /\ flight.lockOut[d] \in Int
  BY LockChanges
<1>3. CASE PostEntry
  <2>1. pc = "entry" /\ pc' = "record"
    BY <1>3 DEF PostEntry
  <2>2. /\ lockDocs' = lockDocs /\ lockSeen' = lockSeen /\ flight'.lockOut = flight.lockOut
        /\ flight'.lockIn[d] = flight.lockIn[d] \/ flight'.lockIn[d] = flight.lockIn[d] + 1
    BY <1>3, LockChanges
  <2> QED BY <1>1, <1>2, <2>1, <2>2
<1>4. CASE UndoRecord
  <2>1. /\ pc' = "undoSum" /\ lockDocs' = lockDocs /\ flight'.lockIn = flight.lockIn
        /\ flight'.lockOut[d] = flight.lockOut[d]
           \/ flight'.lockOut[d] = IF lockDocs[d] > 0 THEN lockDocs[d] ELSE flight.lockOut[d]
    BY <1>4, LocksTaken
  <2> QED BY <1>1, <1>2, <2>1
<1>5. CASE UndoSum
  <2>1. UNCHANGED <<lockDocs, flight>> /\ lockSeen'[d] = 0
    BY <1>5, LockChanges, ZeroType
  <2> QED BY <1>1, <2>1
<1>6. CASE DeliverLockIn
  <2>1. /\ UNCHANGED <<lockSeen, pc>> /\ flight'.lockOut = flight.lockOut
        /\ \/ flight'.lockIn[d] = flight.lockIn[d] /\ lockDocs'[d] = lockDocs[d]
           \/ /\ flight.lockIn[d] > 0 /\ flight'.lockIn[d] = flight.lockIn[d] - 1
              /\ lockDocs'[d] = lockDocs[d] + 1
    BY <1>6, LockChanges
  <2> QED BY <1>1, <1>2, <2>1
<1>7. CASE DeliverLockOut
  <2>1. /\ UNCHANGED <<lockSeen, pc>> /\ flight'.lockIn = flight.lockIn
        /\ \/ flight'.lockOut[d] = flight.lockOut[d] /\ lockDocs'[d] = lockDocs[d]
           \/ /\ flight'.lockOut[d] = 0 /\ lockDocs'[d] = lockDocs[d] - flight.lockOut[d]
    BY <1>7, LockChanges
  <2> QED BY <1>1, <1>2, <2>1
<1>8. CASE LocksLost
  <2>1. /\ flight'.lockIn[d] = 0 /\ flight'.lockOut[d] = 0 /\ lockSeen'[d] = 0
        /\ lockDocs' = lockDocs
    BY <1>8, ZeroType DEF LocksLost, NoFlight
  <2> QED BY <1>1, <1>2, <2>1
<1>9. CASE LocksAlone
  BY <1>1, <1>9 DEF LocksAlone
<1> QED BY <1>3, <1>4, <1>5, <1>6, <1>7, <1>8, <1>9, LockSteps

\* What a removal was sent for stays so until it lands: a block is taken back to the end,
\* leaves what is compared, and is compared again only after the writes have landed.
LEMMA UndoneNext ==
    ASSUME TypeOK, NoRepeat(stale), ~ Tick,
           Mine \/ Reorganize \/ Sync \/ Walk \/ Deliver \/ Idles \/ (Clear /\ ~ ScanThrows),
           NEW d, NEW b, UndoneWith(d, b)
    PROVE  UndoneWith(d, b)'
<1>1. stale \in Seq(Blocks)
  BY DEF TypeOK, ProcessTypeOK
<1> SUFFICES ASSUME InSeq(b, stale')
             PROVE  b = Head(stale') /\ Clearing' /\ (Undoing' => d \notin recorded')
  BY DEF UndoneWith
<1>2. Elements(stale') \subseteq Elements(stale)
  BY StaleShrinks
<1>3. b = Head(stale) /\ Clearing /\ (Undoing => d \notin recorded)
  BY <1>2 DEF UndoneWith, InSeq
<1>4. CASE BlockDone
  <2>1. stale # <<>> /\ stale' = Tail(stale)
    BY <1>3, <1>4 DEF BlockDone, Clearing, TypeOK, PlaceOK
  <2>2. b \notin Elements(stale')
    BY <1>1, <1>3, <2>1, TailOnce
  <2> QED BY <2>2 DEF InSeq
<1>5. CASE ~ BlockDone
  BY <1>3, <1>5, ClearingSteps
<1> QED BY <1>4, <1>5

\* A removal is sent when the block is taken back, and not twice.
LEMMA RemovalsNext ==
    ASSUME ~ SlowWrites, TypeOK, NoRepeat(stale), OneBlock, LockCounts, Undisturbed,
           NEW c \in Chains, LeftFor(c), Removals(c), [Next]_vars, Quiet',
           NEW e \in Chains, Gone(c) \subseteq Gone(e)'
    PROVE  Removals(e)'
<1> SUFFICES ASSUME NEW d \in Single, flight'.lockOut[d] > 0
             PROVE  \E b \in Gone(e)' : UndoneWith(d, b)'
  BY DEF Removals
<1>0. d \in Docs /\ flight.lockOut[d] \in Int /\ lockDocs[d] \in Int
  BY LockChanges DEF Single
<1>1. Mine \/ Reorganize \/ Sync \/ Walk \/ Deliver \/ Idles \/ (Clear /\ ~ ScanThrows)
  BY CalmSteps
<1>2. CASE flight.lockOut[d] > 0
  <2>1. PICK b \in Gone(c) : UndoneWith(d, b)
    BY <1>2 DEF Removals
  <2>2. ~ Tick
    <3> SUFFICES ASSUME Tick PROVE FALSE
      OBVIOUS
    <3>1. flight = NoFlight
      BY DEF Tick
    <3>2. flight.lockOut[d] = 0
      BY <1>0, <3>1, ZeroType DEF NoFlight
    <3> QED BY <1>2, <3>2
  <2>3. UndoneWith(d, b)'
    BY <1>1, <2>1, <2>2, UndoneNext
  <2> QED BY <2>1, <2>3
<1>3. CASE ~ flight.lockOut[d] > 0
  <2>1. CASE UndoRecord
    <3>1. PICK x \in undo :
             /\ recorded' = recorded \ {x}
             /\ \/ /\ x.side = "out" /\ d.txid = x.txid /\ d.address = x.address
                   /\ lockSeen'[d] = lockDocs[d]
                   /\ flight'.lockOut[d] = IF lockDocs[d] > 0 THEN lockDocs[d]
                                           ELSE flight.lockOut[d]
                \/ /\ ~ (x.side = "out" /\ d.txid = x.txid /\ d.address = x.address)
                   /\ lockSeen'[d] = 0 /\ flight'.lockOut[d] = flight.lockOut[d]
      BY <1>0, <2>1, LocksTaken
    <3>2. x.side = "out" /\ d.txid = x.txid /\ d.address = x.address
      BY <1>3, <3>1
    <3>3. x \in Docs
      BY DEF TypeOK, ProcessTypeOK
    <3>4. x = d
      BY <3>2, <3>3 DEF Single, Alone
    <3>5. pc = "undo" /\ pc' = "undoSum" /\ UNCHANGED <<stale, mode>> /\ mode = "clear"
      BY <1>0, <2>1, LocksTaken DEF TypeOK, PlaceOK
    <3>6. Clearing /\ Clearing' /\ Undoing
      BY <3>5 DEF Clearing, Replacing, Undoing
    <3>7. Head(stale) \in Gone(c)
      BY <3>6 DEF LeftFor
    <3>8. InSeq(d.txid, BlockTxs[Head(stale)])
      BY <3>4, <3>6 DEF OneBlock
    <3>9. PICK b : b = Head(stale)
      OBVIOUS
    <3>10. UndoneWith(d, b)'
      BY <3>1, <3>4, <3>5, <3>6, <3>8, <3>9 DEF UndoneWith
    <3> QED BY <3>7, <3>9, <3>10
  <2>2. CASE ~ UndoRecord
    <3>1. flight'.lockOut[d] = flight.lockOut[d] \/ flight'.lockOut[d] = 0
      <4>1. LocksLost => flight'.lockOut[d] = 0
        BY <1>0, ZeroType DEF LocksLost, NoFlight
      <4>2. PostEntry \/ UndoSum \/ DeliverLockIn => flight'.lockOut[d] = flight.lockOut[d]
        BY <1>0, LockChanges
      <4>3. DeliverLockOut => flight'.lockOut[d] = flight.lockOut[d] \/ flight'.lockOut[d] = 0
        BY <1>0, LockChanges
      <4>4. LocksAlone => flight'.lockOut[d] = flight.lockOut[d]
        BY DEF LocksAlone
      <4> QED BY <2>2, <4>1, <4>2, <4>3, <4>4, LockSteps
    <3> QED BY <1>0, <1>3, <3>1
  <2> QED BY <2>1, <2>2
<1> QED BY <1>2, <1>3

\* When the documents of an output are looked up to be removed, no removal is under way.
LEMMA NoRemovalYet ==
    ASSUME OncePerChain, TypeOK, WindowsMatchRecords, OneBlock, LockCounts,
           NEW c \in Chains, LeftFor(c), Removals(c),
           pc = "undo", NEW d \in Single, d \in undo
    PROVE  flight.lockOut[d] = 0
<1>0. d \in Docs /\ flight.lockOut[d] \in Int /\ 0 <= flight.lockOut[d]
  BY LockChanges DEF Single, LockCounts
<1> SUFFICES ASSUME flight.lockOut[d] > 0 PROVE FALSE
  BY <1>0
<1>1. PICK b \in Gone(c) : UndoneWith(d, b)
  BY DEF Removals
<1>2. /\ Undoing /\ Clearing /\ stale # <<>> /\ stale \in Seq(Blocks)
      /\ d \in recorded
  BY DEF Undoing, Replacing, Clearing, TypeOK, PlaceOK, ProcessTypeOK, WindowsMatchRecords
<1>3. /\ Head(stale) \in Gone(c) /\ InSeq(d.txid, BlockTxs[Head(stale)])
      /\ InSeq(d.txid, BlockTxs[b])
  BY <1>1, <1>2 DEF LeftFor, OneBlock, UndoneWith
<1>4. b = Head(stale)
  <2>1. PICK h \in 1..Len(c) : c[h] = b
    BY DEF Gone, Elements
  <2>2. PICK k \in 1..Len(c) : c[k] = Head(stale)
    BY <1>3 DEF Gone, Elements
  <2>3. d.txid \in TxIds
    BY <1>0, DocFields
  <2>4. h = k
    BY <1>3, <2>1, <2>2, <2>3 DEF OncePerChain
  <2> QED BY <2>1, <2>2, <2>4
<1>5. InSeq(b, stale)
  BY <1>2, <1>4, HeadAndTail DEF InSeq
<1> QED BY <1>1, <1>2, <1>5 DEF UndoneWith

\* What is posted for the first time is not the last of its address, unless it was cut off.
LEMMA NotLast ==
    ASSUME TypeOK, Accounted, crashes = 0, PostEntry, Doc(Head(todo)) \in Single
    PROVE  ~ AlreadyLast(Head(todo))
<1>1. PICK e : e = Head(todo)
  OBVIOUS
<1>2. e \in Entries /\ Doc(e) \notin recorded /\ pc = "entry"
  BY <1>1 DEF PostEntry, TypeOK, ProcessTypeOK, Entries
<1>3. Doc(e) \in Docs /\ Doc(e).side = "out" /\ Alone(Doc(e))
  BY <1>1 DEF Single
<1>4. ~ Contested(Doc(e))
  <2> SUFFICES ASSUME NEW g \in Entries, NEW f \in Entries, Doc(g) = Doc(e), Doc(f) # Doc(e),
                      g.side = f.side, g.addr = f.addr, IndexOf(g) = IndexOf(f)
               PROVE  FALSE
    BY DEF Contested
  <2>1. /\ Doc(g).side = g.side /\ Doc(g).txid = g.tx /\ Doc(g).address = g.addr
        /\ Doc(f).side = f.side /\ Doc(f).txid = f.tx /\ Doc(f).address = f.addr
        /\ Doc(f) \in Docs
    BY EntryFields
  <2>2. g.ref = g.tx /\ f.ref = f.tx
    BY <1>3, <2>1, PlanAssumption DEF Entries, AllEntries
  <2>3. g.ref = f.ref
    BY DEF IndexOf
  <2> QED BY <1>3, <2>1, <2>2, <2>3 DEF Alone
<1>5. amount[Doc(e)] = 0
  <2>1. Due(Doc(e)) = 0
    BY <1>2 DEF Due, Between
  <2>2. amount[Doc(e)] - Due(Doc(e)) \in 0..crashes /\ amount[Doc(e)] \in Int
    BY <1>3, <1>4 DEF Accounted, DriftBoundedByCrashes, TypeOK, StoreTypeOK
  <2> QED BY <2>1, <2>2
<1>6. ~ (amount[Doc(e)] >= 1)
  BY <1>5
<1> QED BY <1>1, <1>2, <1>4, <1>6 DEF AlreadyLast, Accounted, LastIsPosted

\* The two writes of a posting and the two of a rollback change the locked value and the
\* lockedTx documents alike.
LEMMA LockSumsNext ==
    ASSUME OncePerChain, TypeOK, Accounted, OneBlock, LockCounts, Undisturbed, LockSums,
           NEW c \in Chains, LeftFor(c), Removals(c), [Next]_vars, Quiet'
    PROVE  LockSums'
<1> SUFFICES ASSUME NEW d \in Single
             PROVE  locked'[d] - lockSeen'[d]
                       = lockDocs'[d] + flight'.lockIn[d] - flight'.lockOut[d]
  BY DEF LockSums
<1>0. /\ d \in Docs
      /\ lockDocs[d] \in Int /\ locked[d] \in Int /\ lockSeen[d] \in Int
      /\ flight.lockIn[d] \in Int /\ flight.lockOut[d] \in Int
  <2>1. d \in Docs
    BY DEF Single
  <2> QED BY <2>1, LockChanges
<1>1. locked[d] - lockSeen[d] = lockDocs[d] + flight.lockIn[d] - flight.lockOut[d]
  BY DEF LockSums
<1>2. /\ pc # "undoSum" => lockSeen[d] = 0
      /\ 0 <= flight.lockOut[d] /\ flight.lockOut[d] <= lockDocs[d]
  BY <1>0 DEF LockCounts
<1>3. CASE PostEntry
  <2>1. d = Doc(Head(todo)) => ~ AlreadyLast(Head(todo))
    BY <1>3, CalmSteps, NotLast DEF Quiet
  <2>2. /\ lockDocs' = lockDocs /\ lockSeen' = lockSeen /\ flight'.lockOut = flight.lockOut
        /\ \/ flight'.lockIn[d] = flight.lockIn[d] /\ locked'[d] = locked[d]
           \/ flight'.lockIn[d] = flight.lockIn[d] + 1 /\ locked'[d] = locked[d] + 1
    BY <1>0, <1>3, <2>1, LockChanges
  <2> QED BY <1>0, <1>1, <2>2
<1>4. CASE UndoRecord
  <2>1. PICK x \in undo :
           \/ /\ x.side = "out" /\ d.txid = x.txid /\ d.address = x.address
              /\ lockSeen'[d] = lockDocs[d]
              /\ flight'.lockOut[d] = IF lockDocs[d] > 0 THEN lockDocs[d] ELSE flight.lockOut[d]
           \/ lockSeen'[d] = 0 /\ flight'.lockOut[d] = flight.lockOut[d]
    BY <1>0, <1>4, LocksTaken
  <2>2. /\ pc = "undo" /\ UNCHANGED <<lockDocs, locked>> /\ flight'.lockIn = flight.lockIn
    BY <1>0, <1>4, LocksTaken
  <2>3. CASE x.side = "out" /\ d.txid = x.txid /\ d.address = x.address
                /\ lockSeen'[d] = lockDocs[d]
                /\ flight'.lockOut[d] = IF lockDocs[d] > 0 THEN lockDocs[d] ELSE flight.lockOut[d]
    <3>1. x \in Docs
      BY DEF TypeOK, ProcessTypeOK
    <3>2. x = d
      BY <2>3, <3>1 DEF Single, Alone
    <3>3. flight.lockOut[d] = 0
      BY <2>2, <3>2, NoRemovalYet DEF Accounted
    <3>4. lockSeen[d] = 0 /\ lockSeen'[d] = lockDocs[d]
          /\ flight'.lockOut[d] = IF lockDocs[d] > 0 THEN lockDocs[d] ELSE flight.lockOut[d]
      BY <1>2, <2>2, <2>3
    <3> QED BY <1>0, <1>1, <1>2, <2>2, <3>3, <3>4
  <2>4. CASE lockSeen'[d] = 0 /\ flight'.lockOut[d] = flight.lockOut[d]
    BY <1>0, <1>1, <1>2, <2>2, <2>4
  <2> QED BY <2>1, <2>3, <2>4
<1>5. CASE UndoSum
  <2>1. /\ UNCHANGED <<lockDocs, flight>> /\ lockSeen'[d] = 0 /\ locked'[d] = locked[d] - lockSeen[d]
    BY <1>0, <1>5, LockChanges, ZeroType
  <2> QED BY <1>0, <1>1, <2>1
<1>6. CASE DeliverLockIn
  <2>1. /\ UNCHANGED <<locked, lockSeen>> /\ flight'.lockOut = flight.lockOut
        /\ \/ flight'.lockIn[d] = flight.lockIn[d] /\ lockDocs'[d] = lockDocs[d]
           \/ flight'.lockIn[d] = flight.lockIn[d] - 1 /\ lockDocs'[d] = lockDocs[d] + 1
    BY <1>0, <1>6, LockChanges
  <2> QED BY <1>0, <1>1, <2>1
<1>7. CASE DeliverLockOut
  <2>1. /\ UNCHANGED <<locked, lockSeen>> /\ flight'.lockIn = flight.lockIn
        /\ \/ flight'.lockOut[d] = flight.lockOut[d] /\ lockDocs'[d] = lockDocs[d]
           \/ flight'.lockOut[d] = 0 /\ lockDocs'[d] = lockDocs[d] - flight.lockOut[d]
    BY <1>0, <1>7, LockChanges
  <2> QED BY <1>0, <1>1, <2>1
<1>8. CASE LocksAlone
  BY <1>1, <1>8 DEF LocksAlone
<1>9. ~ (Failures \/ Crash \/ ScanThrows)
  BY CalmSteps
<1> QED BY <1>3, <1>4, <1>5, <1>6, <1>7, <1>8, <1>9, LockSteps

\* What holds of the places of the walk whatever happens.
Kept == TypeOK /\ Accounted /\ LockCounts /\ NoRepeat(blockDocs) /\ NoRepeat(stale) /\ OneBlock

\* The empty sequence names nothing.
LEMMA NoneRepeated == NoRepeat(<<>>)
<1>1. \A i \in 1..Len(<<>>) : FALSE
  BY EmptySeq
<1> QED BY <1>1 DEF NoRepeat

\* It holds at the start, where nothing is noted,
LEMMA KeptInit == Init => Kept
<1> SUFFICES ASSUME Init PROVE Kept
  OBVIOUS
<1>1. NoRepeat(blockDocs) /\ NoRepeat(stale)
  BY NoneRepeated DEF Init
<1>2. LockCounts
  BY ZeroType DEF Init, LockCounts, NoFlight
<1>3. OneBlock
  BY DEF Init, OneBlock, Undoing
<1> QED BY <1>1, <1>2, <1>3, TypeInit, DriftInit DEF Kept

\* and every step keeps it.
LEMMA KeptNext == Kept /\ [Next]_vars => Kept'
<1> SUFFICES ASSUME Kept, [Next]_vars PROVE Kept'
  OBVIOUS
<1>1. TypeOK /\ Accounted /\ LockCounts /\ NoRepeat(blockDocs) /\ NoRepeat(stale) /\ OneBlock
      /\ WindowsMatchRecords
  BY DEF Kept, Accounted
<1>2. NoRepeat(blockDocs') /\ NoRepeat(stale')
  BY <1>1, NotedOnceNext
<1>3. NoRepeat(blockDocs)' /\ NoRepeat(stale)'
  BY <1>2 DEF NoRepeat
<1> QED BY <1>1, <1>3, TypeNext, DriftNext, LockCountsNext, OneBlockNext DEF Kept

\* No branch is left at the start.
LEMMA ForkInit == Init => Undisturbed /\ LeftFor(InitChain)
<1> SUFFICES ASSUME Init PROVE Undisturbed /\ LeftFor(InitChain)
  OBVIOUS
<1>1. Len(chain) \in Nat
  BY ChainAssumption, LenProperties DEF Init
<1>2. Noted = {} /\ flight.blockOut = {} /\ ~ Replacing
  BY NoElements DEF Init, Noted, NoFlight, Replacing, Undoing
<1> QED BY <1>1, <1>2 DEF Init, Undisturbed, LeftFor, Clearing

\* The account of what is locked, through one reorganisation.
LockInv ==
    Quiet => Undisturbed /\ LockSums /\ \E c \in Chains : LeftFor(c) /\ Removals(c)

\* In the middle of a posting or of a rollback as well, the principals in the locked value of
\* an address are those of its lockedTx documents with the inserts and removals in flight,
\* when no transaction is twice on a chain and the writes land within the minute.
THEOREM LockedValuesMatch ==
  ASSUME ~ SlowWrites, OncePerChain
  PROVE  Spec => []LockedMatchesLockDocs
<1>1. Init => Kept /\ LockInv
  <2> SUFFICES ASSUME Init PROVE LockInv
    BY KeptInit
  <2>1. LockSums
    <3> SUFFICES ASSUME NEW d \in Single
                 PROVE  locked[d] - lockSeen[d]
                           = lockDocs[d] + flight.lockIn[d] - flight.lockOut[d]
      BY DEF LockSums
    <3>1. d \in Docs
      BY DEF Single
    <3> QED BY <3>1, ZeroType DEF Init, NoFlight
  <2>2. Removals(InitChain)
    <3>1. \A d \in Single : flight.lockOut[d] = 0
      BY ZeroType DEF Init, NoFlight, Single
    <3> QED BY <3>1 DEF Removals
  <2> QED BY <2>1, <2>2, ForkInit, ChainAssumption DEF LockInv
<1>2. Kept /\ LockInv /\ [Next]_vars => (Kept /\ LockInv)'
  <2> SUFFICES ASSUME Kept, LockInv, [Next]_vars PROVE LockInv'
    BY KeptNext
  <2> SUFFICES ASSUME Quiet'
               PROVE  /\ Undisturbed' /\ LockSums'
                      /\ \E e \in Chains : LeftFor(e)' /\ Removals(e)'
    BY DEF LockInv
  <2>1. TypeOK /\ Accounted /\ LockCounts /\ NoRepeat(stale) /\ OneBlock
    BY DEF Kept
  <2>2. Quiet
    BY <2>1, QuietBefore
  <2>3. Undisturbed /\ LockSums
    BY <2>2 DEF LockInv
  <2>4. PICK c \in Chains : LeftFor(c) /\ Removals(c)
    BY <2>2 DEF LockInv
  <2>5. PICK e \in Chains : LeftFor(e)' /\ Gone(c) \subseteq Gone(e)'
    BY <2>1, <2>3, <2>4, ForkNext
  <2>6. Undisturbed'
    BY <2>1, <2>3, <2>4, UndisturbedNext
  <2>7. LockSums'
    BY <2>1, <2>3, <2>4, LockSumsNext
  <2>8. Removals(e)'
    BY <2>1, <2>3, <2>4, <2>5, RemovalsNext
  <2> QED BY <2>5, <2>6, <2>7, <2>8
<1>3. Kept /\ LockInv => LockedMatchesLockDocs
  BY DEF LockInv, LockSums, Quiet, Single, LockedMatchesLockDocs
<1> QED BY <1>1, <1>2, <1>3, PTL DEF Spec

-----------------------------------------------------------------------------
(* What can be taken back.                                                 *)

\* A block no chain of its height goes without.
Final(b) == \A c \in Chains : HeightOf[b] <= Len(c) => c[HeightOf[b]] = b

\* Of the noted blocks the window drops only those no reorganisation can reach.  (The others
\* go when they have been replaced.)
DropsFinal ==
    \A b \in Elements(blockDocs) \ Elements(blockDocs') : Final(b) \/ b \in flight.blockOut

\* The blocks that are noted to stay, and those that need not be.
Staying == (Elements(blockDocs) \union flight.blockIn) \ flight.blockOut
Safe(b) == b \in Staying \/ (Final(b) /\ b \in Elements(chain))

\* The walk posts transactions of one such block; of the chain, when it replaces another.
FromOne ==
    IF pc \in {"entry", "record"}
    THEN \E b \in Blocks :
            /\ Safe(b) /\ (mode = "clear" => b \in Elements(chain))
            /\ \A t \in Elements(work) : InSeq(t, BlockTxs[b])
            /\ \A e \in Elements(todo) : InSeq(e.tx, BlockTxs[b])
    ELSE todo = <<>>

\* What is recorded of the block being replaced is still to be taken back, or, when that is
\* done, on the chain.
TakenBack ==
    Clearing =>
        \A d \in recorded : InSeq(d.txid, BlockTxs[Head(stale)]) =>
            IF Undoing THEN d \in undo \/ InSeq(d.txid, work) ELSE OnChain(d.txid)

\* What is recorded is of such a block, or was found on the chain when its block was replaced.
Tracked ==
    \A d \in recorded :
        \/ reorgs = 1 /\ OnChain(d.txid)
        \/ \E b \in Blocks : Safe(b) /\ InSeq(d.txid, BlockTxs[b])

TrackInv ==
    Quiet => Undisturbed /\ FromOne /\ TakenBack /\ Tracked /\ \E c \in Chains : LeftFor(c)

\* A block no chain goes without stays on the chain.
LEMMA FinalStays ==
    ASSUME NEW d \in Chains, NEW e \in Chains, Len(d) <= Len(e), NEW b, b \in Elements(d), Final(b)
    PROVE  b \in Elements(e)
<1>1. Len(d) \in Nat /\ Len(e) \in Nat
  BY ChainAssumption, LenProperties
<1>2. HeightOf[b] \in 1..Len(d)
  BY AtItsHeight
<1>3. HeightOf[b] \in 1..Len(e) /\ HeightOf[b] <= Len(e)
  BY <1>1, <1>2
<1>4. e[HeightOf[b]] = b
  BY <1>3 DEF Final
<1> QED BY <1>3, <1>4 DEF Elements

\* An insert in flight is there until the block is noted.
LEMMA InsertsLand ==
    ASSUME TypeOK, Sync \/ Walk \/ Deliver \/ Idles \/ (Clear /\ ~ ScanThrows)
    PROVE  flight.blockIn \subseteq flight'.blockIn \union Elements(blockDocs')
<1> USE DEF env, records, book, writes, process
<1>0. /\ blockDocs \in Seq(Blocks)
      /\ flight \in [blockIn: SUBSET Blocks, blockOut: SUBSET Blocks,
                     lockIn: [Docs -> Int], lockOut: [Docs -> Int]]
  BY DEF TypeOK, StoreTypeOK
<1>1. CASE Sync
  BY <1>1 DEF Sync, ReadHeights, NextBlock, SyncDone
<1>2. CASE Walk
  <2>1. FetchBlock => flight'.blockIn = flight.blockIn \union {chain[db]}
    BY <1>0 DEF FetchBlock
  <2>2. NextTx \/ SkipEntry \/ RecordEntry => flight' = flight
    BY DEF NextTx, SkipEntry, RecordEntry
  <2>3. PostEntry => flight'.blockIn = flight.blockIn
    BY <1>0 DEF PostEntry, Post
  <2>4. BlockDone => flight' = flight \/ flight' = StaleRemoved
    BY DEF BlockDone
  <2>5. flight' = StaleRemoved => flight'.blockIn = flight.blockIn
    BY <1>0 DEF StaleRemoved
  <2> QED BY <1>2, <2>1, <2>2, <2>3, <2>4, <2>5 DEF Walk
<1>3. CASE Clear /\ ~ ScanThrows
  <2>1. UndoRecord => flight'.blockIn = flight.blockIn
    BY <1>0 DEF UndoRecord
  <2>2. ~ UndoRecord => flight' = flight
    BY <1>3 DEF Clear, Tick, ScanMatch, ScanMismatch, ScanDone, UndoTx, UndoSum, UndoDone
  <2> QED BY <2>1, <2>2
<1>4. CASE DeliverBlockIn
  <2>1. PICK b \in flight.blockIn : /\ blockDocs' \in Inserted(b)
                                   /\ flight' = [flight EXCEPT !.blockIn = @ \ {b}]
    BY <1>4 DEF DeliverBlockIn
  <2>2. flight'.blockIn = flight.blockIn \ {b}
    BY <1>0, <2>1
  <2>3. b \in Elements(blockDocs')
    <3>1. CASE InSeq(b, blockDocs)
      BY <2>1, <3>1 DEF Inserted, InSeq
    <3>2. CASE ~ InSeq(b, blockDocs)
      <4>1. PICK s \in Seq(Blocks) : blockDocs' = Append(s, b)
        <5>1. blockDocs # <<>> => Tail(blockDocs) \in Seq(Blocks)
          BY <1>0, HeadTailProperties
        <5> QED BY <1>0, <2>1, <3>2, <5>1 DEF Inserted
      <4>2. b \in Blocks
        BY <1>0
      <4>3. Len(blockDocs') = Len(s) + 1 /\ blockDocs'[Len(s) + 1] = b /\ Len(s) \in Nat
        BY <4>1, <4>2, AppendProperties, LenProperties
      <4>4. Len(s) + 1 \in 1..Len(blockDocs')
        BY <4>3
      <4> QED BY <4>3, <4>4 DEF Elements
    <3> QED BY <3>1, <3>2
  <2> QED BY <2>2, <2>3
<1>5. CASE DeliverCursor \/ DeliverBlockOut \/ DeliverLockIn \/ DeliverLockOut
  BY <1>0, <1>5 DEF DeliverCursor, DeliverBlockOut, DeliverLockIn, DeliverLockOut
<1>6. CASE Idles
  BY <1>6 DEF Idles, Restart, FetchRaw, vars
<1> QED BY <1>1, <1>2, <1>3, <1>4, <1>5, <1>6 DEF Deliver

\* The chain does not get shorter.
LEMMA NotShorter ==
    ASSUME TypeOK, NEW c \in Chains, LeftFor(c), Undisturbed, [Next]_vars, Quiet'
    PROVE  chain \in Chains /\ chain' \in Chains /\ Len(chain) <= Len(chain')
<1>1. TypeOK'
  BY TypeNext
<1>2. chain \in Chains /\ chain' \in Chains /\ Len(chain) \in Nat /\ Len(chain') \in Nat
  BY <1>1, ChainAssumption, LenProperties DEF TypeOK, StoreTypeOK
<1>3. Mine \/ Reorganize => Len(chain) <= Len(chain')
  BY <1>2 DEF Mine, Reorganize, IsPrefixOf
<1> QED BY <1>2, <1>3, CalmSteps

\* A block is dropped when it has been replaced, and otherwise by the window only.
LEMMA SafeNext ==
    ASSUME TypeOK, NEW c \in Chains, LeftFor(c), Undisturbed, [Next]_vars, Quiet', DropsFinal,
           NEW b, Safe(b), ~ (BlockDone /\ mode = "clear" /\ b = Head(stale))
    PROVE  Safe(b)'
<1> USE DEF env, records, book, writes, process
<1>1. chain \in Chains /\ chain' \in Chains /\ Len(chain) <= Len(chain')
  BY NotShorter
<1>2. CASE Final(b) /\ b \in Elements(chain)
  <2>1. b \in Elements(chain')
    BY <1>1, <1>2, FinalStays
  <2> QED BY <1>2, <2>1 DEF Safe, Final
<1>3. CASE b \in Staying
  <2>1. CASE Mine \/ Reorganize
    BY <1>3, <2>1 DEF Mine, Reorganize, Staying, Safe
  <2>2. CASE Sync \/ Walk \/ Deliver \/ Idles \/ (Clear /\ ~ ScanThrows)
    <3>1. b \notin flight'.blockOut
      BY <1>3, <2>2, NotedSteps DEF Staying
    <3>2. CASE b \in flight.blockIn
      <4>1. b \in flight'.blockIn \union Elements(blockDocs')
        BY <2>2, <3>2, InsertsLand
      <4> QED BY <3>1, <4>1 DEF Safe, Staying
    <3>3. CASE b \in Elements(blockDocs) /\ b \in Elements(blockDocs')
      BY <3>1, <3>3 DEF Safe, Staying
    <3>4. CASE b \in Elements(blockDocs) /\ b \notin Elements(blockDocs')
      <4>1. Final(b)
        BY <1>3, <3>4 DEF DropsFinal, Staying
      <4>2. b \in Elements(c) \union Elements(chain) /\ Len(c) <= Len(chain)
        BY <3>4 DEF LeftFor, Noted
      <4>3. b \in Elements(chain)
        BY <1>1, <4>1, <4>2, FinalStays
      <4>4. b \in Elements(chain')
        BY <1>1, <4>1, <4>3, FinalStays
      <4> QED BY <4>1, <4>4 DEF Safe, Final
    <3> QED BY <1>3, <3>2, <3>3, <3>4 DEF Staying
  <2> QED BY <2>1, <2>2, CalmSteps
<1> QED BY <1>2, <1>3 DEF Safe

\* A block is replaced after the reorganisation.
LEMMA ClearingOnce ==
    ASSUME TypeOK, NEW c \in Chains, LeftFor(c), Quiet, Clearing
    PROVE  reorgs = 1
<1>1. Head(stale) \in Elements(c) /\ Head(stale) \notin Elements(chain)
  BY DEF LeftFor, Gone
<1>2. reorgs # 0
  BY <1>1 DEF LeftFor
<1> QED BY <1>2 DEF Quiet, TypeOK, StoreTypeOK

\* From then on what is on the chain stays there.
LEMMA OnChainStays ==
    ASSUME TypeOK, NEW c \in Chains, LeftFor(c), Undisturbed, [Next]_vars, Quiet', reorgs = 1,
           NEW t, OnChain(t)
    PROVE  reorgs' = 1 /\ OnChain(t)'
<1>1. chain \in Chains /\ chain' \in Chains
  BY NotShorter
<1>2. ~ Reorganize
  BY DEF Reorganize, Quiet
<1>3. CASE Mine
  BY <1>1, <1>3, OnChainKept DEF Mine
<1>4. CASE UNCHANGED <<chain, reorgs>>
  BY <1>4 DEF OnChain, InSeq
<1> QED BY <1>2, <1>3, <1>4, CalmSteps

\* The steps that touch the records, and all others.
LEMMA RecordSteps ==
    ASSUME TypeOK, [Next]_vars
    PROVE  \/ RecordEntry
           \/ UndoRecord
           \/ UNCHANGED recorded
<1> USE DEF env, records, book, writes, process
<1>1. Sync => UNCHANGED recorded
  BY DEF Sync, ReadHeights, NextBlock, SyncDone
<1>2. FetchBlock \/ NextTx \/ SkipEntry \/ PostEntry \/ BlockDone => UNCHANGED recorded
  BY DEF FetchBlock, NextTx, SkipEntry, PostEntry, BlockDone
<1>3. Tick \/ ScanMatch \/ ScanMismatch \/ ScanThrows \/ ScanDone => UNCHANGED recorded
  BY DEF Tick, ScanMatch, ScanMismatch, ScanThrows, ScanDone, Stop
<1>4. UndoTx \/ UndoSum \/ UndoDone => UNCHANGED recorded
  BY DEF UndoTx, UndoSum, UndoDone
<1>5. Failures => UNCHANGED recorded
  BY DEF Failures, ReadHeightsFails, FetchBlockFails, NextTxFails, ScanFails, Abort, Stop
<1>6. Deliver => UNCHANGED recorded
  BY DEF Deliver, DeliverCursor, DeliverBlockIn, DeliverBlockOut, DeliverLockIn, DeliverLockOut
<1>7. Environment => UNCHANGED recorded
  BY DEF Environment, Mine, Reorganize, FetchRaw, Crash, Restart, Stop
<1>8. UNCHANGED vars => UNCHANGED recorded
  BY DEF vars
<1> QED BY <1>1, <1>2, <1>3, <1>4, <1>5, <1>6, <1>7, <1>8 DEF Next, Walk, Clear

\* What is about to be recorded.
LEMMA AboutToRecord ==
    ASSUME TypeOK, RecordEntry
    PROVE  /\ pc = "record" /\ pc' = "entry" /\ todo # <<>> /\ todo \in Seq(AllEntries)
           /\ todo' = Tail(todo) /\ UNCHANGED <<mode, work, stale, undo, chain, reorgs>>
           /\ recorded' = recorded \union {Doc(Head(todo))}
           /\ Doc(Head(todo)).txid = Head(todo).tx /\ Head(todo).tx \in TxIds
           /\ Head(todo) \in Elements(todo) /\ Elements(todo') \subseteq Elements(todo)
<1>1. /\ pc = "record" /\ pc' = "entry" /\ todo # <<>> /\ todo \in Seq(AllEntries)
      /\ todo' = Tail(todo) /\ UNCHANGED <<mode, work, stale, undo, chain, reorgs>>
      /\ recorded' = recorded \union {Doc(Head(todo))}
      /\ Head(todo) \in Entries
  BY DEF RecordEntry, TypeOK, ProcessTypeOK, PlaceOK, env
<1>2. Doc(Head(todo)).txid = Head(todo).tx /\ Head(todo).tx \in TxIds
  BY <1>1, EntryFields
<1>3. Head(todo) \in Elements(todo) /\ Elements(todo') \subseteq Elements(todo)
  BY <1>1, HeadAndTail
<1> QED BY <1>1, <1>2, <1>3

\* Nothing recorded is lost sight of.
LEMMA TrackedNext ==
    ASSUME TypeOK, NEW c \in Chains, LeftFor(c), Undisturbed, [Next]_vars, Quiet', DropsFinal,
           FromOne, TakenBack, Tracked
    PROVE  Tracked'
<1>0. Quiet
  BY CalmSteps
<1> SUFFICES ASSUME NEW d \in recorded'
             PROVE  \/ reorgs' = 1 /\ OnChain(d.txid)'
                    \/ \E b \in Blocks : Safe(b)' /\ InSeq(d.txid, BlockTxs[b])
  BY DEF Tracked
<1>1. CASE d \in recorded
  <2>1. CASE reorgs = 1 /\ OnChain(d.txid)
    BY <2>1, OnChainStays
  <2>2. CASE \E b \in Blocks : Safe(b) /\ InSeq(d.txid, BlockTxs[b])
    <3>1. PICK b \in Blocks : Safe(b) /\ InSeq(d.txid, BlockTxs[b])
      BY <2>2
    <3>2. CASE BlockDone /\ mode = "clear" /\ b = Head(stale)
      <4>1. Clearing /\ ~ Undoing
        BY <3>2 DEF BlockDone, Clearing, Replacing, Undoing
      <4>2. reorgs = 1
        BY <1>0, <4>1, ClearingOnce
      <4>3. OnChain(d.txid)
        BY <1>1, <3>1, <3>2, <4>1 DEF TakenBack
      <4> QED BY <4>2, <4>3, OnChainStays
    <3>3. CASE ~ (BlockDone /\ mode = "clear" /\ b = Head(stale))
      BY <3>1, <3>3, SafeNext
    <3> QED BY <3>2, <3>3
  <2> QED BY <1>1, <2>1, <2>2 DEF Tracked
<1>2. CASE d \notin recorded
  <2>1. RecordEntry
    BY <1>2, RecordSteps DEF UndoRecord
  <2>2. pc \in {"entry", "record"} /\ d = Doc(Head(todo)) /\ d.txid = Head(todo).tx
        /\ Head(todo) \in Elements(todo)
    BY <1>2, <2>1, AboutToRecord
  <2>3. PICK b \in Blocks : Safe(b) /\ \A e \in Elements(todo) : InSeq(e.tx, BlockTxs[b])
    BY <2>2 DEF FromOne
  <2>4. ~ BlockDone
    BY <2>1 DEF RecordEntry, BlockDone
  <2>5. Safe(b)'
    BY <2>3, <2>4, SafeNext
  <2> QED BY <2>2, <2>3, <2>5
<1> QED BY <1>1, <1>2

\* The steps of a walk through a block.
LEMMA HandSteps ==
    ASSUME TypeOK, todo = <<>> \/ pc \in {"entry", "record"}, [Next]_vars
    PROVE  \/ FetchBlock \/ NextTx \/ SkipEntry \/ RecordEntry
           \/ pc' \notin {"entry", "record"} /\ todo' = <<>>
           \/ pc' \in {"entry", "record"} /\ pc \in {"entry", "record"}
              /\ UNCHANGED <<work, todo, mode>>
<1> USE DEF env, records, book, writes, process
<1>1. Sync => pc' \notin {"entry", "record"} /\ todo' = <<>>
  BY DEF Sync, ReadHeights, NextBlock, SyncDone
<1>2. PostEntry => pc' \in {"entry", "record"} /\ pc \in {"entry", "record"}
                   /\ UNCHANGED <<work, todo, mode>>
  BY DEF PostEntry
<1>3. BlockDone => pc' \notin {"entry", "record"} /\ todo' = <<>>
  BY DEF BlockDone
<1>4. Clear => pc' \notin {"entry", "record"} /\ todo' = <<>>
  BY DEF Clear, Tick, ScanMatch, ScanMismatch, ScanThrows, ScanDone, UndoTx, UndoRecord, UndoSum,
         UndoDone, Stop
<1>5. Failures => pc' \notin {"entry", "record"} /\ todo' = <<>>
  BY DEF Failures, ReadHeightsFails, FetchBlockFails, NextTxFails, ScanFails, Abort, Stop
<1>6. Crash \/ Restart => pc' \notin {"entry", "record"} /\ todo' = <<>>
  BY DEF Crash, Restart, Stop
<1>7. Deliver \/ Mine \/ Reorganize \/ FetchRaw \/ UNCHANGED vars => UNCHANGED <<pc, work, todo, mode>>
  BY DEF Deliver, DeliverCursor, DeliverBlockIn, DeliverBlockOut, DeliverLockIn, DeliverLockOut,
         Mine, Reorganize, FetchRaw, vars
<1> QED BY <1>1, <1>2, <1>3, <1>4, <1>5, <1>6, <1>7 DEF Next, Walk, Environment

\* The block at hand stays noted.
LEMMA FromOneNext ==
    ASSUME TypeOK, NEW c \in Chains, LeftFor(c), Undisturbed, [Next]_vars, Quiet', DropsFinal,
           FromOne
    PROVE  FromOne'
<1> USE DEF records, book, writes, process
<1>0. /\ Quiet /\ work \in Seq(TxIds) /\ todo \in Seq(AllEntries)
      /\ chain \in Chains /\ chain' \in Chains
      /\ flight \in [blockIn: SUBSET Blocks, blockOut: SUBSET Blocks,
                     lockIn: [Docs -> Int], lockOut: [Docs -> Int]]
  BY CalmSteps, NotShorter DEF TypeOK, StoreTypeOK, ProcessTypeOK
<1>1. todo = <<>> \/ pc \in {"entry", "record"}
  BY DEF FromOne
<1>2. CASE FetchBlock
  <2>1. PICK b : b = chain[db]
    OBVIOUS
  <2>2. /\ pc' = "entry" /\ todo' = todo /\ chain' = chain /\ work' = BlockTxs[b] /\ pc = "fetch"
        /\ flight' = [flight EXCEPT !.blockIn = @ \union {b}] /\ blockDocs' = blockDocs
        /\ b \in Elements(chain) /\ b \in Blocks
    BY <1>0, <1>2, <2>1, ChainAssumption, ElementOfSeq DEF FetchBlock, Elements, env
  <2>3. todo' = <<>> /\ Elements(todo') = {}
    BY <1>1, <2>2, NoElements
  <2>4. b \in flight'.blockIn /\ flight'.blockOut = flight.blockOut /\ b \notin flight.blockOut
    BY <1>0, <2>2 DEF LeftFor, Gone
  <2>5. Safe(b)'
    BY <2>4 DEF Safe, Staying
  <2>6. b \in Elements(chain') /\ (\A t \in Elements(work') : InSeq(t, BlockTxs[b]))
    BY <2>2 DEF InSeq
  <2> QED BY <2>2, <2>3, <2>5, <2>6 DEF FromOne
<1>3. CASE pc' \notin {"entry", "record"} /\ todo' = <<>>
  BY <1>3 DEF FromOne
<1>4. CASE pc \in {"entry", "record"} /\ pc' \in {"entry", "record"}
  <2>1. PICK b \in Blocks :
            /\ Safe(b) /\ (mode = "clear" => b \in Elements(chain))
            /\ \A t \in Elements(work) : InSeq(t, BlockTxs[b])
            /\ \A e \in Elements(todo) : InSeq(e.tx, BlockTxs[b])
    BY <1>4 DEF FromOne
  <2>2. ~ BlockDone
    BY <1>4 DEF BlockDone
  <2>3. Safe(b)'
    BY <2>1, <2>2, SafeNext
  <2>4. /\ mode' = mode
        /\ \A t \in Elements(work') : InSeq(t, BlockTxs[b])
        /\ \A e \in Elements(todo') : InSeq(e.tx, BlockTxs[b])
    <3>1. CASE NextTx
      <4>1. /\ work # <<>> /\ work' = Tail(work) /\ mode' = mode
            /\ todo' = <<>> \/ todo' = Plan[Head(work)]
        BY <3>1 DEF NextTx
      <4>2. Head(work) \in Elements(work) /\ Elements(work') \subseteq Elements(work)
            /\ Head(work) \in TxIds
        BY <1>0, <4>1, HeadAndTail
      <4>3. \A e \in Elements(todo') : e.tx = Head(work)
        <5>1. todo' = <<>> => Elements(todo') = {}
          BY NoElements
        <5>2. \A e \in Elements(Plan[Head(work)]) : e.tx = Head(work)
          BY <4>2, PlanAssumption DEF Elements
        <5> QED BY <4>1, <5>1, <5>2
      <4> QED BY <2>1, <4>1, <4>2, <4>3
    <3>2. CASE SkipEntry
      <4>1. todo # <<>> /\ todo' = Tail(todo) /\ UNCHANGED <<work, mode>>
        BY <3>2 DEF SkipEntry
      <4>2. Elements(todo') \subseteq Elements(todo)
        BY <1>0, <4>1, HeadAndTail
      <4> QED BY <2>1, <4>1, <4>2
    <3>3. CASE RecordEntry
      BY <2>1, <3>3, AboutToRecord
    <3>4. CASE UNCHANGED <<work, todo, mode>>
      BY <2>1, <3>4
    <3>5. ~ FetchBlock
      BY <1>4 DEF FetchBlock
    <3> QED BY <1>1, <1>4, <3>1, <3>2, <3>3, <3>4, <3>5, HandSteps
  <2>5. mode' = "clear" => b \in Elements(chain')
    <3> SUFFICES ASSUME mode = "clear" PROVE b \in Elements(chain')
      BY <2>4
    <3>1. Clearing
      BY <1>4 DEF Clearing, Replacing
    <3>2. reorgs = 1
      BY <1>0, <3>1, ClearingOnce
    <3>3. ~ Reorganize
      BY <3>2 DEF Reorganize, Quiet
    <3>4. Mine => Elements(chain) \subseteq Elements(chain')
      BY <1>0, PrefixElements DEF Mine
    <3> QED BY <2>1, <3>3, <3>4, CalmSteps
  <2> QED BY <1>4, <2>3, <2>4, <2>5 DEF FromOne
<1>5. NextTx \/ SkipEntry \/ RecordEntry => pc \in {"entry", "record"} /\ pc' \in {"entry", "record"}
  BY DEF NextTx, SkipEntry, RecordEntry
<1> QED BY <1>1, <1>2, <1>3, <1>4, <1>5, HandSteps

\* It is taken back until nothing of it is left.
LEMMA UndoEnds ==
    ASSUME TypeOK, Clearing, ~ BlockDone, ~ UndoDone, Undoing,
           Mine \/ Reorganize \/ Sync \/ Walk \/ Deliver \/ Idles \/ (Clear /\ ~ ScanThrows)
    PROVE  Undoing'
<1> USE DEF env, records, book, writes, process, Undoing
<1>1. ~ Sync /\ ~ Walk
  BY DEF Sync, ReadHeights, NextBlock, SyncDone,
         Walk, FetchBlock, NextTx, SkipEntry, PostEntry, RecordEntry, BlockDone
<1>2. Clear /\ ~ ScanThrows => Undoing'
  BY DEF Clear, Tick, ScanMatch, ScanMismatch, ScanDone, UndoTx, UndoRecord, UndoSum
<1>3. Deliver \/ Mine \/ Reorganize => Undoing'
  BY DEF Deliver, DeliverCursor, DeliverBlockIn, DeliverBlockOut, DeliverLockIn, DeliverLockOut,
         Mine, Reorganize
<1>4. Idles => Undoing'
  BY DEF Idles, Restart, FetchRaw, vars
<1> QED BY <1>1, <1>2, <1>3, <1>4

\* A block is taken back to the last record before the next one is posted.
LEMMA TakenBackNext ==
    ASSUME TypeOK, WindowsMatchRecords, NEW c \in Chains, LeftFor(c), Undisturbed, [Next]_vars,
           Quiet', FromOne, TakenBack
    PROVE  TakenBack'
<1> USE DEF records, book, writes, process
<1>0. Quiet /\ work \in Seq(TxIds)
  BY CalmSteps DEF TypeOK, ProcessTypeOK
<1>1. CASE ScanMismatch
  <2>1. /\ UNCHANGED <<recorded, stale>> /\ work' = BlockTxs[Head(stale)] /\ Undoing'
    BY <1>1 DEF ScanMismatch, Undoing
  <2> QED BY <2>1 DEF TakenBack
<1>2. CASE ~ Clearing'
  BY <1>2 DEF TakenBack
<1>3. CASE Clearing /\ ~ BlockDone /\ ~ ScanMismatch
  <2>1. reorgs = 1
    BY <1>0, <1>3, ClearingOnce
  <2>2. \A t : OnChain(t) => OnChain(t)'
    BY <2>1, OnChainStays
  <2>3. UNCHANGED stale
    BY <1>3, CalmSteps, ClearingSteps
  <2> SUFFICES ASSUME NEW d \in recorded', InSeq(d.txid, BlockTxs[Head(stale)])
               PROVE  IF Undoing' THEN d \in undo' \/ InSeq(d.txid, work') ELSE OnChain(d.txid)'
    BY <2>3 DEF TakenBack, InSeq
  <2>4. d \in recorded => IF Undoing THEN d \in undo \/ InSeq(d.txid, work) ELSE OnChain(d.txid)
    BY <1>3 DEF TakenBack
  <2>5. CASE UndoTx
    <3>1. /\ recorded' = recorded /\ Undoing /\ Undoing' /\ undo = {} /\ work # <<>>
          /\ undo' = RecordsOf(Head(work)) /\ work' = Tail(work)
      BY <2>5 DEF UndoTx, Undoing
    <3>2. Elements(work) = {Head(work)} \union Elements(work')
      BY <1>0, <3>1, HeadAndTail
    <3>3. d.txid = Head(work) \/ InSeq(d.txid, work')
      BY <2>4, <3>1, <3>2 DEF InSeq
    <3> QED BY <3>1, <3>3 DEF RecordsOf
  <2>6. CASE UndoRecord
    <3>1. recorded' \subseteq recorded /\ Undoing /\ Undoing' /\ UNCHANGED <<undo, work>>
      BY <2>6 DEF UndoRecord, Undoing
    <3> QED BY <2>4, <3>1
  <2>7. CASE UndoSum
    <3>1. /\ recorded' = recorded /\ Undoing /\ Undoing' /\ undo' = undo \ {doc} /\ work' = work
          /\ doc \notin recorded
      BY <2>7 DEF UndoSum, Undoing, WindowsMatchRecords
    <3> QED BY <2>4, <3>1
  <2>8. CASE UndoDone
    <3>1. recorded' = recorded /\ Undoing /\ undo = {} /\ work = <<>>
      BY <2>8 DEF UndoDone, Undoing
    <3>2. ~ InSeq(d.txid, work)
      BY <3>1, NoElements DEF InSeq
    <3> QED BY <2>4, <3>1, <3>2
  <2>9. CASE RecordEntry
    <3>1. /\ pc = "record" /\ pc' = "entry"
          /\ d \in recorded \/ d.txid = Head(todo).tx
          /\ Head(todo) \in Elements(todo)
      BY <2>9, AboutToRecord
    <3>2. ~ Undoing /\ ~ Undoing' /\ mode = "clear"
      BY <1>3, <3>1 DEF Undoing, Clearing
    <3>3. CASE d \in recorded
      BY <2>2, <2>4, <3>2, <3>3
    <3>4. CASE d.txid = Head(todo).tx
      <4>1. PICK b \in Blocks : b \in Elements(chain) /\ InSeq(d.txid, BlockTxs[b])
        BY <3>1, <3>2, <3>4 DEF FromOne
      <4>2. OnChain(d.txid)
        BY <4>1 DEF OnChain, Elements
      <4> QED BY <2>2, <3>2, <4>2
    <3> QED BY <3>1, <3>3, <3>4
  <2>10. CASE ~ (UndoTx \/ UndoRecord \/ UndoSum \/ UndoDone \/ RecordEntry)
    <3>1. recorded' = recorded
      BY <2>10, RecordSteps
    <3>2. CASE Undoing'
      <4>1. Undoing /\ UNCHANGED <<undo, work>>
        BY <1>3, <2>10, <3>2, UndoSteps
      <4> QED BY <2>4, <3>1, <3>2, <4>1
    <3>3. CASE ~ Undoing'
      <4>1. ~ Undoing
        BY <1>3, <2>10, <3>3, CalmSteps, UndoEnds
      <4> QED BY <2>2, <2>4, <3>1, <3>3, <4>1
    <3> QED BY <3>2, <3>3
  <2> QED BY <2>5, <2>6, <2>7, <2>8, <2>9, <2>10
<1>4. BlockDone => ~ Clearing'
  BY DEF BlockDone, Clearing, Replacing, Undoing
<1>5. Clearing \/ ScanMismatch \/ ~ Clearing'
  <2>1. Mine \/ Reorganize => Clearing' = Clearing
    BY DEF Mine, Reorganize, Clearing, Replacing, Undoing
  <2> QED BY <2>1, CalmSteps, NotedSteps
<1> QED BY <1>1, <1>2, <1>3, <1>4, <1>5

\* The invariant at the start,
LEMMA TrackInit == Init => TrackInv
<1> SUFFICES ASSUME Init PROVE TrackInv
  OBVIOUS
<1>1. FromOne /\ TakenBack /\ Tracked
  BY DEF Init, FromOne, TakenBack, Tracked, Clearing
<1> QED BY <1>1, ForkInit, ChainAssumption DEF Init, TrackInv

\* and after a step in which the window drops nothing that can be left.
LEMMA TrackNext == Kept /\ TrackInv /\ [Next]_vars /\ DropsFinal => TrackInv'
<1> SUFFICES ASSUME Kept, TrackInv, [Next]_vars, DropsFinal, Quiet'
             PROVE  /\ Undisturbed' /\ FromOne' /\ TakenBack' /\ Tracked'
                    /\ \E c \in Chains : LeftFor(c)'
  BY DEF TrackInv
<1>1. TypeOK /\ WindowsMatchRecords
  BY DEF Kept, Accounted
<1>2. Undisturbed /\ FromOne /\ TakenBack /\ Tracked /\ \E c \in Chains : LeftFor(c)
  BY <1>1, QuietBefore DEF TrackInv
<1>3. PICK c \in Chains : LeftFor(c)
  BY <1>2
<1>4. \E e \in Chains : LeftFor(e)'
  BY <1>1, <1>2, <1>3, ForkNext
<1> QED BY <1>1, <1>2, <1>3, <1>4, UndisturbedNext, FromOneNext, TakenBackNext, TrackedNext

\* While nothing fails, through one reorganisation: as long as the window of 300 documents drops
\* only blocks that no reorganisation reaches, whatever is recorded is on the chain or in a block
\* whose document is kept or on its way, so that clearErrorData will find it.
THEOREM OrphansStayTracked ==
  Spec /\ [][DropsFinal]_vars => [](Quiet => OrphansAreTracked)
<1>1. Init => Kept /\ TrackInv
  BY KeptInit, TrackInit
<1>2. (Kept /\ TrackInv) /\ [Next]_vars /\ [DropsFinal]_vars => (Kept /\ TrackInv)'
  <2>1. UNCHANGED vars => DropsFinal
    BY DEF vars, writes, DropsFinal
  <2> QED BY <2>1, KeptNext, TrackNext
<1>3. Kept /\ TrackInv => (Quiet => OrphansAreTracked)
  <2> SUFFICES ASSUME Kept, TrackInv, Quiet, NEW d \in recorded, ~ OnChain(d.txid)
               PROVE  \E b \in Elements(blockDocs) \union flight.blockIn : InSeq(d.txid, BlockTxs[b])
    BY DEF OrphansAreTracked
  <2>1. PICK b \in Blocks : Safe(b) /\ InSeq(d.txid, BlockTxs[b])
    BY DEF TrackInv, Tracked
  <2>2. b \notin Elements(chain)
    BY <2>1 DEF OnChain, Elements
  <2> QED BY <2>1, <2>2 DEF Safe, Staying
<1> QED BY <1>1, <1>2, <1>3, PTL DEF Spec

-----------------------------------------------------------------------------
(* What a reader finds after a reorganisation.                             *)

\* A transaction of two blocks has the same height in both.
StaysInPlace ==
    \A b, x \in Blocks : \A t \in TxIds :
        InSeq(t, BlockTxs[b]) /\ InSeq(t, BlockTxs[x]) => HeightOf[b] = HeightOf[x]

\* A block of the chain that is noted is recorded in full, or what is missing of it is at
\* hand, or taken back with the block it replaces and about to be posted again.
AtHand(b) == pc \in {"entry", "record"} /\ HeightOf[b] = db /\ Left(b, recorded, work, todo)
ToRepost(b) == Clearing /\ pc \notin {"entry", "record"} /\ HeightOf[b] = db
NotedPosted ==
    \A b \in Noted : b \in Elements(chain) =>
        PostedIn(b, recorded) \/ AtHand(b) \/ ToRepost(b)

\* The history of an address names what is posted to it, each transaction once, except the one
\* that is being taken back.
ForkHistories ==
    /\ \A a \in Addrs : /\ NoRepeat(txs[a])
                        /\ \A t \in Elements(txs[a]) :
                              \E d \in Docs : d.address = a /\ d.txid = t /\ Due(d) = 1
    /\ \A d \in Docs : Due(d) = 1 => d \in undo \/ InSeq(d.txid, txs[d.address])
    /\ \A x \in undo : \A d \in recorded : d.txid = x.txid => d \in undo

SettleInv ==
    Quiet => /\ Undisturbed /\ rawCached = {} /\ NotedPosted
             /\ \E c \in Chains : LeftFor(c)

\* What is recorded stays so while nothing is taken back.
LEMMA StaysPosted ==
    ASSUME NEW b, NEW p, NEW q, p \subseteq q, PostedIn(b, p)
    PROVE  PostedIn(b, q)
BY DEF PostedIn

\* Taking a block back takes nothing from a block of another height.
LEMMA OthersStayPosted ==
    ASSUME StaysInPlace, TypeOK, WindowsMatchRecords, OneBlock, NEW c \in Chains, LeftFor(c),
           UndoRecord, NEW b \in Blocks, PostedIn(b, recorded)
    PROVE  PostedIn(b, recorded') \/ HeightOf[b] = db
<1>1. /\ Clearing /\ Undoing /\ stale # <<>> /\ stale \in Seq(Blocks)
  BY DEF UndoRecord, Clearing, Replacing, Undoing, TypeOK, ProcessTypeOK, PlaceOK
<1>2. Head(stale) \in Blocks /\ HeightOf[Head(stale)] = db
  BY <1>1, HeadTailProperties DEF LeftFor
<1>3. PICK d \in undo : recorded' = recorded \ {d}
  BY DEF UndoRecord
<1>4. d \in Docs /\ InSeq(d.txid, BlockTxs[Head(stale)])
  BY <1>1, <1>3 DEF OneBlock, TypeOK, ProcessTypeOK
<1> SUFFICES ASSUME HeightOf[b] # db, NEW i \in 1..Len(BlockTxs[b]), NEW e \in Entries,
                    e.tx = BlockTxs[b][i], Doc(e) \notin recorded'
             PROVE  FALSE
  BY DEF PostedIn
<1>5. Doc(e) = d
  BY <1>3 DEF PostedIn
<1>6. d.txid = e.tx /\ e.tx \in TxIds
  BY <1>5, EntryFields
<1>7. InSeq(e.tx, BlockTxs[b])
  BY DEF InSeq, Elements
<1> QED BY <1>2, <1>4, <1>6, <1>7 DEF StaysInPlace

\* The steps that record, take back or change the height at hand, and all others.
LEMMA PlaceSteps ==
    ASSUME TypeOK, Sync \/ Walk \/ Deliver \/ Idles \/ (Clear /\ ~ ScanThrows)
    PROVE  \/ FetchBlock \/ NextTx \/ SkipEntry \/ PostEntry \/ RecordEntry \/ BlockDone \/ UndoRecord
           \/ /\ UNCHANGED <<recorded, work, todo, db, mode, pc>>
           \/ /\ UNCHANGED <<recorded, db, mode>> /\ pc \in {"undo", "undoSum"}
              /\ pc' \in {"undo", "undoSum", "fetch"}
           \/ /\ UNCHANGED recorded
              /\ pc \notin {"undo", "undoSum", "entry", "record"}
              /\ ~ Clearing
<1> USE DEF env, records, book, writes, process
<1>1. CASE Sync
  BY <1>1 DEF Sync, ReadHeights, NextBlock, SyncDone, Clearing, Replacing, Undoing
<1>2. CASE Deliver
  BY <1>2 DEF Deliver, DeliverCursor, DeliverBlockIn, DeliverBlockOut, DeliverLockIn, DeliverLockOut
<1>3. CASE Idles
  <2>1. Restart => UNCHANGED recorded /\ pc = "down"
    BY DEF Restart
  <2>2. FetchRaw \/ UNCHANGED vars => UNCHANGED <<recorded, work, todo, db, mode, pc>>
    BY DEF FetchRaw, vars
  <2> QED BY <1>3, <2>1, <2>2 DEF Idles, Clearing, Replacing, Undoing
<1>4. CASE Tick \/ ScanMatch \/ ScanMismatch \/ ScanDone
  <2>1. UNCHANGED recorded /\ pc \in {"idle", "scan"}
    BY <1>4 DEF Tick, ScanMatch, ScanMismatch, ScanDone
  <2> QED BY <2>1 DEF Clearing, Replacing, Undoing
<1>5. CASE UndoTx \/ UndoSum \/ UndoDone
  BY <1>5 DEF UndoTx, UndoSum, UndoDone
<1> QED BY <1>1, <1>2, <1>3, <1>4, <1>5 DEF Walk, Clear

\* Whatever is noted of the chain has been posted, or will be before the process rests.
LEMMA NotedPostedNext ==
    ASSUME StaysInPlace, RawFetchable = {}, TypeOK, WindowsMatchRecords, OneBlock,
           NEW c \in Chains, LeftFor(c), Undisturbed, [Next]_vars, Quiet',
           rawCached = {}, NotedPosted
    PROVE  NotedPosted'
<1> USE DEF records, book, writes, process
<1>0. /\ chain \in Chains /\ chain' \in Chains /\ Len(c) <= Len(chain)
      /\ Elements(c) \subseteq Blocks /\ Elements(chain) \subseteq Blocks
      /\ Noted \subseteq Elements(c) \union Elements(chain)
  <2>1. chain \in Chains /\ chain' \in Chains
    BY NotShorter
  <2>2. \A e \in Chains : Elements(e) \subseteq Blocks
    BY ChainAssumption, ElementOfSeq DEF Elements
  <2> QED BY <2>1, <2>2 DEF LeftFor
<1> SUFFICES ASSUME NEW b \in Noted', b \in Elements(chain')
             PROVE  PostedIn(b, recorded)' \/ AtHand(b)' \/ ToRepost(b)'
  BY DEF NotedPosted
<1>1. CASE Mine \/ Reorganize
  <2>1. UNCHANGED <<Noted, recorded, work, todo, db, pc, Clearing>>
    BY <1>1 DEF Mine, Reorganize, Noted, Clearing, Replacing, Undoing
  <2>2. b \in Elements(chain)
    <3>1. CASE Mine
      <4>1. Gone(c)' = Gone(c)
        BY <1>0, <3>1, StaysGone DEF Mine
      <4>2. b \notin Gone(c)
        BY <4>1 DEF Gone
      <4> QED BY <1>0, <2>1, <4>2 DEF Gone
    <3>2. CASE Reorganize
      <4>1. reorgs = 0
        BY <3>2 DEF Reorganize, Quiet, TypeOK, StoreTypeOK
      <4>2. c = chain
        BY <4>1 DEF LeftFor
      <4> QED BY <1>0, <2>1, <4>2
    <3> QED BY <1>1, <3>1, <3>2
  <2>3. PostedIn(b, recorded) \/ AtHand(b) \/ ToRepost(b)
    BY <2>1, <2>2 DEF NotedPosted
  <2> QED BY <2>1, <2>3 DEF AtHand, ToRepost, PostedIn, Left
<1>2. CASE UNCHANGED chain /\ (Sync \/ Walk \/ Deliver \/ Idles \/ (Clear /\ ~ ScanThrows))
  <2>1. b \in Elements(chain) /\ b \in Blocks
    BY <1>0, <1>2
  <2>2. CASE FetchBlock /\ b = chain[db]
    <3>1. /\ UNCHANGED <<recorded, db>> /\ pc' = "entry" /\ work' = BlockTxs[chain[db]]
          /\ db \in 1..Len(chain)
      BY <2>2 DEF FetchBlock
    <3>2. HeightOf[b] = db
      BY <1>0, <2>2, <3>1, ChainAssumption
    <3>3. Left(b, recorded', work', todo')
      BY <2>2, <3>1 DEF Left
    <3> QED BY <3>1, <3>2, <3>3 DEF AtHand
  <2>3. CASE ~ (FetchBlock /\ b = chain[db])
    <3>1. b \in Noted
      BY <1>2, <2>3, NotedSteps
    <3>2. PostedIn(b, recorded) \/ AtHand(b) \/ ToRepost(b)
      BY <2>1, <3>1 DEF NotedPosted
    <3>3. CASE FetchBlock
      <4>1. UNCHANGED recorded /\ pc = "fetch"
        BY <3>3 DEF FetchBlock
      <4>2. HeightOf[b] # db
        BY <1>0, <2>1, <2>3, <3>3, AtItsHeight
      <4> QED BY <3>2, <4>1, <4>2 DEF AtHand, ToRepost, PostedIn
    <3>4. CASE NextTx \/ SkipEntry \/ PostEntry \/ RecordEntry
      <4>1. /\ pc \in {"entry", "record"} /\ pc' \in {"entry", "record"} /\ db' = db
            /\ recorded \subseteq recorded'
        BY <3>4 DEF NextTx, SkipEntry, PostEntry, RecordEntry
      <4>2. CASE AtHand(b)
        BY <3>4, <4>1, <4>2, LeftShrinks DEF AtHand
      <4>3. CASE PostedIn(b, recorded)
        <5>1. PostedIn(b, recorded')
          BY <4>1, <4>3, StaysPosted
        <5> QED BY <5>1 DEF PostedIn
      <4> QED BY <3>2, <4>1, <4>2, <4>3 DEF ToRepost
    <3>5. CASE BlockDone
      <4>1. UNCHANGED recorded /\ work = <<>> /\ todo = <<>> /\ pc = "entry"
        BY <3>5 DEF BlockDone
      <4>2. AtHand(b) => PostedIn(b, recorded)
        <5> SUFFICES ASSUME AtHand(b), NEW i \in 1..Len(BlockTxs[b]), NEW e \in Entries,
                            e.tx = BlockTxs[b][i]
                     PROVE  Doc(e) \in recorded
          BY DEF PostedIn
        <5>1. e.tx \in Elements(BlockTxs[b])
          BY DEF Elements
        <5> QED BY <4>1, <5>1, NoElements DEF AtHand, Left
      <4> QED BY <3>2, <4>1, <4>2 DEF ToRepost, PostedIn
    <3>6. CASE UndoRecord
      <4>1. /\ Clearing /\ Clearing' /\ pc = "undo" /\ pc' = "undoSum" /\ db' = db
        BY <3>6 DEF UndoRecord, Clearing, Replacing, Undoing, TypeOK, PlaceOK
      <4>2. PostedIn(b, recorded) => PostedIn(b, recorded') \/ HeightOf[b] = db
        BY <2>1, <3>6, OthersStayPosted
      <4>3. PostedIn(b, recorded') => PostedIn(b, recorded)'
        BY DEF PostedIn
      <4> QED BY <3>2, <4>1, <4>2, <4>3 DEF AtHand, ToRepost
    <3>7. CASE UNCHANGED <<recorded, work, todo, db, mode, pc>>
      BY <3>2, <3>7 DEF PostedIn, AtHand, ToRepost, Left, Clearing, Replacing, Undoing
    <3>8. CASE /\ UNCHANGED <<recorded, db, mode>> /\ pc \in {"undo", "undoSum"}
               /\ pc' \in {"undo", "undoSum", "fetch"}
      BY <3>2, <3>8 DEF PostedIn, AtHand, ToRepost, Clearing, Replacing, Undoing
    <3>9. CASE /\ UNCHANGED recorded /\ ~ Clearing
               /\ pc \notin {"undo", "undoSum", "entry", "record"}
      BY <3>2, <3>9 DEF PostedIn, AtHand, ToRepost
    <3> QED BY <1>2, <3>3, <3>4, <3>5, <3>6, <3>7, <3>8, <3>9, PlaceSteps
  <2> QED BY <2>2, <2>3
<1> QED BY <1>1, <1>2, CalmSteps

\* While nothing crashes, what is posted is not in its sum yet: the index names something else.
LEMMA PostsAnew ==
    ASSUME TypeOK, Accounted, crashes = 0, NoDoubleSpend, PostEntry
    PROVE  ~ AlreadyLast(Head(todo))
<1>1. PICK e : e = Head(todo)
  OBVIOUS
<1>2. e \in Entries /\ Doc(e) \notin recorded /\ pc = "entry"
  BY <1>1 DEF PostEntry, TypeOK, ProcessTypeOK, Entries
<1>3. Doc(e) \in Docs /\ ~ Contested(Doc(e))
  BY <1>2, EntryFields DEF NoDoubleSpend
<1>4. Due(Doc(e)) = 0
  BY <1>2 DEF Due, Between
<1>5. amount[Doc(e)] \in Int /\ amount[Doc(e)] - 0 \in 0..0
  BY <1>3, <1>4 DEF Accounted, DriftBoundedByCrashes, TypeOK, StoreTypeOK
<1>6. ~ amount[Doc(e)] >= 1
  BY <1>5
<1>7. last[e.side][e.addr] # IndexOf(e)
  BY <1>2, <1>3, <1>6 DEF Accounted, LastIsPosted
<1> QED BY <1>1, <1>7 DEF AlreadyLast

\* The steps that change a history or what is due, and all others.
LEMMA HistorySteps ==
    ASSUME TypeOK, WindowsMatchRecords,
           Mine \/ Reorganize \/ Sync \/ Walk \/ Deliver \/ Idles \/ (Clear /\ ~ ScanThrows)
    PROVE  \/ PostEntry \/ RecordEntry \/ UndoTx \/ UndoRecord \/ UndoSum
           \/ UNCHANGED <<txs, recorded, undo>> /\ \A d : Due(d)' = Due(d)
<1> USE DEF env, records, book, writes, process
<1> DEFINE Same == UNCHANGED <<txs, recorded, undo, pc, todo, doc>>
           Away == UNCHANGED <<txs, recorded, undo>> /\ pc \notin {"record", "undoSum"}
                   /\ pc' \notin {"record", "undoSum"}
<1>1. Sync => Away
  BY DEF Sync, ReadHeights, NextBlock, SyncDone
<1>2. FetchBlock \/ NextTx \/ SkipEntry \/ BlockDone => Away
  BY DEF FetchBlock, NextTx, SkipEntry, BlockDone
<1>3. Deliver \/ Mine \/ Reorganize => Same
  BY DEF Deliver, DeliverCursor, DeliverBlockIn, DeliverBlockOut, DeliverLockIn, DeliverLockOut,
         Mine, Reorganize
<1>4. Idles => Same \/ Away
  BY DEF Idles, Restart, FetchRaw, vars
<1>5. Tick \/ ScanMatch \/ ScanMismatch \/ ScanDone \/ UndoDone => Away
  BY DEF Tick, ScanMatch, ScanMismatch, ScanDone, UndoDone
<1>6. Same \/ Away => UNCHANGED <<txs, recorded, undo>> /\ \A d : Due(d)' = Due(d)
  BY DEF Due, Between
<1> HIDE DEF Same, Away
<1> QED BY <1>1, <1>2, <1>3, <1>4, <1>5, <1>6 DEF Walk, Clear

\* A listed transaction is named, and named once.
LEMMA ListedOnce ==
    ASSUME NEW t \in TxIds, NEW s \in Seq(TxIds), NoRepeat(s)
    PROVE  NoRepeat(Listed(t, s)) /\ Elements(Listed(t, s)) = Elements(s) \union {t}
<1>1. CASE InSeq(t, s)
  BY <1>1 DEF Listed, InSeq
<1>2. CASE ~ InSeq(t, s)
  <2> DEFINE u == Listed(t, s)
  <2>1. /\ Len(u) = Len(s) + 1 /\ Len(s) \in Nat /\ u[1] = t
        /\ \A i \in 1..Len(s) : u[i + 1] = s[i]
        /\ Elements(u) = Elements(s) \union {t}
    BY <1>2, ListedShape
  <2> HIDE DEF u
  <2>2. ASSUME NEW i \in 1..Len(u), NEW j \in 1..Len(u), i < j PROVE u[i] # u[j]
    <3>1. j - 1 \in 1..Len(s) /\ u[j] = s[j - 1]
      <4>1. j - 1 \in 1..Len(s) /\ (j - 1) + 1 = j
        BY <2>1, <2>2
      <4> QED BY <2>1, <4>1
    <3>2. CASE i = 1
      <4>1. s[j - 1] # t
        BY <1>2, <3>1 DEF InSeq, Elements
      <4> QED BY <2>1, <3>1, <3>2, <4>1
    <3>3. CASE i # 1
      <4>1. i - 1 \in 1..Len(s) /\ (i - 1) + 1 = i /\ i - 1 < j - 1
        BY <2>1, <2>2, <3>3
      <4>2. u[i] = s[i - 1]
        BY <2>1, <4>1
      <4> QED BY <3>1, <4>1, <4>2 DEF NoRepeat
    <3> QED BY <3>2, <3>3
  <2> QED BY <2>1, <2>2 DEF u, NoRepeat
<1> QED BY <1>1, <1>2

\* The histories follow what is posted and taken back.
LEMMA ForkHistoriesNext ==
    ASSUME NoDoubleSpend, TypeOK, Accounted, ForkHistories, NEW c \in Chains, LeftFor(c),
           Undisturbed, [Next]_vars, Quiet'
    PROVE  ForkHistories'
<1> USE DEF records, book, writes, process
<1>0. /\ crashes = 0 /\ WindowsMatchRecords /\ txs \in [Addrs -> Seq(TxIds)] /\ recorded \subseteq Docs
      /\ undo \subseteq Docs
  BY CalmSteps DEF Quiet, Accounted, TypeOK, StoreTypeOK, ProcessTypeOK
<1>1. CASE UNCHANGED <<txs, recorded, undo>> /\ \A d : Due(d)' = Due(d)
  <2>1. \A a \in Addrs : NoRepeat(txs[a])' <=> NoRepeat(txs[a])
    BY <1>1 DEF NoRepeat
  <2> QED BY <1>1, <2>1 DEF ForkHistories, InSeq
<1>2. CASE PostEntry
  <2>1. PICK e : e = Head(todo)
    OBVIOUS
  <2>2. /\ e \in Entries /\ Post(e) /\ Doc(e) \notin recorded /\ pc = "entry" /\ pc' = "record"
        /\ UNCHANGED <<recorded, undo, todo, doc>>
    BY <1>2, <2>1 DEF PostEntry, TypeOK, ProcessTypeOK, Entries
  <2>3. ~ AlreadyLast(e)
    BY <1>0, <1>2, <2>1, PostsAnew
  <2>4. /\ \A a \in Addrs : a # e.addr => txs'[a] = txs[a]
        /\ txs'[e.addr] = Listed(e.tx, txs[e.addr])
        /\ e.addr \in Addrs /\ e.tx \in TxIds /\ txs[e.addr] \in Seq(TxIds)
    BY <2>2, <2>3, PostedHistory
  <2>5. \A d : Due(d)' = IF d = Doc(e) THEN 1 ELSE Due(d)
    BY <2>1, <2>2 DEF Due, Between
  <2>6. Doc(e) \in Docs /\ Doc(e).address = e.addr /\ Doc(e).txid = e.tx
    BY <2>2, EntryFields
  <2>7. ASSUME NEW a \in Addrs
        PROVE  /\ NoRepeat(txs'[a])
               /\ Elements(txs'[a]) = Elements(txs[a]) \union (IF a = e.addr THEN {e.tx} ELSE {})
    <3>1. NoRepeat(txs[a])
      BY DEF ForkHistories
    <3>2. CASE a # e.addr
      BY <2>4, <3>1, <3>2
    <3>3. CASE a = e.addr
      BY <2>4, <3>1, <3>3, ListedOnce
    <3> QED BY <3>2, <3>3
  <2>8. ASSUME NEW a \in Addrs, NEW t \in Elements(txs'[a])
        PROVE  \E d \in Docs : d.address = a /\ d.txid = t /\ Due(d)' = 1
    <3>1. CASE t \in Elements(txs[a])
      <4>1. PICK d \in Docs : d.address = a /\ d.txid = t /\ Due(d) = 1
        BY <3>1 DEF ForkHistories
      <4> QED BY <2>5, <4>1
    <3>2. CASE a = e.addr /\ t = e.tx
      BY <2>5, <2>6, <3>2
    <3> QED BY <2>7, <2>8, <3>1, <3>2
  <2>9. ASSUME NEW d \in Docs, Due(d)' = 1 PROVE d \in undo' \/ d.txid \in Elements(txs'[d.address])
    <3>1. d.address \in Addrs
      BY DocFields
    <3>2. CASE d = Doc(e)
      BY <2>4, <2>6, <2>7, <3>2
    <3>3. CASE d # Doc(e)
      <4>1. d \in undo \/ d.txid \in Elements(txs[d.address])
        BY <2>5, <2>9, <3>3 DEF ForkHistories, InSeq
      <4> QED BY <2>2, <2>7, <3>1, <4>1
    <3> QED BY <3>2, <3>3
  <2>10. \A x \in undo' : \A d \in recorded' : d.txid = x.txid => d \in undo'
    BY <2>2 DEF ForkHistories
  <2>11. \A a \in Addrs : NoRepeat(txs[a])'
    BY <2>7 DEF NoRepeat
  <2> QED BY <2>8, <2>9, <2>10, <2>11 DEF ForkHistories, InSeq
<1>3. CASE RecordEntry \/ UndoRecord
  <2>1. UNCHANGED <<txs, undo>> /\ \A d : Due(d)' = Due(d)
    <3>1. CASE RecordEntry
      BY <3>1 DEF RecordEntry, Due, Between
    <3>2. CASE UndoRecord
      <4>1. /\ pc = "undo" /\ pc' = "undoSum" /\ UNCHANGED <<txs, undo>>
            /\ doc' \in undo /\ recorded' = recorded \ {doc'}
        BY <3>2 DEF UndoRecord
      <4>2. doc' \in recorded
        BY <1>0, <4>1 DEF WindowsMatchRecords
      <4> QED BY <4>1, <4>2 DEF Due, Between
    <3> QED BY <1>3, <3>1, <3>2
  <2>2. \A x \in undo' : \A d \in recorded' : d.txid = x.txid => d \in undo'
    <3>1. RecordEntry => undo = {}
      BY <1>0 DEF RecordEntry, WindowsMatchRecords
    <3>2. UndoRecord => recorded' \subseteq recorded
      BY DEF UndoRecord
    <3> QED BY <1>3, <2>1, <3>1, <3>2 DEF ForkHistories
  <2>3. \A a \in Addrs : NoRepeat(txs[a])' <=> NoRepeat(txs[a])
    BY <2>1 DEF NoRepeat
  <2> QED BY <2>1, <2>2, <2>3 DEF ForkHistories, InSeq
<1>4. CASE UndoTx
  <2>1. /\ UNCHANGED <<txs, recorded>> /\ undo = {} /\ pc = "undo" /\ pc' = "undo"
        /\ undo' = RecordsOf(Head(work))
    BY <1>4 DEF UndoTx
  <2>2. \A d : Due(d)' = Due(d)
    BY <2>1 DEF Due, Between
  <2>3. \A a \in Addrs : NoRepeat(txs[a])' <=> NoRepeat(txs[a])
    BY <2>1 DEF NoRepeat
  <2>4. \A x \in undo' : \A d \in recorded' : d.txid = x.txid => d \in undo'
    BY <2>1 DEF RecordsOf
  <2> QED BY <2>1, <2>2, <2>3, <2>4 DEF ForkHistories, InSeq
<1>5. CASE UndoSum
  <2>1. PICK x : x = doc
    OBVIOUS
  <2>2. /\ pc = "undoSum" /\ pc' = "undo" /\ x \in undo /\ x \notin recorded /\ x \in Docs
        /\ txs' = [txs EXCEPT ![x.address] = Spliced(@, x.txid)]
        /\ undo' = undo \ {x} /\ recorded' = recorded
    BY <1>0, <1>5, <2>1 DEF UndoSum, TxsWithout, TypeOK, PlaceOK, WindowsMatchRecords
  <2>3. x.address \in Addrs /\ x.txid \in TxIds
    BY <2>2, DocFields
  <2>4. \A d : Due(d) = IF d \in recorded \/ d = x THEN 1 ELSE 0
    BY <2>1, <2>2 DEF Due, Between
  <2>5. \A d : Due(d)' = IF d \in recorded THEN 1 ELSE 0
    BY <2>2 DEF Due, Between
  <2>6. ASSUME NEW a \in Addrs
        PROVE  /\ NoRepeat(txs'[a])
               /\ Elements(txs'[a]) = Elements(txs[a]) \ (IF a = x.address THEN {x.txid} ELSE {})
    <3>1. NoRepeat(txs[a]) /\ txs[a] \in Seq(TxIds)
      BY <1>0 DEF ForkHistories
    <3>2. CASE a # x.address
      BY <1>0, <2>2, <3>1, <3>2
    <3>3. CASE a = x.address
      <4>1. txs'[a] = Spliced(txs[a], x.txid)
        BY <1>0, <2>2, <3>3
      <4> QED BY <3>1, <3>3, <4>1, SplicedOnce
    <3> QED BY <3>2, <3>3
  <2>7. ASSUME NEW a \in Addrs, NEW t \in Elements(txs'[a])
        PROVE  \E d \in Docs : d.address = a /\ d.txid = t /\ Due(d)' = 1
    <3>1. t \in Elements(txs[a]) /\ (a = x.address => t # x.txid)
      BY <2>6, <2>7
    <3>2. PICK d \in Docs : d.address = a /\ d.txid = t /\ Due(d) = 1
      BY <3>1 DEF ForkHistories
    <3>3. d # x
      BY <3>1, <3>2
    <3> QED BY <2>4, <2>5, <3>2, <3>3
  <2>8. ASSUME NEW d \in Docs, Due(d)' = 1 PROVE d \in undo' \/ d.txid \in Elements(txs'[d.address])
    <3>1. d \in recorded /\ d # x /\ d.address \in Addrs
      BY <2>2, <2>5, <2>8, DocFields
    <3>2. CASE d.txid = x.txid
      <4>1. d \in undo
        BY <2>2, <3>1, <3>2 DEF ForkHistories
      <4> QED BY <2>2, <3>1, <4>1
    <3>3. CASE d.txid # x.txid
      <4>1. d \in undo \/ d.txid \in Elements(txs[d.address])
        BY <2>4, <3>1 DEF ForkHistories, InSeq
      <4> QED BY <2>2, <2>6, <3>1, <3>3, <4>1
    <3> QED BY <3>2, <3>3
  <2>9. \A y \in undo' : \A d \in recorded' : d.txid = y.txid => d \in undo'
    BY <2>2 DEF ForkHistories
  <2>10. \A a \in Addrs : NoRepeat(txs[a])'
    BY <2>6 DEF NoRepeat
  <2> QED BY <2>7, <2>8, <2>9, <2>10 DEF ForkHistories, InSeq
<1> QED BY <1>0, <1>1, <1>2, <1>3, <1>4, <1>5, CalmSteps, HistorySteps

\* Nothing is noted or named at the start,
LEMMA SettleInit == Init => SettleInv /\ ForkHistories
<1> SUFFICES ASSUME Init PROVE SettleInv /\ ForkHistories
  OBVIOUS
<1>1. Noted = {}
  BY NoElements DEF Init, Noted, NoFlight
<1>2. rawCached = {} /\ NotedPosted
  BY <1>1 DEF Init, NotedPosted
<1>3. \A d : Due(d) = 0
  BY DEF Init, Due, Between
<1>4. \A a \in Addrs : txs[a] = <<>>
  BY DEF Init
<1>5. \A a \in Addrs : NoRepeat(txs[a]) /\ Elements(txs[a]) = {}
  <2>1. NoRepeat(<<>>)
    <3>1. \A i \in 1..Len(<<>>) : FALSE
      BY EmptySeq
    <3> QED BY <3>1 DEF NoRepeat
  <2> QED BY <1>4, <2>1, NoElements
<1>6. ForkHistories
  BY <1>3, <1>5 DEF Init, ForkHistories
<1> QED BY <1>2, <1>6, ForkInit, ChainAssumption DEF Init, SettleInv

\* no transaction is read in raw form,
LEMMA NothingRaw ==
    ASSUME RawFetchable = {}, rawCached = {},
           Mine \/ Reorganize \/ Sync \/ Walk \/ Deliver \/ Idles \/ (Clear /\ ~ ScanThrows)
    PROVE  rawCached' = {}
<1>1. Sync \/ Deliver => UNCHANGED rawCached
  BY DEF Sync, ReadHeights, NextBlock, SyncDone,
         Deliver, DeliverCursor, DeliverBlockIn, DeliverBlockOut, DeliverLockIn, DeliverLockOut
<1>2. Walk => UNCHANGED rawCached
  BY DEF Walk, FetchBlock, NextTx, SkipEntry, PostEntry, RecordEntry, BlockDone
<1>3. Clear /\ ~ ScanThrows => UNCHANGED rawCached
  BY DEF Clear, Tick, ScanMatch, ScanMismatch, ScanDone, UndoTx, UndoRecord, UndoSum, UndoDone
<1>4. Mine \/ Reorganize \/ Restart \/ UNCHANGED vars => UNCHANGED rawCached
  BY DEF Mine, Reorganize, Restart, vars
<1>5. ~ FetchRaw
  BY DEF FetchRaw
<1> QED BY <1>1, <1>2, <1>3, <1>4, <1>5 DEF Idles

\* and every step keeps this.
LEMMA SettleNext ==
    ASSUME StaysInPlace, RawFetchable = {}, Kept, SettleInv, [Next]_vars
    PROVE  SettleInv'
<1> SUFFICES ASSUME Quiet'
             PROVE  /\ Undisturbed' /\ rawCached' = {} /\ NotedPosted'
                    /\ \E c \in Chains : LeftFor(c)'
  BY DEF SettleInv
<1>1. TypeOK /\ WindowsMatchRecords /\ OneBlock
  BY DEF Kept, Accounted
<1>2. Undisturbed /\ rawCached = {} /\ NotedPosted /\ \E c \in Chains : LeftFor(c)
  BY <1>1, QuietBefore DEF SettleInv
<1>3. PICK c \in Chains : LeftFor(c)
  BY <1>2
<1>4. \E e \in Chains : LeftFor(e)'
  BY <1>1, <1>2, <1>3, ForkNext
<1>5. rawCached' = {}
  BY <1>1, <1>2, <1>3, CalmSteps, NothingRaw
<1> QED BY <1>1, <1>2, <1>3, <1>4, <1>5, UndisturbedNext, NotedPostedNext

\* The histories while nothing fails.
HistoryInv == Quiet => ForkHistories

\* They follow every step.
LEMMA HistoryNext ==
    ASSUME NoDoubleSpend, Kept, SettleInv, HistoryInv, [Next]_vars
    PROVE  HistoryInv'
<1> SUFFICES ASSUME Quiet' PROVE ForkHistories'
  BY DEF HistoryInv
<1>1. TypeOK /\ Accounted
  BY DEF Kept
<1>2. Quiet
  BY <1>1, QuietBefore
<1>3. Undisturbed /\ ForkHistories /\ \E c \in Chains : LeftFor(c)
  BY <1>2 DEF SettleInv, HistoryInv
<1> QED BY <1>1, <1>3, ForkHistoriesNext

\* At rest, what is recorded is what the chain has.
LEMMA RestsWithChain ==
    ASSUME Kept, TrackInv, SettleInv, Quiet, Settled, NEW d \in Docs
    PROVE  /\ d \in recorded <=> OnChain(d.txid)
           /\ Due(d) = IF OnChain(d.txid) THEN 1 ELSE 0
<1>1. /\ flight = NoFlight /\ pc = "idle" /\ Elements(blockDocs) = Elements(chain)
      /\ Noted = Elements(chain) \union Elements(stale) /\ Staying = Elements(chain)
  BY DEF Settled, NoFlight, Noted, Staying
<1>2. ASSUME d \in recorded PROVE OnChain(d.txid)
  <2>1. CASE OnChain(d.txid)
    BY <2>1
  <2>2. CASE \E b \in Blocks : Safe(b) /\ InSeq(d.txid, BlockTxs[b])
    BY <1>1, <2>2 DEF Safe, OnChain, Elements
  <2> QED BY <1>2, <2>1, <2>2 DEF TrackInv, Tracked
<1>3. ASSUME OnChain(d.txid) PROVE d \in recorded
  <2>1. PICK h \in 1..Len(chain) : InSeq(d.txid, BlockTxs[chain[h]])
    BY <1>3 DEF OnChain
  <2>2. PICK b : b = chain[h]
    OBVIOUS
  <2>3. b \in Elements(chain) /\ b \in Noted
    BY <1>1, <2>2 DEF Elements
  <2>4. PostedIn(b, recorded)
    BY <1>1, <2>3 DEF SettleInv, NotedPosted, AtHand, ToRepost, Clearing, Replacing, Undoing
  <2>5. PICK e \in Entries : d = Doc(e)
    BY DEF Docs
  <2>6. d.txid = e.tx
    BY <2>5, EntryFields
  <2> QED BY <2>1, <2>2, <2>4, <2>5, <2>6 DEF PostedIn, InSeq, Elements
<1>4. Due(d) = IF d \in recorded THEN 1 ELSE 0
  BY <1>1 DEF Due, Between
<1> QED BY <1>2, <1>3, <1>4

\* All of what is known of one reorganisation.
Forked == Kept /\ TrackInv /\ SettleInv

\* It holds of every behaviour in which the window drops no block that can be left.
LEMMA ForkedHolds ==
    ASSUME StaysInPlace, RawFetchable = {}
    PROVE  Spec /\ [][DropsFinal]_vars => []Forked
<1>1. Init => Forked
  BY KeptInit, TrackInit, SettleInit DEF Forked
<1>2. Forked /\ [Next]_vars /\ [DropsFinal]_vars => Forked'
  <2>1. UNCHANGED vars => DropsFinal
    BY DEF vars, writes, DropsFinal
  <2> QED BY <2>1, KeptNext, TrackNext, SettleNext DEF Forked
<1> QED BY <1>1, <1>2, PTL DEF Spec

\* Through one reorganisation, at any moment, while nothing fails: at rest every value of the
\* chain is in the sum of its address as often as it occurs, and nothing that left the chain
\* is; if no output is spent twice, a transaction that survives keeps its height, and the window
\* drops only blocks no reorganisation reaches.
THEOREM SumsMatchAfterFork ==
  ASSUME StaysInPlace, RawFetchable = {}, NoDoubleSpend, NoneAlike
  PROVE  Spec /\ [][DropsFinal]_vars => [](Quiet => SettledSumsMatchChain)
<1>1. Forked => (Quiet => SettledSumsMatchChain)
  <2> SUFFICES ASSUME Forked, Quiet, Settled, NEW d \in Docs
               PROVE  amount[d] = IF OnChain(d.txid) THEN 1 ELSE 0
    BY OccursOnce DEF SettledSumsMatchChain
  <2>1. Due(d) = IF OnChain(d.txid) THEN 1 ELSE 0
    BY RestsWithChain DEF Forked
  <2>2. amount[d] \in Int /\ amount[d] - Due(d) \in 0..0
    BY DEF Forked, Kept, Accounted, DriftBoundedByCrashes, NoDoubleSpend, TypeOK, StoreTypeOK, Quiet
  <2> QED BY <2>1, <2>2
<1> QED BY <1>1, ForkedHolds, PTL

\* ... and the history of an address names just the transactions of the chain that touch it,
\* each once.
THEOREM HistoryMatchesAfterFork ==
  ASSUME StaysInPlace, RawFetchable = {}, NoDoubleSpend
  PROVE  Spec /\ [][DropsFinal]_vars => [](Quiet => SettledHistoryMatchesChain)
<1>1. Init => HistoryInv
  BY SettleInit DEF HistoryInv
<1>2. Forked /\ HistoryInv /\ [Next]_vars => HistoryInv'
  BY HistoryNext DEF Forked
<1>3. Forked /\ HistoryInv => (Quiet => SettledHistoryMatchesChain)
  <2> SUFFICES ASSUME Forked, HistoryInv, Quiet, Settled, NEW a \in Addrs
               PROVE  /\ Elements(txs[a]) =
                           {d.txid : d \in {x \in Docs : x.address = a /\ OnChain(x.txid)}}
                      /\ Len(txs[a]) = Cardinality(Elements(txs[a]))
    BY DEF SettledHistoryMatchesChain
  <2>1. /\ txs[a] \in Seq(TxIds) /\ ForkHistories /\ undo = {}
    BY DEF HistoryInv, Forked, Kept, Accounted, WindowsMatchRecords, TypeOK, StoreTypeOK, Settled
  <2>2. \A d \in Docs : Due(d) = 1 <=> OnChain(d.txid)
    BY RestsWithChain DEF Forked
  <2>3. ASSUME NEW t \in Elements(txs[a])
        PROVE  \E d \in Docs : d.txid = t /\ d.address = a /\ OnChain(t)
    <3>1. PICK d \in Docs : d.address = a /\ d.txid = t /\ Due(d) = 1
      BY <2>1, <2>3 DEF ForkHistories
    <3> QED BY <2>2, <3>1
  <2>4. ASSUME NEW d \in Docs, d.address = a, OnChain(d.txid) PROVE d.txid \in Elements(txs[a])
    BY <2>1, <2>2, <2>4 DEF ForkHistories, InSeq
  <2>5. NoRepeat(txs[a])
    BY <2>1 DEF ForkHistories
  <2> QED BY <2>1, <2>3, <2>4, <2>5, AsManyAsPlaces
<1> QED BY <1>1, <1>2, <1>3, ForkedHolds, PTL DEF Spec

\* The steps that change the block documents, and all others.
LEMMA DocSteps ==
    ASSUME [Next]_vars
    PROVE  UNCHANGED blockDocs \/ DeliverBlockIn \/ DeliverBlockOut
<1> USE DEF writes
<1>1. Sync => UNCHANGED blockDocs
  BY DEF Sync, ReadHeights, NextBlock, SyncDone
<1>2. Walk => UNCHANGED blockDocs
  BY DEF Walk, FetchBlock, NextTx, SkipEntry, PostEntry, RecordEntry, BlockDone
<1>3. Clear => UNCHANGED blockDocs
  BY DEF Clear, Tick, ScanMatch, ScanMismatch, ScanThrows, ScanDone, UndoTx, UndoRecord, UndoSum,
         UndoDone, Stop
<1>4. Failures => UNCHANGED blockDocs
  BY DEF Failures, ReadHeightsFails, FetchBlockFails, NextTxFails, ScanFails, Abort, Stop
<1>5. Environment => UNCHANGED blockDocs
  BY DEF Environment, Mine, Reorganize, FetchRaw, Crash, Restart, Stop
<1>6. DeliverCursor \/ DeliverLockIn \/ DeliverLockOut => UNCHANGED blockDocs
  BY DEF DeliverCursor, DeliverLockIn, DeliverLockOut
<1>7. UNCHANGED vars => UNCHANGED blockDocs
  BY DEF vars
<1> QED BY <1>1, <1>2, <1>3, <1>4, <1>5, <1>6, <1>7 DEF Next, Deliver

\* A window larger than the number of blocks drops nothing but what was replaced, so that the
\* theorems above need no more than a bound on the blocks.
THEOREM WideWindowDropsNothing ==
  ASSUME IsFiniteSet(Blocks), Cardinality(Blocks) < Window
  PROVE  Spec => [][DropsFinal]_vars
<1>1. Init => Kept
  BY KeptInit
<1>2. Kept /\ [Next]_vars => Kept'
  BY KeptNext
<1>3. Kept /\ [Next]_vars => DropsFinal
  <2> SUFFICES ASSUME Kept, [Next]_vars, NEW x \in Elements(blockDocs), x \notin Elements(blockDocs')
               PROVE  x \in flight.blockOut
    BY DEF DropsFinal
  <2>1. blockDocs \in Seq(Blocks) /\ NoRepeat(blockDocs) /\ flight.blockIn \subseteq Blocks
    BY DEF Kept, TypeOK, StoreTypeOK
  <2>2. UNCHANGED blockDocs \/ DeliverBlockIn \/ DeliverBlockOut
    BY DocSteps
  <2>3. CASE DeliverBlockOut
    <3>1. PICK b \in flight.blockOut : blockDocs' = Spliced(blockDocs, b)
      BY <2>3 DEF DeliverBlockOut
    <3>2. Elements(blockDocs') = Elements(blockDocs) \ {b}
      BY <2>1, <3>1, SplicedOnce
    <3> QED BY <3>1, <3>2
  <2>4. CASE DeliverBlockIn
    <3>1. PICK b \in flight.blockIn : blockDocs' \in Inserted(b)
      BY <2>4 DEF DeliverBlockIn
    <3>2. CASE InSeq(b, blockDocs)
      BY <3>1, <3>2 DEF Inserted
    <3>3. CASE ~ InSeq(b, blockDocs)
      <4>1. Append(blockDocs, b) \in Seq(Blocks) /\ b \in Blocks
        BY <2>1, AppendProperties
      <4>2. NoRepeat(Append(blockDocs, b))
            /\ Elements(Append(blockDocs, b)) = Elements(blockDocs) \union {b}
        BY <2>1, <3>3, <4>1, AppendOnce
      <4>3. Len(Append(blockDocs, b)) = Len(blockDocs) + 1 /\ Len(blockDocs) \in Nat
        BY <2>1, <4>1, AppendProperties, LenProperties
      <4>4. Cardinality(Elements(Append(blockDocs, b))) = Len(blockDocs) + 1
        BY <4>1, <4>2, <4>3, AsManyAsPlaces
      <4>5. Elements(Append(blockDocs, b)) \subseteq Blocks
        BY <4>1, ElementOfSeq DEF Elements
      <4>6. Cardinality(Elements(Append(blockDocs, b))) <= Cardinality(Blocks)
            /\ Cardinality(Blocks) \in Nat
        BY <4>5, FS_Subset, FS_CardinalityType
      <4>7. \A seen \in {0, 1} : ~ Len(blockDocs) + seen >= Window
        BY <4>3, <4>4, <4>6, BoundAssumption
      <4>8. blockDocs' = Append(blockDocs, b)
        BY <3>1, <3>3, <4>7 DEF Inserted
      <4> QED BY <4>2, <4>8
    <3> QED BY <3>2, <3>3
  <2> QED BY <2>2, <2>3, <2>4
<1> QED BY <1>1, <1>2, <1>3, PTL DEF Spec
=============================================================================
