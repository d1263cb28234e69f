------------------------- MODULE SubscriptionsProofs -------------------------
(***************************************************************************)
(* Who is in the lists of emitters and how often the watcher is told, for  *)
(* every number of sockets, addresses, listeners, messages and every        *)
(* capacity of the caches.                                                  *)
(***************************************************************************)
EXTENDS Subscriptions, SequenceTheorems, FiniteSetTheorems, WellFoundedInduction, TLAPS

\* x is at most once in s
Single(s, x) == \A i, j \in 1..Len(s) : s[i] = x /\ s[j] = x => i = j

-----------------------------------------------------------------------------
(* Lists.                                                                  *)

\* A set of natural numbers has a least one.
LEMMA Least ==
    ASSUME NEW T, T \subseteq Nat, T # {}
    PROVE  \E m \in T : \A k \in T : m <= k
PROOF
  <1> DEFINE R == OpToRel(<, Nat)
  <1>1. IsWellFoundedOn(R, Nat)
    BY NatLessThanWellFounded
  <1> HIDE DEF R
  <1>2. PICK m \in T : \A k \in T : ~ (<<k, m>> \in R)
    BY <1>1, WFMin
  <1>3. \A k \in T : k < m => <<k, m>> \in R
    BY DEF R, OpToRel
  <1>4. \A k \in T : ~ (k < m)
    BY <1>2, <1>3, Zenon
  <1>5. \A k \in T : m <= k
    BY <1>4, m \in Nat, T \subseteq Nat
  <1> QED BY <1>5

\* What is in a list is there a first time.
LEMMA FirstOf ==
    ASSUME NEW S, NEW s \in Seq(S), NEW x \in Elements(s)
    PROVE  \E j \in 1..Len(s) : s[j] = x /\ \A k \in 1..(j - 1) : s[k] # x
PROOF
  <1> DEFINE T == {j \in 1..Len(s) : s[j] = x}
  <1>1. T \subseteq Nat /\ T # {} BY DEF Elements
  <1>2. PICK j \in T : \A k \in T : j <= k BY <1>1, Least
  <1>3. j \in 1..Len(s) /\ s[j] = x OBVIOUS
  <1>4. ASSUME NEW k \in 1..(j - 1) PROVE s[k] # x
    BY <1>2, <1>3, <1>4, LenProperties
  <1> QED BY <1>3, <1>4

\* splice: the first occurrence of x goes, everything behind it moves up.
LEMMA SplicedAt ==
    ASSUME NEW S, NEW s \in Seq(S), NEW x \in Elements(s)
    PROVE  \E i \in 1..Len(s) :
              /\ s[i] = x
              /\ Spliced(s, x) \in Seq(S)
              /\ Len(Spliced(s, x)) = Len(s) - 1
              /\ \A k \in 1..(Len(s) - 1) : Spliced(s, x)[k] = IF k < i THEN s[k] ELSE s[k + 1]
PROOF
  <1> DEFINE i == CHOOSE j \in 1..Len(s) : s[j] = x /\ \A k \in 1..(j - 1) : s[k] # x
             before == SubSeq(s, 1, i - 1)
             behind == SubSeq(s, i + 1, Len(s))
  <1>1. i \in 1..Len(s) /\ s[i] = x BY FirstOf
  <1>2. Spliced(s, x) = before \o behind BY DEF Spliced
  <1>3. Len(s) \in Nat BY LenProperties
  <1> HIDE DEF i
  <1>4. /\ before \in Seq(S) /\ Len(before) = i - 1
        /\ \A k \in 1..(i - 1) : before[k] = s[k]
    <2>1. \A k \in 1..(i - 1) : s[k] \in S BY <1>1, <1>3, ElementOfSeq
    <2> QED BY <1>1, <1>3, <2>1, SubSeqProperties
  <1>5. /\ behind \in Seq(S) /\ Len(behind) = Len(s) - i
        /\ \A k \in 1..(Len(s) - i) : behind[k] = s[i + k]
    BY <1>1, <1>3, SubSeqProperties
  <1> HIDE DEF before, behind
  <1>6. /\ before \o behind \in Seq(S)
        /\ Len(before \o behind) = Len(s) - 1
        /\ \A k \in 1..(Len(s) - 1) : (before \o behind)[k] = IF k < i THEN s[k] ELSE s[k + 1]
    <2>1. before \in Seq(S) /\ behind \in Seq(S) BY <1>4, <1>5
    <2>2. /\ before \o behind \in Seq(S)
          /\ Len(before \o behind) = Len(before) + Len(behind)
          /\ \A k \in 1..(Len(before) + Len(behind)) :
                (before \o behind)[k] = IF k <= Len(before) THEN before[k]
                                        ELSE behind[k - Len(before)]
      BY <2>1, ConcatProperties, Zenon
    <2>3. Len(before) + Len(behind) = Len(s) - 1 BY <1>1, <1>3, <1>4, <1>5
    <2>4. ASSUME NEW k \in 1..(Len(s) - 1)
          PROVE  (before \o behind)[k] = IF k < i THEN s[k] ELSE s[k + 1]
      <3>1. CASE k < i
        <4>1. k \in 1..(i - 1) /\ k <= Len(before) BY <1>1, <1>3, <1>4, <3>1
        <4>2. (before \o behind)[k] = before[k] BY <2>2, <2>3, <4>1
        <4> QED BY <1>4, <3>1, <4>1, <4>2
      <3>2. CASE ~ (k < i)
        <4>1. k - (i - 1) \in 1..(Len(s) - i) /\ ~ (k <= Len(before)) BY <1>1, <1>3, <1>4, <3>2
        <4>2. (before \o behind)[k] = behind[k - (i - 1)] BY <1>4, <2>2, <2>3, <4>1
        <4>3. i + (k - (i - 1)) = k + 1 BY <1>1, <1>3
        <4> QED BY <1>5, <3>2, <4>1, <4>2, <4>3
      <3> QED BY <3>1, <3>2
    <2> QED BY <2>2, <2>3, <2>4
  <1> QED BY <1>1, <1>2, <1>6

LEMMA SplicedFacts ==
    ASSUME NEW S, NEW s \in Seq(S), NEW x
    PROVE  /\ Spliced(s, x) \in Seq(S)
           /\ x \in Elements(s) => Len(Spliced(s, x)) = Len(s) - 1
           /\ x \notin Elements(s) => Spliced(s, x) = s
           /\ Elements(Spliced(s, x)) \subseteq Elements(s)
           /\ Elements(s) \subseteq Elements(Spliced(s, x)) \union {x}
           /\ \A y : Single(s, y) => Single(Spliced(s, x), y)
           /\ Single(s, x) => x \notin Elements(Spliced(s, x))
PROOF
  <1>1. CASE x \notin Elements(s)
    <2>1. Spliced(s, x) = s BY <1>1 DEF Spliced
    <2> QED BY <1>1, <2>1
  <1>2. CASE x \in Elements(s)
    <2>1. PICK i \in 1..Len(s) :
              /\ s[i] = x
              /\ Spliced(s, x) \in Seq(S)
              /\ Len(Spliced(s, x)) = Len(s) - 1
              /\ \A k \in 1..(Len(s) - 1) : Spliced(s, x)[k] = IF k < i THEN s[k] ELSE s[k + 1]
      BY <1>2, SplicedAt
    <2> DEFINE r == Spliced(s, x)
    <2>2. Len(s) \in Nat BY LenProperties
    <2> HIDE DEF r
    <2>3. /\ r \in Seq(S) /\ Len(r) = Len(s) - 1
          /\ \A k \in 1..Len(r) : r[k] = IF k < i THEN s[k] ELSE s[k + 1]
      BY <2>1 DEF r
    <2>4. Elements(r) \subseteq Elements(s)
      BY <2>2, <2>3 DEF Elements
    <2>5. ASSUME NEW k \in 1..Len(s), s[k] # x PROVE s[k] \in Elements(r)
      <3>1. CASE k < i
        <4>1. k \in 1..Len(r) /\ r[k] = s[k] BY <2>2, <2>3, <3>1
        <4> QED BY <4>1 DEF Elements
      <3>2. CASE k > i
        <4>1. k - 1 \in 1..Len(r) /\ r[k - 1] = s[k] BY <2>2, <2>3, <3>2
        <4> QED BY <4>1 DEF Elements
      <3>3. k # i BY <2>1, <2>5
      <3> QED BY <3>1, <3>2, <3>3, <2>2
    <2>6. ASSUME NEW y, Single(s, y) PROVE Single(r, y)
      <3> SUFFICES ASSUME NEW j \in 1..Len(r), NEW k \in 1..Len(r), r[j] = y, r[k] = y
                   PROVE  j = k
        BY DEF Single
      <3>1. PICK a \in 1..Len(s) : r[j] = s[a] /\ a = (IF j < i THEN j ELSE j + 1)
        BY <2>2, <2>3
      <3>2. PICK b \in 1..Len(s) : r[k] = s[b] /\ b = (IF k < i THEN k ELSE k + 1)
        BY <2>2, <2>3
      <3>3. a = b BY <2>6, <3>1, <3>2 DEF Single
      <3> QED BY <3>1, <3>2, <3>3, <2>2, <2>3
    <2>7. ASSUME Single(s, x) PROVE x \notin Elements(r)
      <3> SUFFICES ASSUME NEW k \in 1..Len(r), r[k] = x PROVE FALSE
        BY DEF Elements
      <3>1. PICK a \in 1..Len(s) : r[k] = s[a] /\ a # i
        BY <2>2, <2>3
      <3> QED BY <2>1, <2>7, <3>1 DEF Single
    <2>8. Elements(s) \subseteq Elements(r) \union {x}
      BY <2>5 DEF Elements
    <2> QED BY <1>2, <2>3, <2>4, <2>6, <2>7, <2>8 DEF r
  <1> QED BY <1>1, <1>2

LEMMA PushedFacts ==
    ASSUME NEW S, NEW s \in Seq(S), NEW x \in S
    PROVE  /\ Append(s, x) \in Seq(S)
           /\ Len(Append(s, x)) = Len(s) + 1
           /\ Elements(Append(s, x)) = Elements(s) \union {x}
           /\ \A y : y # x /\ Single(s, y) => Single(Append(s, x), y)
           /\ x \notin Elements(s) => Single(Append(s, x), x)
PROOF
  <1> DEFINE r == Append(s, x)
  <1>1. Len(s) \in Nat BY LenProperties
  <1>2. /\ r \in Seq(S) /\ Len(r) = Len(s) + 1
        /\ \A i \in 1..Len(s) : r[i] = s[i]
        /\ r[Len(s) + 1] = x
    BY AppendProperties
  <1> HIDE DEF r
  <1>3. Elements(r) \subseteq Elements(s) \union {x} BY <1>1, <1>2 DEF Elements
  <1>4. Elements(s) \subseteq Elements(r)
    <2> SUFFICES ASSUME NEW i \in 1..Len(s) PROVE s[i] \in Elements(r) BY DEF Elements
    <2>1. i \in 1..Len(r) /\ r[i] = s[i] BY <1>1, <1>2
    <2> QED BY <2>1 DEF Elements
  <1>5. x \in Elements(r)
    <2>1. Len(s) + 1 \in 1..Len(r) /\ r[Len(s) + 1] = x BY <1>1, <1>2
    <2> QED BY <2>1 DEF Elements
  <1>6. ASSUME NEW y, y # x, Single(s, y) PROVE Single(r, y)
    BY <1>1, <1>2, <1>6 DEF Single
  <1>7. ASSUME x \notin Elements(s) PROVE Single(r, x)
    BY <1>1, <1>2, <1>7 DEF Single, Elements
  <1> QED BY <1>2, <1>3, <1>4, <1>5, <1>6, <1>7 DEF r

\* No element is in a list twice.
LEMMA OnceIsSingle ==
    ASSUME NEW s PROVE Once(s) <=> \A y : Single(s, y)
PROOF
  <1>1. ASSUME Once(s) PROVE \A y : Single(s, y) BY <1>1 DEF Once, Single
  <1>2. ASSUME \A y : Single(s, y) PROVE Once(s)
    <2> SUFFICES ASSUME NEW i \in 1..Len(s), NEW j \in 1..Len(s), s[i] = s[j] PROVE i = j
      BY DEF Once
    <2>1. Single(s, s[i]) BY <1>2
    <2> QED BY <2>1 DEF Single
  <1> QED BY <1>1, <1>2

\* addAddress, and subscribe of insight-api
LEMMA PushedOnceFacts ==
    ASSUME NEW S, NEW s \in Seq(S), NEW x \in S, Once(s)
    PROVE  /\ PushedOnce(s, x) \in Seq(S)
           /\ Elements(PushedOnce(s, x)) = Elements(s) \union {x}
           /\ Once(PushedOnce(s, x))
PROOF
  <1>1. CASE x \in Elements(s)
    <2>1. PushedOnce(s, x) = s BY <1>1 DEF PushedOnce
    <2> QED BY <1>1, <2>1
  <1>2. CASE x \notin Elements(s)
    <2>1. PushedOnce(s, x) = Append(s, x) BY <1>2 DEF PushedOnce
    <2>2. \A y : Single(s, y) BY OnceIsSingle
    <2>3. \A y : Single(Append(s, x), y) BY <1>2, <2>2, PushedFacts
    <2>4. Once(Append(s, x)) BY <2>3, OnceIsSingle
    <2> QED BY <2>1, <2>4, PushedFacts
  <1> QED BY <1>1, <1>2

LEMMA SplicedOnceFacts ==
    ASSUME NEW S, NEW s \in Seq(S), NEW x, Once(s)
    PROVE  /\ Spliced(s, x) \in Seq(S)
           /\ Elements(Spliced(s, x)) = Elements(s) \ {x}
           /\ Once(Spliced(s, x))
PROOF
  <1>1. \A y : Single(s, y) BY OnceIsSingle
  <1>2. \A y : Single(Spliced(s, x), y) BY <1>1, SplicedFacts
  <1>3. Once(Spliced(s, x)) BY <1>2, OnceIsSingle
  <1> QED BY <1>1, <1>3, SplicedFacts

-----------------------------------------------------------------------------
(* The lists.                                                              *)

RequestsTyped ==
    /\ open \in [Sockets -> {"no", "yes", "closed"}]
    /\ lists \in [Lists -> Seq(Sockets)]
    /\ byAddress \in [Addresses -> Seq(Sockets)]
    /\ inv \in Seq(Sockets)
    /\ asked \in [Sockets -> SUBSET Topics] /\ doubled \subseteq Sockets \X Lists

\* Only who subscribed again is twice in the list of an event, and may be in it
\* when its socket is not open.
DoubledTold ==
    \A s \in Sockets : \A n \in Lists : <<s, n>> \in doubled \/
        (Single(lists[n], s) /\ (open[s] # "yes" => s \notin Elements(lists[n])))

\* Alone neither ListedAsAsked nor ClosedHearsNothing is inductive: that close
\* takes a socket out of the list of an event needs that it is in it once.
RequestsInv == RequestsTyped /\ ListedAsAsked /\ DoubledTold

\* Lists from which something was taken, nothing added
LEMMA TakenOut ==
    ASSUME RequestsInv, lists' \in [Lists -> Seq(Sockets)], doubled' = StillDoubled(lists'),
           \A n \in Lists : /\ Elements(lists'[n]) \subseteq Elements(lists[n])
                            /\ \A s : Single(lists[n], s) => Single(lists'[n], s),
           \A s \in Sockets : (open'[s] # "yes" /\ open[s] = "yes") =>
                \A n \in Lists : Single(lists[n], s) => s \notin Elements(lists'[n])
    PROVE  DoubledTold' /\ doubled' \subseteq Sockets \X Lists
PROOF
  <1>1. doubled' \subseteq doubled BY DEF StillDoubled
  <1>2. doubled' \subseteq Sockets \X Lists BY <1>1 DEF RequestsInv, RequestsTyped
  <1>3. ASSUME NEW s \in Sockets, NEW n \in Lists, <<s, n>> \notin doubled'
        PROVE  Single(lists'[n], s) /\ (open'[s] # "yes" => s \notin Elements(lists'[n]))
    <2>1. CASE <<s, n>> \in doubled
      <3>1. s \notin Elements(lists'[n]) BY <1>3, <2>1 DEF StillDoubled
      <3>2. Single(lists'[n], s) BY <3>1 DEF Single, Elements
      <3> QED BY <3>1, <3>2
    <2>2. CASE <<s, n>> \notin doubled
      <3>1. Single(lists[n], s) /\ (open[s] # "yes" => s \notin Elements(lists[n]))
        BY <2>2 DEF RequestsInv, DoubledTold
      <3> QED BY <3>1
    <2> QED BY <2>1, <2>2
  <1> QED BY <1>2, <1>3 DEF DoubledTold

LEMMA Names ==
    /\ "inv" \notin Addresses /\ "inv" \notin Lists
    /\ Addresses \intersect Lists = {}
    /\ "inv" \in Topics /\ Addresses \subseteq Topics /\ Lists \subseteq Topics
    /\ \A as \in SUBSET (Addresses \union OddAddresses) : "inv" \notin as
BY SubscriptionAssumption DEF Topics

LEMMA OpenKeeps ==
    ASSUME RequestsInv, NEW s \in Sockets, Open(s) PROVE RequestsInv'
PROOF
  <1> USE DEF Open
  <1>1. RequestsTyped' BY DEF RequestsInv, RequestsTyped
  <1>2. ListedAsAsked' BY DEF RequestsInv, RequestsTyped, ListedAsAsked
  <1>3. DoubledTold' BY DEF RequestsInv, RequestsTyped, DoubledTold
  <1> QED BY <1>1, <1>2, <1>3 DEF RequestsInv

LEMMA SubscribeKeeps ==
    ASSUME RequestsInv, NEW s \in Sockets, NEW n \in Lists, Subscribe(s, n) PROVE RequestsInv'
PROOF
  <1> DEFINE pushed == Append(lists[n], s)
  <1>1. RequestsTyped /\ ListedAsAsked /\ DoubledTold BY DEF RequestsInv
  <1>2. lists[n] \in Seq(Sockets) BY <1>1 DEF RequestsTyped
  <1>3. /\ pushed \in Seq(Sockets)
        /\ Elements(pushed) = Elements(lists[n]) \union {s}
        /\ \A y : y # s /\ Single(lists[n], y) => Single(pushed, y)
        /\ s \notin Elements(lists[n]) => Single(pushed, s)
    BY <1>2, PushedFacts
  <1>4. lists' = [lists EXCEPT ![n] = pushed] BY DEF Subscribe, Pushed
  <1> HIDE DEF pushed
  <1>5. RequestsTyped'
    <2>1. lists' \in [Lists -> Seq(Sockets)] BY <1>1, <1>3, <1>4 DEF RequestsTyped
    <2>2. asked' \in [Sockets -> SUBSET Topics]
      BY <1>1, Names DEF RequestsTyped, Subscribe
    <2>3. doubled' \subseteq Sockets \X Lists
      BY <1>1 DEF RequestsTyped, Subscribe
    <2> QED BY <1>1, <2>1, <2>2, <2>3 DEF RequestsTyped, Subscribe
  <1>6. ListedAsAsked'
    <2>1. \A t \in Sockets : \A x : x # n => (x \in asked'[t] <=> x \in asked[t])
      BY <1>1 DEF RequestsTyped, Subscribe
    <2>2. \A t \in Sockets : t # s => asked'[t] = asked[t]
      BY <1>1 DEF RequestsTyped, Subscribe
    <2>3. open' = open /\ open[s] = "yes" /\ byAddress' = byAddress /\ inv' = inv
      BY DEF Subscribe
    <2>4. n # "inv" /\ n \notin Addresses BY Names
    <2>5. \A a \in Addresses : /\ Once(byAddress'[a])
                               /\ \A t \in Sockets : t \in Elements(byAddress'[a]) <=> a \in asked'[t]
      BY <1>1, <2>1, <2>3, <2>4 DEF ListedAsAsked
    <2>6. Once(inv') /\ \A t \in Sockets : t \in Elements(inv') <=> "inv" \in asked'[t]
      BY <1>1, <2>1, <2>3, <2>4 DEF ListedAsAsked
    <2>7. \A t \in Sockets : open'[t] # "yes" => asked'[t] = {}
      BY <1>1, <2>2, <2>3 DEF ListedAsAsked
    <2> QED BY <2>5, <2>6, <2>7 DEF ListedAsAsked
  <1>7. DoubledTold'
    <2> SUFFICES ASSUME NEW t \in Sockets, NEW m \in Lists, <<t, m>> \notin doubled'
                 PROVE  Single(lists'[m], t) /\ (open'[t] # "yes" => t \notin Elements(lists'[m]))
      BY DEF DoubledTold
    <2>1. <<t, m>> \notin doubled BY DEF Subscribe
    <2>2. Single(lists[m], t) /\ (open[t] # "yes" => t \notin Elements(lists[m]))
      BY <1>1, <2>1 DEF DoubledTold
    <2>3. CASE m # n
      <3>1. lists'[m] = lists[m] BY <1>1, <1>4, <2>3 DEF RequestsTyped
      <3> QED BY <2>2, <3>1 DEF Subscribe
    <2>4. CASE m = n
      <3>1. lists'[m] = pushed BY <1>1, <1>4, <2>4 DEF RequestsTyped
      <3>2. t = s => s \notin Elements(lists[n]) BY <2>4 DEF Subscribe
      <3>3. open' = open /\ open[s] = "yes" BY DEF Subscribe
      <3> QED BY <1>3, <2>2, <2>4, <3>1, <3>2, <3>3
    <2> QED BY <2>3, <2>4
  <1> QED BY <1>5, <1>6, <1>7 DEF RequestsInv

LEMMA UnsubscribeKeeps ==
    ASSUME RequestsInv, NEW s \in Sockets, NEW n \in Lists, Unsubscribe(s, n) PROVE RequestsInv'
PROOF
  <1> DEFINE spliced == Spliced(lists[n], s)
  <1>1. RequestsTyped /\ ListedAsAsked /\ DoubledTold BY DEF RequestsInv
  <1>2. lists[n] \in Seq(Sockets) BY <1>1 DEF RequestsTyped
  <1>3. /\ spliced \in Seq(Sockets)
        /\ Elements(spliced) \subseteq Elements(lists[n])
        /\ \A y : Single(lists[n], y) => Single(spliced, y)
    BY <1>2, SplicedFacts
  <1>4. lists' = [lists EXCEPT ![n] = spliced] BY DEF Unsubscribe
  <1> HIDE DEF spliced
  <1>5. lists' \in [Lists -> Seq(Sockets)] BY <1>1, <1>3, <1>4 DEF RequestsTyped
  <1>6. \A m \in Lists : lists'[m] = IF m = n THEN spliced ELSE lists[m]
    BY <1>1, <1>4 DEF RequestsTyped
  <1>7. \A m \in Lists : /\ Elements(lists'[m]) \subseteq Elements(lists[m])
                          /\ \A t : Single(lists[m], t) => Single(lists'[m], t)
    BY <1>3, <1>6
  <1>8. open' = open /\ doubled' = StillDoubled(lists') BY DEF Unsubscribe
  <1>9. DoubledTold' /\ doubled' \subseteq Sockets \X Lists
    BY <1>5, <1>7, <1>8, TakenOut
  <1>10. RequestsTyped'
    <2>1. asked' \in [Sockets -> SUBSET Topics] BY <1>1 DEF RequestsTyped, Unsubscribe
    <2> QED BY <1>1, <1>5, <1>9, <2>1 DEF RequestsTyped, Unsubscribe
  <1>11. ListedAsAsked'
    <2>1. \A t \in Sockets : \A x : x # n => (x \in asked'[t] <=> x \in asked[t])
      BY <1>1 DEF RequestsTyped, Unsubscribe
    <2>2. byAddress' = byAddress /\ inv' = inv BY DEF Unsubscribe
    <2>3. n # "inv" /\ n \notin Addresses BY Names
    <2>4. \A a \in Addresses : /\ Once(byAddress'[a])
                               /\ \A t \in Sockets : t \in Elements(byAddress'[a]) <=> a \in asked'[t]
      BY <1>1, <2>1, <2>2, <2>3 DEF ListedAsAsked
    <2>5. Once(inv') /\ \A t \in Sockets : t \in Elements(inv') <=> "inv" \in asked'[t]
      BY <1>1, <2>1, <2>2, <2>3 DEF ListedAsAsked
    <2>6. \A t \in Sockets : open'[t] # "yes" => asked'[t] = {}
      BY <1>1, <1>8 DEF ListedAsAsked, RequestsTyped, Unsubscribe
    <2> QED BY <2>4, <2>5, <2>6 DEF ListedAsAsked
  <1> QED BY <1>9, <1>10, <1>11 DEF RequestsInv

\* What a request does that leaves the lists of the events alone
LEMMA ListsLeft ==
    ASSUME RequestsInv, open' = open, lists' = lists, doubled' = doubled PROVE DoubledTold'
BY DEF RequestsInv, DoubledTold

LEMMA SubscribeAddressKeeps ==
    ASSUME RequestsInv, NEW s \in Sockets, NEW as \in SUBSET (Addresses \union OddAddresses),
           SubscribeAddress(s, as)
    PROVE  RequestsInv'
PROOF
  <1>1. RequestsTyped /\ ListedAsAsked BY DEF RequestsInv
  <1>2. /\ open[s] = "yes" /\ open' = open /\ lists' = lists /\ inv' = inv /\ doubled' = doubled
        /\ byAddress' = [a \in Addresses |->
                           IF a \in as THEN PushedOnce(byAddress[a], s) ELSE byAddress[a]]
        /\ asked' = [asked EXCEPT ![s] = @ \union (as \intersect Addresses)]
    BY DEF SubscribeAddress
  <1>3. \A t \in Sockets : \A x :
            x \in asked'[t] <=> (x \in asked[t] \/ (t = s /\ x \in as \intersect Addresses))
    BY <1>1, <1>2 DEF RequestsTyped
  <1>4. ASSUME NEW a \in Addresses
        PROVE  /\ byAddress'[a] \in Seq(Sockets) /\ Once(byAddress'[a])
               /\ \A t \in Sockets : t \in Elements(byAddress'[a]) <=> a \in asked'[t]
    <2>1. /\ byAddress[a] \in Seq(Sockets) /\ Once(byAddress[a])
          /\ \A t \in Sockets : t \in Elements(byAddress[a]) <=> a \in asked[t]
      BY <1>1 DEF RequestsTyped, ListedAsAsked
    <2>2. CASE a \in as
      <3>1. byAddress'[a] = PushedOnce(byAddress[a], s) BY <1>2, <2>2
      <3>2. /\ byAddress'[a] \in Seq(Sockets) /\ Once(byAddress'[a])
            /\ Elements(byAddress'[a]) = Elements(byAddress[a]) \union {s}
        BY <2>1, <3>1, PushedOnceFacts
      <3> QED BY <1>3, <2>1, <2>2, <3>2
    <2>3. CASE a \notin as
      <3>1. byAddress'[a] = byAddress[a] BY <1>2, <2>3
      <3> QED BY <1>3, <2>1, <2>3, <3>1
    <2> QED BY <2>2, <2>3
  <1>5. RequestsTyped'
    <2>1. asked' \in [Sockets -> SUBSET Topics] BY <1>1, <1>2, Names DEF RequestsTyped
    <2>2. byAddress' \in [Addresses -> Seq(Sockets)]
      <3>1. \A a \in Addresses : byAddress'[a] \in Seq(Sockets) BY <1>4
      <3>2. byAddress' = [a \in Addresses |-> byAddress'[a]] BY <1>2
      <3> QED BY <3>1, <3>2
    <2> QED BY <1>1, <1>2, <2>1, <2>2 DEF RequestsTyped
  <1>6. ListedAsAsked'
    <2>1. Once(inv') /\ \A t \in Sockets : t \in Elements(inv') <=> "inv" \in asked'[t]
      BY <1>1, <1>2, <1>3, Names DEF ListedAsAsked
    <2>2. \A t \in Sockets : open'[t] # "yes" => asked'[t] = {}
      BY <1>1, <1>2 DEF ListedAsAsked, RequestsTyped
    <2> QED BY <1>4, <2>1, <2>2 DEF ListedAsAsked
  <1> QED BY <1>2, <1>5, <1>6, ListsLeft DEF RequestsInv

\* removeAddress
LEMMA RemovedFacts ==
    ASSUME RequestsInv, NEW s \in Sockets, NEW as, NEW a \in Addresses
    PROVE  /\ Removed(s, as) = [b \in Addresses |-> Removed(s, as)[b]]
           /\ Removed(s, as)[a] \in Seq(Sockets) /\ Once(Removed(s, as)[a])
           /\ \A t \in Sockets : t \in Elements(Removed(s, as)[a]) <=>
                                    (a \in asked[t] /\ ~ (t = s /\ a \in as))
PROOF
  <1>1. /\ byAddress[a] \in Seq(Sockets) /\ Once(byAddress[a])
        /\ \A t \in Sockets : t \in Elements(byAddress[a]) <=> a \in asked[t]
    BY DEF RequestsInv, RequestsTyped, ListedAsAsked
  <1>2. Removed(s, as)[a] = IF a \in as THEN Spliced(byAddress[a], s) ELSE byAddress[a]
    BY DEF Removed
  <1>3. /\ Spliced(byAddress[a], s) \in Seq(Sockets) /\ Once(Spliced(byAddress[a], s))
        /\ Elements(Spliced(byAddress[a], s)) = Elements(byAddress[a]) \ {s}
    BY <1>1, SplicedOnceFacts
  <1>4. Removed(s, as) = [b \in Addresses |-> Removed(s, as)[b]] BY DEF Removed
  <1> QED BY <1>1, <1>2, <1>3, <1>4

LEMMA UnsubscribeAddressKeeps ==
    ASSUME RequestsInv, NEW s \in Sockets, NEW as \in SUBSET (Addresses \union OddAddresses),
           UnsubscribeAddress(s, as)
    PROVE  RequestsInv'
PROOF
  <1>1. RequestsTyped /\ ListedAsAsked BY DEF RequestsInv
  <1>2. /\ open[s] = "yes" /\ open' = open /\ lists' = lists /\ inv' = inv /\ doubled' = doubled
        /\ byAddress' = Removed(s, as)
        /\ asked' = [asked EXCEPT ![s] = @ \ as]
    BY DEF UnsubscribeAddress
  <1>3. \A t \in Sockets : \A x : x \in asked'[t] <=> (x \in asked[t] /\ ~ (t = s /\ x \in as))
    BY <1>1, <1>2 DEF RequestsTyped
  <1>4. \A a \in Addresses :
            /\ byAddress'[a] \in Seq(Sockets) /\ Once(byAddress'[a])
            /\ \A t \in Sockets : t \in Elements(byAddress'[a]) <=> a \in asked'[t]
    BY <1>2, <1>3, RemovedFacts
  <1>5. RequestsTyped'
    <2>1. asked' \in [Sockets -> SUBSET Topics] BY <1>1, <1>2 DEF RequestsTyped
    <2>2. byAddress' \in [Addresses -> Seq(Sockets)]
      <3>1. byAddress' = [a \in Addresses |-> byAddress'[a]] BY <1>2 DEF Removed
      <3> QED BY <1>4, <3>1
    <2> QED BY <1>1, <1>2, <2>1, <2>2 DEF RequestsTyped
  <1>6. ListedAsAsked'
    <2>1. Once(inv') /\ \A t \in Sockets : t \in Elements(inv') <=> "inv" \in asked'[t]
      BY <1>1, <1>2, <1>3, Names DEF ListedAsAsked
    <2>2. \A t \in Sockets : open'[t] # "yes" => asked'[t] = {}
      BY <1>1, <1>2 DEF ListedAsAsked, RequestsTyped
    <2> QED BY <1>4, <2>1, <2>2 DEF ListedAsAsked
  <1> QED BY <1>2, <1>5, <1>6, ListsLeft DEF RequestsInv

LEMMA SubscribeInvKeeps ==
    ASSUME RequestsInv, NEW s \in Sockets, SubscribeInv(s) PROVE RequestsInv'
PROOF
  <1>1. RequestsTyped /\ ListedAsAsked BY DEF RequestsInv
  <1>2. /\ open[s] = "yes" /\ open' = open /\ lists' = lists /\ byAddress' = byAddress
        /\ doubled' = doubled /\ inv' = PushedOnce(inv, s)
        /\ asked' = [asked EXCEPT ![s] = @ \union {"inv"}]
    BY DEF SubscribeInv
  <1>3. \A t \in Sockets : \A x : x \in asked'[t] <=> (x \in asked[t] \/ (t = s /\ x = "inv"))
    BY <1>1, <1>2 DEF RequestsTyped
  <1>4. /\ inv' \in Seq(Sockets) /\ Once(inv') /\ Elements(inv') = Elements(inv) \union {s}
    BY <1>1, <1>2, PushedOnceFacts DEF RequestsTyped, ListedAsAsked
  <1>5. RequestsTyped'
    <2>1. asked' \in [Sockets -> SUBSET Topics] BY <1>1, <1>2, Names DEF RequestsTyped
    <2> QED BY <1>1, <1>2, <1>4, <2>1 DEF RequestsTyped
  <1>6. ListedAsAsked'
    <2>1. \A a \in Addresses : /\ Once(byAddress'[a])
                               /\ \A t \in Sockets : t \in Elements(byAddress'[a]) <=> a \in asked'[t]
      BY <1>1, <1>2, <1>3, Names DEF ListedAsAsked
    <2>2. \A t \in Sockets : t \in Elements(inv') <=> "inv" \in asked'[t]
      BY <1>1, <1>3, <1>4 DEF ListedAsAsked
    <2>3. \A t \in Sockets : open'[t] # "yes" => asked'[t] = {}
      BY <1>1, <1>2 DEF ListedAsAsked, RequestsTyped
    <2> QED BY <1>4, <2>1, <2>2, <2>3 DEF ListedAsAsked
  <1> QED BY <1>2, <1>5, <1>6, ListsLeft DEF RequestsInv

LEMMA UnsubscribeInvKeeps ==
    ASSUME RequestsInv, NEW s \in Sockets, UnsubscribeInv(s) PROVE RequestsInv'
PROOF
  <1>1. RequestsTyped /\ ListedAsAsked BY DEF RequestsInv
  <1>2. /\ open[s] = "yes" /\ open' = open /\ lists' = lists /\ byAddress' = byAddress
        /\ doubled' = doubled /\ inv' = Spliced(inv, s)
        /\ asked' = [asked EXCEPT ![s] = @ \ {"inv"}]
    BY DEF UnsubscribeInv
  <1>3. \A t \in Sockets : \A x : x \in asked'[t] <=> (x \in asked[t] /\ ~ (t = s /\ x = "inv"))
    BY <1>1, <1>2 DEF RequestsTyped
  <1>4. /\ inv' \in Seq(Sockets) /\ Once(inv') /\ Elements(inv') = Elements(inv) \ {s}
    BY <1>1, <1>2, SplicedOnceFacts DEF RequestsTyped, ListedAsAsked
  <1>5. RequestsTyped'
    <2>1. asked' \in [Sockets -> SUBSET Topics] BY <1>1, <1>2 DEF RequestsTyped
    <2> QED BY <1>1, <1>2, <1>4, <2>1 DEF RequestsTyped
  <1>6. ListedAsAsked'
    <2>1. \A a \in Addresses : /\ Once(byAddress'[a])
                               /\ \A t \in Sockets : t \in Elements(byAddress'[a]) <=> a \in asked'[t]
      BY <1>1, <1>2, <1>3, Names DEF ListedAsAsked
    <2>2. \A t \in Sockets : t \in Elements(inv') <=> "inv" \in asked'[t]
      BY <1>1, <1>3, <1>4 DEF ListedAsAsked
    <2>3. \A t \in Sockets : open'[t] # "yes" => asked'[t] = {}
      BY <1>1, <1>2 DEF ListedAsAsked, RequestsTyped
    <2> QED BY <1>4, <2>1, <2>2, <2>3 DEF ListedAsAsked
  <1> QED BY <1>2, <1>5, <1>6, ListsLeft DEF RequestsInv

LEMMA CloseKeeps ==
    ASSUME RequestsInv, NEW s \in Sockets, Close(s) PROVE RequestsInv'
PROOF
  <1>1. RequestsTyped /\ ListedAsAsked BY DEF RequestsInv
  <1>2. /\ open' = [open EXCEPT ![s] = "closed"]
        /\ lists' = [n \in Lists |-> Spliced(lists[n], s)]
        /\ byAddress' = Removed(s, Addresses)
        /\ inv' = Spliced(inv, s) /\ asked' = [asked EXCEPT ![s] = {}]
        /\ doubled' = StillDoubled(lists')
    BY DEF Close, ListsWithout, AllOf
  <1>3. \A t \in Sockets : \A x : x \in asked'[t] <=> (x \in asked[t] /\ t # s)
    BY <1>1, <1>2 DEF RequestsTyped
  <1>4. \A n \in Lists : /\ lists'[n] \in Seq(Sockets)
                         /\ Elements(lists'[n]) \subseteq Elements(lists[n])
                         /\ \A t : Single(lists[n], t) => Single(lists'[n], t)
                         /\ Single(lists[n], s) => s \notin Elements(lists'[n])
    <2> SUFFICES ASSUME NEW n \in Lists
                 PROVE  /\ lists'[n] \in Seq(Sockets)
                        /\ Elements(lists'[n]) \subseteq Elements(lists[n])
                        /\ \A t : Single(lists[n], t) => Single(lists'[n], t)
                        /\ Single(lists[n], s) => s \notin Elements(lists'[n])
      OBVIOUS
    <2>1. lists[n] \in Seq(Sockets) BY <1>1 DEF RequestsTyped
    <2>2. lists'[n] = Spliced(lists[n], s) BY <1>2
    <2> QED BY <2>1, <2>2, SplicedFacts
  <1>5. lists' \in [Lists -> Seq(Sockets)]
    <2>1. lists' = [n \in Lists |-> lists'[n]] BY <1>2
    <2> QED BY <1>4, <2>1
  <1>6. \A t \in Sockets : (open'[t] # "yes" /\ open[t] = "yes") => t = s
    BY <1>1, <1>2 DEF RequestsTyped
  <1>7. DoubledTold' /\ doubled' \subseteq Sockets \X Lists
    <2>1. \A t \in Sockets : (open'[t] # "yes" /\ open[t] = "yes") =>
            \A n \in Lists : Single(lists[n], t) => t \notin Elements(lists'[n])
      BY <1>4, <1>6
    <2> QED BY <1>2, <1>4, <1>5, <2>1, TakenOut
  <1>8. \A a \in Addresses :
            /\ byAddress'[a] \in Seq(Sockets) /\ Once(byAddress'[a])
            /\ \A t \in Sockets : t \in Elements(byAddress'[a]) <=> a \in asked'[t]
    BY <1>2, <1>3, RemovedFacts
  <1>9. /\ inv' \in Seq(Sockets) /\ Once(inv') /\ Elements(inv') = Elements(inv) \ {s}
    BY <1>1, <1>2, SplicedOnceFacts DEF RequestsTyped, ListedAsAsked
  <1>10. RequestsTyped'
    <2>1. asked' \in [Sockets -> SUBSET Topics] BY <1>1, <1>2 DEF RequestsTyped
    <2>2. byAddress' \in [Addresses -> Seq(Sockets)]
      <3>1. byAddress' = [a \in Addresses |-> byAddress'[a]] BY <1>2 DEF Removed
      <3> QED BY <1>8, <3>1
    <2>3. open' \in [Sockets -> {"no", "yes", "closed"}] BY <1>1, <1>2 DEF RequestsTyped
    <2> QED BY <1>5, <1>7, <1>9, <2>1, <2>2, <2>3 DEF RequestsTyped
  <1>11. ListedAsAsked'
    <2>1. \A t \in Sockets : t \in Elements(inv') <=> "inv" \in asked'[t]
      BY <1>1, <1>3, <1>9 DEF ListedAsAsked
    <2>2. \A t \in Sockets : open'[t] # "yes" => asked'[t] = {}
      BY <1>1, <1>2 DEF ListedAsAsked, RequestsTyped
    <2> QED BY <1>8, <1>9, <2>1, <2>2 DEF ListedAsAsked
  <1> QED BY <1>7, <1>10, <1>11 DEF RequestsInv

LEMMA RequestsKeep ==
    ASSUME RequestsInv, Requests PROVE RequestsInv'
PROOF
  <1>1. PICK s \in Sockets :
          \/ Open(s) \/ Close(s)
          \/ \E n \in Lists : Subscribe(s, n) \/ Unsubscribe(s, n)
          \/ \E as \in SUBSET (Addresses \union OddAddresses) \ {{}} :
                SubscribeAddress(s, as) \/ UnsubscribeAddress(s, as)
          \/ SubscribeInv(s) \/ UnsubscribeInv(s)
    BY DEF Requests
  <1>2. ASSUME Open(s) PROVE RequestsInv' BY <1>2, OpenKeeps
  <1>3. ASSUME Close(s) PROVE RequestsInv' BY <1>3, CloseKeeps
  <1>4. ASSUME NEW n \in Lists, Subscribe(s, n) PROVE RequestsInv' BY <1>4, SubscribeKeeps
  <1>5. ASSUME NEW n \in Lists, Unsubscribe(s, n) PROVE RequestsInv' BY <1>5, UnsubscribeKeeps
  <1>6. ASSUME NEW as \in SUBSET (Addresses \union OddAddresses), SubscribeAddress(s, as)
        PROVE  RequestsInv'
    BY <1>6, SubscribeAddressKeeps
  <1>7. ASSUME NEW as \in SUBSET (Addresses \union OddAddresses), UnsubscribeAddress(s, as)
        PROVE  RequestsInv'
    BY <1>7, UnsubscribeAddressKeeps
  <1>8. ASSUME SubscribeInv(s) PROVE RequestsInv' BY <1>8, SubscribeInvKeeps
  <1>9. ASSUME UnsubscribeInv(s) PROVE RequestsInv' BY <1>9, UnsubscribeInvKeeps
  <1> QED BY <1>1, <1>2, <1>3, <1>4, <1>5, <1>6, <1>7, <1>8, <1>9

-----------------------------------------------------------------------------
(* Messages.                                                               *)

MessagesTyped ==
    /\ listeners \in 0..MaxListeners /\ published \in 0..MaxPublished /\ polls \in Nat
    /\ pending \in [Items -> Nat]
    /\ known \in [{"tx", "block"} -> Seq(Items)]
    /\ \A k \in {"tx", "block"} : Len(known[k]) <= Capacity
    /\ told \in [Counted -> Nat]
    /\ forgotten \in [Items -> Nat]

Marked(x) == IF Known(x) THEN 1 ELSE 0
Polled(x) == IF x \in Blocks THEN polls ELSE 0

\* ToldOnce, counting the first time only while the item is known: what was never
\* announced was never told.
ToldTold ==
    \A k \in Counted : told[k] <= Marked(k[2]) + forgotten[k[2]] + Polled(k[2])

MessagesInv == MessagesTyped /\ ToldTold

\* A walk over a list reaches a socket that is in it once, once.
LEMMA ReachedOnce ==
    ASSUME NEW s, Once(s) PROVE Reached(s) \in {0, 1}
PROOF
  <1> DEFINE P == {i \in 1..Len(s) : s[i] = Watcher}
  <1>1. CASE P = {} BY <1>1, FS_EmptySet DEF Reached
  <1>2. CASE P # {}
    <2>1. PICK i \in P : TRUE BY <1>2
    <2>2. P = {i} BY <2>1 DEF Once
    <2> QED BY <2>2, FS_Singleton DEF Reached
  <1> QED BY <1>1, <1>2

LEMMA AnnouncedOnce ==
    ASSUME RequestsInv, NEW x \in Items, NEW k \in Counted
    PROVE  Announced(k, x) \in {0, 1} /\ (k[2] # x => Announced(k, x) = 0)
PROOF
  <1>1. Reached(inv) \in {0, 1} BY ReachedOnce DEF RequestsInv, ListedAsAsked
  <1>2. \A a \in Addresses : Reached(byAddress[a]) \in {0, 1}
    BY ReachedOnce DEF RequestsInv, ListedAsAsked
  <1>3. x \in Txs => Touches[x] \subseteq Addresses BY SubscriptionAssumption
  <1> QED BY <1>1, <1>2, <1>3 DEF Announced

\* LRU.get
LEMMA RefreshedFacts ==
    ASSUME NEW s \in Seq(Items), NEW x \in Items
    PROVE  /\ Refreshed(s, x) \in Seq(Items)
           /\ x \in Elements(Refreshed(s, x))
           /\ Elements(s) \subseteq Elements(Refreshed(s, x))
           /\ x \in Elements(s) => Len(Refreshed(s, x)) = Len(s)
           /\ x \notin Elements(s) => Len(Refreshed(s, x)) = Len(s) + 1
PROOF
  <1> DEFINE r == Spliced(s, x)
  <1>1. /\ r \in Seq(Items)
        /\ x \in Elements(s) => Len(r) = Len(s) - 1
        /\ x \notin Elements(s) => r = s
        /\ Elements(s) \subseteq Elements(r) \union {x}
    BY SplicedFacts
  <1> HIDE DEF r
  <1>2. /\ Append(r, x) \in Seq(Items) /\ Len(Append(r, x)) = Len(r) + 1
        /\ Elements(Append(r, x)) = Elements(r) \union {x}
    BY <1>1, PushedFacts
  <1>3. Refreshed(s, x) = Append(r, x) BY DEF Refreshed, r
  <1>4. Len(s) \in Nat BY LenProperties
  <1> QED BY <1>1, <1>2, <1>3, <1>4

\* LRU.set of a key that is not there
LEMMA StoredFacts ==
    ASSUME NEW s \in Seq(Items), NEW x \in Items, Len(s) <= Capacity, x \notin Elements(s)
    PROVE  /\ Stored(s, x) \in Seq(Items) /\ Len(Stored(s, x)) <= Capacity
           /\ x \in Elements(Stored(s, x))
           /\ Elements(s) \subseteq Elements(Stored(s, x)) \union Dropped(s, x)
PROOF
  <1>1. Len(s) \in Nat /\ Capacity \in Nat \ {0} BY LenProperties, SubscriptionAssumption
  <1>2. CASE Full(s, x)
    <2>1. s # <<>>
      <3>1. Len(s) # 0 BY <1>1, <1>2 DEF Full
      <3> QED BY <3>1, EmptySeq
    <2>2. /\ Tail(s) \in Seq(Items) /\ Len(Tail(s)) = Len(s) - 1
          /\ \A i \in 1..(Len(s) - 1) : Tail(s)[i] = s[i + 1]
      BY <2>1, HeadTailProperties
    <2>3. Elements(s) \subseteq Elements(Tail(s)) \union {Head(s)}
      <3> SUFFICES ASSUME NEW i \in 1..Len(s) PROVE s[i] \in Elements(Tail(s)) \union {Head(s)}
        BY DEF Elements
      <3>1. CASE i = 1
        <4>1. s[1] = Head(s) BY <2>1, HeadTailProperties
        <4> QED BY <3>1, <4>1
      <3>2. CASE i # 1
        <4>1. i - 1 \in 1..(Len(s) - 1) /\ (i - 1) + 1 = i BY <1>1, <3>2
        <4>2. Tail(s)[i - 1] = s[i] BY <2>2, <4>1
        <4>3. i - 1 \in 1..Len(Tail(s)) BY <2>2, <4>1
        <4>4. s[i] \in Elements(Tail(s)) BY <4>2, <4>3 DEF Elements
        <4> QED BY <4>4
      <3> QED BY <3>1, <3>2
    <2>4. /\ Append(Tail(s), x) \in Seq(Items) /\ Len(Append(Tail(s), x)) = Len(s)
          /\ Elements(Append(Tail(s), x)) = Elements(Tail(s)) \union {x}
      <3>1. /\ Append(Tail(s), x) \in Seq(Items)
            /\ Len(Append(Tail(s), x)) = Len(Tail(s)) + 1
            /\ Elements(Append(Tail(s), x)) = Elements(Tail(s)) \union {x}
        BY <2>2, PushedFacts
      <3> QED BY <1>1, <2>2, <3>1
    <2>5. Stored(s, x) = Append(Tail(s), x) /\ Dropped(s, x) = {Head(s)}
      BY <1>2 DEF Stored, Dropped
    <2> QED BY <2>3, <2>4, <2>5
  <1>3. CASE ~ Full(s, x)
    <2>1. Stored(s, x) = Refreshed(s, x) /\ Dropped(s, x) = {} BY <1>3 DEF Stored, Dropped
    <2>2. Len(s) < Capacity BY <1>1, <1>3 DEF Full
    <2>3. /\ Refreshed(s, x) \in Seq(Items) /\ Len(Refreshed(s, x)) = Len(s) + 1
          /\ x \in Elements(Refreshed(s, x)) /\ Elements(s) \subseteq Elements(Refreshed(s, x))
      BY RefreshedFacts
    <2>4. Len(s) + 1 <= Capacity BY <1>1, <2>2
    <2> QED BY <2>1, <2>3, <2>4
  <1> QED BY <1>2, <1>3

LEMMA ListenKeeps ==
    ASSUME MessagesInv, Listen PROVE MessagesInv'
PROOF
  <1>1. MaxListeners \in Nat BY SubscriptionAssumption
  <1>2. MessagesTyped' BY <1>1 DEF Listen, MessagesInv, MessagesTyped
  <1>3. ToldTold' BY DEF Listen, MessagesInv, ToldTold, Marked, Polled, Known
  <1> QED BY <1>2, <1>3 DEF MessagesInv

LEMMA PublishKeeps ==
    ASSUME MessagesInv, NEW x \in Items, Publish(x) PROVE MessagesInv'
PROOF
  <1>1. MaxListeners \in Nat /\ MaxPublished \in Nat BY SubscriptionAssumption
  <1>2. MessagesTyped' BY <1>1 DEF Publish, MessagesInv, MessagesTyped
  <1>3. ToldTold' BY DEF Publish, MessagesInv, ToldTold, Marked, Polled, Known
  <1> QED BY <1>2, <1>3 DEF MessagesInv

LEMMA PollKeeps ==
    ASSUME RequestsInv, MessagesInv, NEW x \in Items, Poll(x) PROVE MessagesInv'
PROOF
  <1>1. Reached(inv) \in {0, 1} BY ReachedOnce DEF RequestsInv, ListedAsAsked
  <1>2. /\ MaxPublished \in Nat /\ <<"inv", x>> \in Counted /\ x \in Blocks
    BY SubscriptionAssumption DEF Counted, Poll
  <1>3. MessagesTyped /\ ToldTold BY DEF MessagesInv
  <1>4. MessagesTyped' BY <1>1, <1>2, <1>3 DEF Poll, MessagesTyped
  <1>5. ToldTold'
    <2> SUFFICES ASSUME NEW k \in Counted
                 PROVE  told'[k] <= Marked(k[2])' + forgotten'[k[2]] + Polled(k[2])'
      BY DEF ToldTold
    <2>1. told[k] <= Marked(k[2]) + forgotten[k[2]] + Polled(k[2]) BY <1>3 DEF ToldTold
    <2>2. Marked(k[2])' = Marked(k[2]) /\ Marked(k[2]) \in {0, 1} BY DEF Marked, Known, Poll
    <2>3. told[k] \in Nat /\ forgotten[k[2]] \in Nat /\ polls \in Nat
      BY <1>3 DEF MessagesTyped, Counted
    <2>4. forgotten' = forgotten /\ polls' = polls + 1 BY DEF Poll
    <2>5. CASE k = <<"inv", x>>
      <3>1. told'[k] = told[k] + Reached(inv) BY <1>2, <1>3, <2>5 DEF Poll, MessagesTyped
      <3>2. Polled(k[2])' = Polled(k[2]) + 1 /\ Polled(k[2]) \in Nat
        BY <1>2, <2>3, <2>4, <2>5 DEF Polled
      <3> QED BY <1>1, <2>1, <2>2, <2>3, <2>4, <3>1, <3>2
    <2>6. CASE k # <<"inv", x>>
      <3>1. told'[k] = told[k] BY <1>2, <1>3, <2>6 DEF Poll, MessagesTyped
      <3>2. Polled(k[2])' >= Polled(k[2]) /\ Polled(k[2]) \in Nat /\ Polled(k[2])' \in Nat
        BY <2>3, <2>4 DEF Polled
      <3> QED BY <2>1, <2>2, <2>3, <2>4, <3>1, <3>2
    <2> QED BY <2>5, <2>6
  <1> QED BY <1>4, <1>5 DEF MessagesInv

\* A message told at most once more stays within a bound that grows by one.
LEMMA OneMore ==
    ASSUME NEW t \in Nat, NEW f \in Nat, NEW p \in Nat, NEW g \in Nat, NEW a \in {0, 1},
           t <= f + p, f <= g
    PROVE  t + a \in Nat /\ t + a <= 1 + g + p
PROOF OBVIOUS

LEMMA DeliverKeeps ==
    ASSUME RequestsInv, MessagesInv, NEW x \in Items, Deliver(x) PROVE MessagesInv'
PROOF
  <1>1. MessagesTyped /\ ToldTold BY DEF MessagesInv
  <1> DEFINE K == Kind(x)
             s == known[K]
  <1>2. K \in {"tx", "block"} BY DEF Kind
  <1>3. s \in Seq(Items) /\ Len(s) <= Capacity BY <1>1, <1>2 DEF MessagesTyped
  <1>4. Known(x) <=> x \in Elements(s) BY DEF Known
  <1> HIDE DEF K
  <1>5. PICK r \in Seq(Items) :
            /\ known' = [known EXCEPT ![K] = r]
            /\ Len(r) <= Capacity /\ x \in Elements(r)
            /\ Known(x) => Elements(s) \subseteq Elements(r)
            /\ ~ Known(x) => Elements(s) \subseteq Elements(r) \union Dropped(s, x)
    <2>1. CASE Known(x)
      <3>1. known' = [known EXCEPT ![K] = Refreshed(s, x)] BY <2>1 DEF Deliver, K
      <3>2. /\ Refreshed(s, x) \in Seq(Items) /\ Len(Refreshed(s, x)) <= Capacity
            /\ x \in Elements(Refreshed(s, x)) /\ Elements(s) \subseteq Elements(Refreshed(s, x))
        BY <1>3, <1>4, <2>1, RefreshedFacts
      <3> QED BY <2>1, <3>1, <3>2
    <2>2. CASE ~ Known(x)
      <3>1. known' = [known EXCEPT ![K] = Stored(s, x)] BY <2>2 DEF Deliver, K
      <3>2. /\ Stored(s, x) \in Seq(Items) /\ Len(Stored(s, x)) <= Capacity
            /\ x \in Elements(Stored(s, x))
            /\ Elements(s) \subseteq Elements(Stored(s, x)) \union Dropped(s, x)
        BY <1>3, <1>4, <2>2, StoredFacts
      <3> QED BY <2>2, <3>1, <3>2
    <2> QED BY <2>1, <2>2
  <1>6. \A k \in {"tx", "block"} : known'[k] = IF k = K THEN r ELSE known[k]
    BY <1>1, <1>2, <1>5 DEF MessagesTyped
  <1>7. Known(x)' BY <1>2, <1>5, <1>6 DEF Known, K
  <1>8. polls' = polls /\ listeners' = listeners /\ published' = published
    BY DEF Deliver
  <1>9. pending' \in [Items -> Nat] BY <1>1 DEF Deliver, MessagesTyped
  <1>10. known' \in [{"tx", "block"} -> Seq(Items)] /\ \A k \in {"tx", "block"} : Len(known'[k]) <= Capacity
    BY <1>1, <1>5, <1>6 DEF MessagesTyped
  <1>11. CASE Known(x)
    <2>1. told' = told /\ forgotten' = forgotten BY <1>11 DEF Deliver
    <2>2. \A y : Known(y) => Known(y)'
      <3> SUFFICES ASSUME NEW y, Known(y) PROVE Known(y)' OBVIOUS
      <3>1. Kind(y) \in {"tx", "block"} /\ y \in Elements(known[Kind(y)]) BY DEF Kind, Known
      <3>2. y \in Elements(known'[Kind(y)]) BY <1>5, <1>6, <1>11, <3>1
      <3> QED BY <3>2 DEF Known, Kind
    <2>3. ToldTold'
      <3> SUFFICES ASSUME NEW k \in Counted
                   PROVE  told'[k] <= Marked(k[2])' + forgotten'[k[2]] + Polled(k[2])'
        BY DEF ToldTold
      <3>1. told[k] <= Marked(k[2]) + forgotten[k[2]] + Polled(k[2]) BY <1>1 DEF ToldTold
      <3>2. Marked(k[2]) <= Marked(k[2])' /\ Marked(k[2]) \in {0, 1} /\ Marked(k[2])' \in {0, 1}
        BY <2>2 DEF Marked
      <3>3. Polled(k[2])' = Polled(k[2]) BY <1>8 DEF Polled
      <3>4. told[k] \in Nat /\ forgotten[k[2]] \in Nat /\ Polled(k[2]) \in Nat
        BY <1>1 DEF MessagesTyped, Counted, Polled
      <3> QED BY <2>1, <3>1, <3>2, <3>3, <3>4
    <2> QED BY <1>1, <1>8, <1>9, <1>10, <2>1, <2>3 DEF MessagesInv, MessagesTyped
  <1>12. CASE ~ Known(x)
    <2>1. /\ told' = [k \in Counted |-> told[k] + Announced(k, x)]
          /\ forgotten' = [y \in Items |-> IF y \in Dropped(s, x) THEN forgotten[y] + 1 ELSE forgotten[y]]
      BY <1>12 DEF Deliver, Tell, K
    <2>2. \A y : Known(y) => Known(y)' \/ y \in Dropped(s, x)
      <3> SUFFICES ASSUME NEW y, Known(y), y \notin Dropped(s, x) PROVE Known(y)' OBVIOUS
      <3>1. Kind(y) \in {"tx", "block"} /\ y \in Elements(known[Kind(y)]) BY DEF Kind, Known
      <3>2. y \in Elements(known'[Kind(y)]) BY <1>5, <1>6, <1>12, <3>1
      <3> QED BY <3>2 DEF Known, Kind
    <2>3. ASSUME NEW k \in Counted
          PROVE  /\ told'[k] \in Nat
                 /\ told'[k] <= Marked(k[2])' + forgotten'[k[2]] + Polled(k[2])'
      <3>1. told[k] <= Marked(k[2]) + forgotten[k[2]] + Polled(k[2]) BY <1>1 DEF ToldTold
      <3>2. told[k] \in Nat /\ k[2] \in Items /\ forgotten[k[2]] \in Nat /\ Polled(k[2]) \in Nat
        BY <1>1 DEF MessagesTyped, Counted, Polled
      <3>3. Polled(k[2])' = Polled(k[2]) BY <1>8 DEF Polled
      <3>4. Announced(k, x) \in {0, 1} /\ (k[2] # x => Announced(k, x) = 0) BY AnnouncedOnce
      <3>5. told'[k] = told[k] + Announced(k, x) BY <2>1
      <3>6. forgotten'[k[2]] = IF k[2] \in Dropped(s, x) THEN forgotten[k[2]] + 1 ELSE forgotten[k[2]]
        BY <2>1, <3>2
      <3>7. CASE k[2] = x
        <4>1. Marked(k[2]) = 0 /\ Marked(k[2])' = 1 BY <1>7, <1>12, <3>7 DEF Marked
        <4>2. forgotten'[k[2]] >= forgotten[k[2]] /\ forgotten'[k[2]] \in Nat BY <3>2, <3>6
        <4>3. told[k] <= forgotten[k[2]] + Polled(k[2]) BY <3>1, <3>2, <4>1
        <4>4. told'[k] \in Nat /\ told'[k] <= 1 + forgotten'[k[2]] + Polled(k[2])
          <5>1. /\ told[k] \in Nat /\ forgotten[k[2]] \in Nat /\ Polled(k[2]) \in Nat
                /\ forgotten'[k[2]] \in Nat /\ Announced(k, x) \in {0, 1}
            BY <3>2, <3>4, <4>2
          <5>2. forgotten[k[2]] <= forgotten'[k[2]] BY <4>2, <5>1
          <5>3. /\ told[k] + Announced(k, x) \in Nat
                /\ told[k] + Announced(k, x) <= 1 + forgotten'[k[2]] + Polled(k[2])
            BY ONLY <4>3, <5>1, <5>2, OneMore
          <5> QED BY ONLY <3>5, <5>3
        <4> QED BY <3>3, <4>1, <4>4
      <3>8. CASE k[2] # x
        <4>1. Marked(k[2]) \in {0, 1} /\ Marked(k[2])' \in {0, 1} BY DEF Marked
        <4>2. Marked(k[2]) <= Marked(k[2])' \/ k[2] \in Dropped(s, x) BY <2>2 DEF Marked
        <4>3. told'[k] = told[k]
          <5>1. Announced(k, x) = 0 BY <3>4, <3>8
          <5> QED BY <3>2, <3>5, <5>1
        <4>4. CASE k[2] \in Dropped(s, x)
          <5>1. forgotten'[k[2]] = forgotten[k[2]] + 1 BY <3>6, <4>4
          <5> QED BY <3>1, <3>2, <3>3, <4>1, <4>3, <5>1
        <4>5. CASE k[2] \notin Dropped(s, x)
          <5>1. forgotten'[k[2]] = forgotten[k[2]] BY <3>6, <4>5
          <5>2. Marked(k[2]) <= Marked(k[2])' BY <4>2, <4>5
          <5> QED BY <3>1, <3>2, <3>3, <4>1, <4>3, <5>1, <5>2
        <4> QED BY <4>4, <4>5
      <3> QED BY <3>7, <3>8
    <2>4. told' \in [Counted -> Nat] BY <2>1, <2>3
    <2>5. forgotten' \in [Items -> Nat] BY <1>1, <2>1 DEF MessagesTyped
    <2>6. MessagesTyped' BY <1>1, <1>8, <1>9, <1>10, <2>4, <2>5 DEF MessagesTyped
    <2> QED BY <2>3, <2>6 DEF MessagesInv, ToldTold
  <1> QED BY <1>11, <1>12

-----------------------------------------------------------------------------
SubscriptionsInv == RequestsInv /\ MessagesInv

LEMMA InvHolds == Spec => []SubscriptionsInv
PROOF
  <1>1. Init => SubscriptionsInv
    <2> SUFFICES ASSUME Init PROVE SubscriptionsInv OBVIOUS
    <2>1. RequestsTyped BY EmptySeq DEF Init, RequestsTyped
    <2>2. Len(<<>>) = 0 /\ Elements(<<>>) = {} BY EmptySeq DEF Elements
    <2>3. Once(<<>>) /\ \A s : Single(<<>>, s) BY EmptySeq DEF Once, Single
    <2>4. ListedAsAsked BY <2>2, <2>3 DEF Init, ListedAsAsked
    <2>5. DoubledTold BY <2>2, <2>3 DEF Init, DoubledTold
    <2>6. MessagesTyped BY <2>2, EmptySeq, SubscriptionAssumption DEF Init, MessagesTyped
    <2>7. ToldTold BY DEF Init, ToldTold, Marked, Polled, Counted
    <2> QED BY <2>1, <2>4, <2>5, <2>6, <2>7 DEF SubscriptionsInv, RequestsInv, MessagesInv
  <1>2. SubscriptionsInv /\ [Next]_vars => SubscriptionsInv'
    <2> SUFFICES ASSUME RequestsInv, MessagesInv, [Next]_vars PROVE SubscriptionsInv'
      BY DEF SubscriptionsInv
    <2>1. ASSUME UNCHANGED requests PROVE RequestsInv'
      BY <2>1 DEF requests, RequestsInv, RequestsTyped, ListedAsAsked, DoubledTold
    <2>2. ASSUME UNCHANGED messages PROVE MessagesInv'
      BY <2>2 DEF messages, MessagesInv, MessagesTyped, ToldTold, Marked, Polled, Known
    <2>3. CASE Requests
      <3>1. UNCHANGED messages
        BY <2>3 DEF Requests, Open, Close, Subscribe, Unsubscribe, SubscribeAddress,
                    UnsubscribeAddress, SubscribeInv, UnsubscribeInv
      <3> QED BY <2>2, <2>3, <3>1, RequestsKeep DEF SubscriptionsInv
    <2>4. CASE Listen BY <2>1, <2>4, ListenKeeps DEF Listen, SubscriptionsInv
    <2>5. ASSUME NEW x \in Items, Publish(x) PROVE SubscriptionsInv'
      BY <2>1, <2>5, PublishKeeps DEF Publish, SubscriptionsInv
    <2>6. ASSUME NEW x \in Items, Poll(x) PROVE SubscriptionsInv'
      BY <2>1, <2>6, PollKeeps DEF Poll, SubscriptionsInv
    <2>7. ASSUME NEW x \in Items, Deliver(x) PROVE SubscriptionsInv'
      BY <2>1, <2>7, DeliverKeeps DEF Deliver, SubscriptionsInv
    <2>8. CASE UNCHANGED vars BY <2>1, <2>2, <2>8 DEF vars, SubscriptionsInv
    <2> QED BY <2>3, <2>4, <2>5, <2>6, <2>7, <2>8 DEF Next, Messages
  <1> QED BY <1>1, <1>2, PTL DEF Spec

\* Every variable keeps its type, and the caches their limit.
THEOREM TypeCorrect == Spec => []TypeOK
PROOF
  <1>1. SubscriptionsInv => TypeOK
    BY DEF SubscriptionsInv, RequestsInv, RequestsTyped, MessagesInv, MessagesTyped, TypeOK
  <1> QED BY <1>1, InvHolds, PTL

\* Whatever the order of requests and disconnections, a socket is in the list of an
\* address, and of 'inv', exactly while it asked for it, and once.
THEOREM ListsAreAsAsked == Spec => []ListedAsAsked
PROOF
  <1>1. SubscriptionsInv => ListedAsAsked BY DEF SubscriptionsInv, RequestsInv
  <1> QED BY <1>1, InvHolds, PTL

\* However many listeners handle a message and however often it is published, a
\* socket is told once, and once more each time the item fell out of the cache.
THEOREM NobodyIsToldTwice == Spec => []ToldOnce
PROOF
  <1>1. SubscriptionsInv => ToldOnce
    <2> SUFFICES ASSUME MessagesTyped, ToldTold, NEW k \in Counted
                 PROVE  told[k] <= 1 + forgotten[k[2]]
                                     + (IF k[2] \in Blocks THEN polls ELSE 0)
      BY DEF SubscriptionsInv, MessagesInv, ToldOnce
    <2>1. told[k] <= Marked(k[2]) + forgotten[k[2]] + Polled(k[2]) BY DEF ToldTold
    <2>2. told[k] \in Nat /\ forgotten[k[2]] \in Nat /\ Polled(k[2]) \in Nat
      BY DEF MessagesTyped, Counted, Polled
    <2>3. Marked(k[2]) \in {0, 1} BY DEF Marked
    <2>4. told[k] <= 1 + forgotten[k[2]] + Polled(k[2]) BY <2>1, <2>2, <2>3
    <2> QED BY <2>4 DEF Polled
  <1> QED BY <1>1, InvHolds, PTL

\* A closed socket is in no list it subscribed to once, in no list of an address
\* and not in that of 'inv'.
THEOREM ClosedAreGone == Spec => []ClosedHearsNothing
PROOF
  <1>1. SubscriptionsInv => ClosedHearsNothing
    <2> SUFFICES ASSUME ListedAsAsked, DoubledTold, NEW s \in Sockets, open[s] = "closed"
                 PROVE  /\ \A n \in Lists : <<s, n>> \in doubled \/ s \notin Elements(lists[n])
                        /\ \A a \in Addresses : s \notin Elements(byAddress[a])
                        /\ s \notin Elements(inv)
      BY DEF SubscriptionsInv, RequestsInv, ClosedHearsNothing
    <2>1. asked[s] = {} BY DEF ListedAsAsked
    <2> QED BY <2>1 DEF ListedAsAsked, DoubledTold
  <1> QED BY <1>1, InvHolds, PTL
=============================================================================
