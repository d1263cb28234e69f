---------------------------- MODULE Subscriptions ----------------------------
(***************************************************************************)
(* Who is told of new transactions and blocks: the emitter lists of the    *)
(* bitcoind service (subscribe ... unsubscribeAddressAll) and of           *)
(* insight-api ('inv'), the bus of each web socket (bus.js, services/web.js *)
(* socketHandler), and the ZMQ handlers that walk the lists.               *)
(*                                                                         *)
(* A message reaches the handlers once for every listener there is: polls  *)
(* that overlap and a restarted bitcoind each add one, and bitcoind        *)
(* publishes a transaction again when it is mined.  Two LRU caches remember *)
(* what was announced.                                                     *)
(***************************************************************************)
EXTENDS Integers, Sequences, FiniteSets

CONSTANTS
    Sockets,        \* each opens its own bus
    Watcher,        \* the one whose notifications are counted
    Lists,          \* events with a plain list: "rawtransaction", "hashblock"
    Addresses,      \* valid addresses
    OddAddresses,   \* strings Address.isValid rejects
    Txs, Blocks,
    Touches,        \* Touches[t]: the addresses of the inputs and outputs of t
    Capacity,       \* 5000 and 50 in the code: what the LRU caches hold
    MaxSubscribed,  \* bounds: the length of an emitter list,
    MaxListeners,   \* the listeners on the messages of bitcoind,
    MaxPublished    \* and the messages

Items == Txs \union Blocks
Topics == Lists \union {"inv"} \union Addresses
Counted == ({"inv"} \union Addresses) \X Items

ASSUME SubscriptionAssumption ==
    /\ Watcher \in Sockets
    /\ Lists \subseteq {"rawtransaction", "hashblock"}
    /\ Txs \intersect Blocks = {} /\ OddAddresses \intersect Topics = {}
    /\ Addresses \intersect (Lists \union {"inv"}) = {}
    /\ Touches \in [Txs -> SUBSET Addresses]
    /\ Capacity \in Nat \ {0}
    /\ {MaxSubscribed, MaxListeners, MaxPublished} \subseteq Nat

-----------------------------------------------------------------------------
Elements(s) == {s[i] : i \in 1..Len(s)}

\* list.splice(list.indexOf(x), 1) when x is there: its first occurrence goes
Spliced(s, x) ==
    IF x \in Elements(s)
    THEN LET i == CHOOSE j \in 1..Len(s) : s[j] = x /\ \A k \in 1..(j - 1) : s[k] # x
         IN  SubSeq(s, 1, i - 1) \o SubSeq(s, i + 1, Len(s))
    ELSE s

Pushed(s, x) == Append(s, x)
PushedOnce(s, x) == IF x \in Elements(s) THEN s ELSE Append(s, x)

-----------------------------------------------------------------------------
VARIABLES
    open,        \* "no", "yes" or "closed" for each socket
    lists,       \* subscriptions.rawtransaction and .hashblock
    byAddress,   \* subscriptions.address; an empty list stands for no key
    inv,         \* the subscriptions of insight-api
    listeners,   \* 'message' listeners of the ZMQ sockets
    pending,     \* deliveries of each message still to come
    published,   \* how many messages there were
    known,       \* zmqKnownTransactions, zmqKnownBlocks: the oldest first
    \* history: the code has no such fields and no action reads them
    doubled,     \* <<socket, event>>: subscribed to while in the list, and in it since
    asked,       \* the topics each socket asked for and did not give up
    told,        \* how often the watcher was told of an item, on an address or on 'inv'
    forgotten,   \* how often an item fell out of a cache
    polls        \* how often a block was announced by a poll

requests == <<open, lists, byAddress, inv, asked, doubled>>
messages == <<listeners, pending, published, known, told, forgotten, polls>>
vars == <<requests, messages>>

Init ==
    /\ open = [s \in Sockets |-> "no"]
    /\ lists = [n \in Lists |-> <<>>]
    /\ byAddress = [a \in Addresses |-> <<>>]
    /\ inv = <<>>
    /\ listeners = 0 /\ published = 0 /\ polls = 0
    /\ pending = [x \in Items |-> 0]
    /\ known = [k \in {"tx", "block"} |-> <<>>]
    /\ asked = [s \in Sockets |-> {}] /\ doubled = {}
    /\ told = [k \in Counted |-> 0]
    /\ forgotten = [x \in Items |-> 0]

-----------------------------------------------------------------------------
(* Sockets and their buses.                                                *)

Open(s) ==
    /\ open[s] = "no"
    /\ open' = [open EXCEPT ![s] = "yes"]
    /\ UNCHANGED <<lists, byAddress, inv, asked, doubled, messages>>

\* bus.subscribe('bitcoind/rawtransaction'), ('bitcoind/hashblock')
Subscribe(s, name) ==
    /\ open[s] = "yes"
    /\ Len(lists[name]) < MaxSubscribed
    /\ lists' = [lists EXCEPT ![name] = Pushed(@, s)]
    /\ asked' = [asked EXCEPT ![s] = @ \union {name}]
    /\ doubled' = IF s \in Elements(lists[name]) THEN doubled \union {<<s, name>>} ELSE doubled
    /\ UNCHANGED <<open, byAddress, inv, messages>>

StillDoubled(ls) == {d \in doubled : d[1] \in Elements(ls[d[2]])}

Unsubscribe(s, name) ==
    /\ open[s] = "yes"
    /\ lists' = [lists EXCEPT ![name] = Spliced(@, s)]
    /\ asked' = [asked EXCEPT ![s] = @ \ {name}]
    /\ doubled' = StillDoubled(lists')
    /\ UNCHANGED <<open, byAddress, inv, messages>>

\* bus.subscribe('bitcoind/addresstxid', addresses)
\* Without addresses it throws, and the process ends as in NodeLifecycle (Throw).
SubscribeAddress(s, addresses) ==
    /\ open[s] = "yes"
    /\ byAddress' = [a \in Addresses |->
                        IF a \in addresses THEN PushedOnce(byAddress[a], s) ELSE byAddress[a]]
    /\ asked' = [asked EXCEPT ![s] = @ \union (addresses \intersect Addresses)]
    /\ UNCHANGED <<open, lists, inv, doubled, messages>>

Removed(s, addresses) ==
    [a \in Addresses |-> IF a \in addresses THEN Spliced(byAddress[a], s) ELSE byAddress[a]]

UnsubscribeAddress(s, addresses) ==
    /\ open[s] = "yes"
    /\ byAddress' = Removed(s, addresses)
    /\ asked' = [asked EXCEPT ![s] = @ \ addresses]
    /\ UNCHANGED <<open, lists, inv, doubled, messages>>

SubscribeInv(s) ==
    /\ open[s] = "yes"
    /\ inv' = PushedOnce(inv, s)
    /\ asked' = [asked EXCEPT ![s] = @ \union {"inv"}]
    /\ UNCHANGED <<open, lists, byAddress, doubled, messages>>

UnsubscribeInv(s) ==
    /\ open[s] = "yes"
    /\ inv' = Spliced(inv, s)
    /\ asked' = [asked EXCEPT ![s] = @ \ {"inv"}]
    /\ UNCHANGED <<open, lists, byAddress, doubled, messages>>

AllOf(s) == Addresses  \* unsubscribeAddress without addresses: unsubscribeAddressAll

ListsKept(s) == lists  \* mutant: close only looks at the addresses and 'inv'
ListsWithout(s) == [n \in Lists |-> Spliced(lists[n], s)]

\* 'disconnect', bus.close: every unsubscribe once.
Close(s) ==
    /\ open[s] = "yes"
    /\ open' = [open EXCEPT ![s] = "closed"]
    /\ lists' = ListsWithout(s)
    /\ byAddress' = Removed(s, AllOf(s))
    /\ inv' = Spliced(inv, s)
    /\ asked' = [asked EXCEPT ![s] = {}]
    /\ doubled' = StillDoubled(lists')
    /\ UNCHANGED messages

-----------------------------------------------------------------------------
(* Messages of bitcoind.                                                   *)

\* _subscribeZmqEvents
Listen ==
    /\ listeners < MaxListeners
    /\ listeners' = listeners + 1
    /\ UNCHANGED <<requests, pending, published, known, told, forgotten, polls>>

Publish(x) ==
    /\ published < MaxPublished /\ listeners > 0
    /\ published' = published + 1
    /\ pending' = [pending EXCEPT ![x] = @ + listeners]
    /\ UNCHANGED <<requests, listeners, known, told, forgotten, polls>>

Kind(x) == IF x \in Txs THEN "tx" ELSE "block"

\* LRU.get of a key that is there makes it the newest
Refreshed(s, x) == Append(Spliced(s, x), x)

\* LRU.set of a key that is not there: the one used longest ago may go
Full(s, x) == Len(s) = Capacity /\ x \notin Elements(s)
StoredAll(s, x) == Append(s, x)  \* mutant: without a limit
Stored(s, x) == IF Full(s, x) THEN Append(Tail(s), x) ELSE Refreshed(s, x)
Dropped(s, x) == IF Full(s, x) THEN {Head(s)} ELSE {}

NeverKnown(x) == FALSE  \* mutant: the cache is not consulted
Known(x) == x \in Elements(known[Kind(x)])

\* How often a walk over an emitter list reaches the watcher
WalksButLast(s) == Cardinality({i \in 1..(Len(s) - 1) : s[i] = Watcher})  \* mutant: i < length - 1
Reached(s) == Cardinality({i \in 1..Len(s) : s[i] = Watcher})

\* What the watcher hears of one item: 'tx' and 'block' go to the list of 'inv',
\* a transaction to those of its addresses as well.
Announced(k, x) ==
    IF k[2] # x THEN 0
    ELSE IF k[1] = "inv" THEN Reached(inv)
    ELSE IF x \in Txs /\ k[1] \in Touches[x] THEN Reached(byAddress[k[1]]) ELSE 0

Tell(x) == told' = [k \in Counted |-> told[k] + Announced(k, x)]

\* _zmqTransactionHandler and _zmqBlockHandler
Deliver(x) ==
    /\ pending[x] > 0
    /\ pending' = [pending EXCEPT ![x] = @ - 1]
    /\ IF Known(x)
       THEN /\ known' = [known EXCEPT ![Kind(x)] = Refreshed(@, x)]
            /\ UNCHANGED <<told, forgotten>>
       ELSE /\ known' = [known EXCEPT ![Kind(x)] = Stored(@, x)]
            /\ forgotten' = [y \in Items |-> IF y \in Dropped(known[Kind(x)], x)
                                             THEN forgotten[y] + 1 ELSE forgotten[y]]
            /\ Tell(x)
    /\ UNCHANGED <<requests, listeners, published, polls>>

\* checkAndSubscribe emits the best block each time it is called, known or not,
\* to the listeners of 'block'.
Poll(x) ==
    /\ x \in Blocks /\ published < MaxPublished
    /\ published' = published + 1
    /\ polls' = polls + 1
    /\ told' = [told EXCEPT ![<<"inv", x>>] = @ + Reached(inv)]
    /\ UNCHANGED <<requests, listeners, pending, known, forgotten>>

-----------------------------------------------------------------------------
Requests == \E s \in Sockets :
    \/ Open(s) \/ Close(s)
    \/ \E n \in Lists : Subscribe(s, n) \/ Unsubscribe(s, n)
    \/ \E as \in SUBSET (Addresses \union OddAddresses) \ {{}} :
          SubscribeAddress(s, as) \/ UnsubscribeAddress(s, as)
    \/ SubscribeInv(s) \/ UnsubscribeInv(s)

Messages == Listen \/ \E x \in Items : Publish(x) \/ Poll(x)

Next == Requests \/ Messages \/ \E x \in Items : Deliver(x)

Spec == Init /\ [][Next]_vars

\* A message that arrived is handled.
FairSpec == Spec /\ \A x \in Items : WF_vars(Deliver(x))

-----------------------------------------------------------------------------
\* Every variable keeps its type.
TypeOK ==
    /\ open \in [Sockets -> {"no", "yes", "closed"}]
    /\ lists \in [Lists -> Seq(Sockets)]
    /\ byAddress \in [Addresses -> Seq(Sockets)]
    /\ inv \in Seq(Sockets)
    /\ listeners \in 0..MaxListeners /\ published \in 0..MaxPublished /\ polls \in Nat
    /\ pending \in [Items -> Nat]
    /\ known \in [{"tx", "block"} -> Seq(Items)]
    /\ \A k \in {"tx", "block"} : Len(known[k]) <= Capacity
    /\ asked \in [Sockets -> SUBSET Topics] /\ doubled \subseteq Sockets \X Lists
    /\ told \in [Counted -> Nat]
    /\ forgotten \in [Items -> Nat]

Once(s) == \A i, j \in 1..Len(s) : s[i] = s[j] => i = j

\* A socket is in the list of an address, and of 'inv', exactly while it asked
\* for it and its connection is open, and once: whatever the order of repeated
\* requests, requests for addresses with others in them, and disconnections.
ListedAsAsked ==
    /\ \A a \in Addresses : /\ Once(byAddress[a])
                            /\ \A s \in Sockets : s \in Elements(byAddress[a]) <=> a \in asked[s]
    /\ Once(inv) /\ \A s \in Sockets : s \in Elements(inv) <=> "inv" \in asked[s]
    /\ \A s \in Sockets : open[s] # "yes" => asked[s] = {}

\* A socket is told of a transaction once on each address and on 'inv', and once
\* more for every time it fell out of the cache, however many listeners there
\* are and however often bitcoind publishes it; of a block once more for every
\* poll.
ToldOnce ==
    \A k \in Counted :
        told[k] <= 1 + forgotten[k[2]] + (IF k[2] \in Blocks THEN polls ELSE 0)

\* A closed socket is in no list, unless it subscribed to an event while it was in
\* the list already: close takes out one occurrence.
ClosedHearsNothing ==
    \A s \in Sockets : open[s] = "closed" =>
        /\ \A n \in Lists : <<s, n>> \in doubled \/ s \notin Elements(lists[n])
        /\ \A a \in Addresses : s \notin Elements(byAddress[a])
        /\ s \notin Elements(inv)

\* A subscriber of an address that stays is told of every transaction that
\* touches it and that was not announced before.
SubscriberTold ==
    \A t \in Txs : \A a \in Addresses :
        (a \in Touches[t] /\ pending[t] > 0 /\ ~ Known(t) /\ a \in asked[Watcher])
            ~> (told[<<a, t>>] > 0 \/ a \notin asked[Watcher])
=============================================================================
