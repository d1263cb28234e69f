-------------------------- MODULE ApiRequestsProofs --------------------------
(***************************************************************************)
(* What holds of ApiRequests for every client, quota, chain and number of  *)
(* requests: the quota of the rate limiter over any span of time, and the  *)
(* confirmations a page shows.                                             *)
(***************************************************************************)
EXTENDS ApiRequests, FiniteSetTheorems, TLAPS

\* The requests let through since the entry of a client was made.
Passed(c) == IF visits[c] > 0 THEN visits[c] - 1 ELSE 0

\* Those before the entry are as old as the entry, and those before the entry before
\* it an interval old.  An entry lets through its limit at most, so the quota follows.
QuotaInv ==
    \A c \in Clients : Limited(c) =>
        /\ \A k \in Positions(c) : k > Passed(c) + Limit(c) => ages[c][k] = Window(c)
        /\ visits[c] > 0 =>
              \A k \in Positions(c) : k > Passed(c) => ages[c][k] >= Window(c) - left[c]

LimiterInv == LimiterTypeOK /\ QuotaInv

\* The window and the limit of a client are numbers.
LEMMA ClientFields ==
    ASSUME NEW c \in Clients
    PROVE  /\ Window(c) \in Nat \ {0}
           /\ Limit(c) \in Nat \union {-1} /\ (Limited(c) => Limit(c) \in Nat)
BY LimiterAssumption DEF Window, Limit, Limited

\* Nobody has asked for anything.
LEMMA LimiterInvInit == LimiterInit => LimiterInv
<1> SUFFICES ASSUME LimiterInit PROVE LimiterInv
  OBVIOUS
<1>1. ASSUME NEW c \in Clients
      PROVE  /\ visits[c] = 0 /\ left[c] = 0
             /\ \A k \in Positions(c) : ages[c][k] = Window(c)
             /\ ages[c] \in [Positions(c) -> 0..Window(c)]
  BY ClientFields DEF LimiterInit
<1>2. LimiterTypeOK
  BY <1>1, ClientFields DEF LimiterTypeOK, LimiterInit
<1>3. QuotaInv
  BY <1>1 DEF QuotaInv
<1> QED BY <1>2, <1>3 DEF LimiterInv

\* What a step does to one client only leaves the others as they are.
LEMMA PassInv ==
    ASSUME LimiterInv, NEW c \in Clients, Pass(c)
    PROVE  LimiterInv'
<1> USE DEF LimiterInv
<1>1. /\ ~ Exceeded(c)
      /\ visits' = [visits EXCEPT ![c] = VisitsOf(c) + 1]
      /\ left' = [left EXCEPT ![c] = IF visits[c] = 0 THEN Window(c) ELSE @]
      /\ ages' = [ages EXCEPT ![c] = Latest(c)]
  BY DEF Pass, Armed
<1>2. /\ Window(c) \in Nat \ {0} /\ visits[c] \in Nat /\ left[c] \in Nat
      /\ VisitsOf(c) \in Nat /\ VisitsOf(c) >= 1
      /\ visits'[c] = VisitsOf(c) + 1 /\ ages'[c] = Latest(c)
      /\ left'[c] = IF visits[c] = 0 THEN Window(c) ELSE left[c]
      /\ left[c] <= Window(c)
  BY <1>1, ClientFields DEF LimiterTypeOK, VisitsOf
<1>3. ASSUME NEW x \in Clients, x # c
      PROVE  visits'[x] = visits[x] /\ left'[x] = left[x] /\ ages'[x] = ages[x]
  BY <1>1, <1>3 DEF LimiterTypeOK
<1>4. Latest(c) \in [Positions(c) -> 0..Window(c)]
  <2>1. ages[c] \in [Positions(c) -> 0..Window(c)]
    BY DEF LimiterTypeOK
  <2>2. ASSUME NEW k \in Positions(c), k # 1 PROVE k - 1 \in Positions(c)
    BY <2>2, ClientFields DEF Positions
  <2> QED BY <1>2, <2>1, <2>2 DEF Latest
<1>5. LimiterTypeOK'
  <2>1. visits' \in [Clients -> Nat] /\ left' \in [Clients -> Nat]
    BY <1>1, <1>2 DEF LimiterTypeOK
  <2>2. Limited(c) => visits'[c] <= Limit(c) + 1
    BY <1>1, <1>2, ClientFields DEF Exceeded
  <2>3. left'[c] <= Window(c) /\ visits'[c] # 0
    BY <1>2
  <2>4. ages' = [x \in Clients |-> ages'[x]]
    BY <1>1 DEF LimiterTypeOK
  <2>5. ASSUME NEW x \in Clients
        PROVE  /\ Limited(x) => visits'[x] <= Limit(x) + 1
               /\ left'[x] <= Window(x) /\ (visits'[x] = 0 => left'[x] = 0)
               /\ ages'[x] \in [Positions(x) -> 0..Window(x)]
    <3>1. CASE x = c
      BY <1>2, <1>4, <2>2, <2>3, <3>1
    <3>2. CASE x # c
      BY <1>3, <3>2 DEF LimiterTypeOK
    <3> QED BY <3>1, <3>2
  <2> QED BY <2>1, <2>4, <2>5 DEF LimiterTypeOK, Limited, Limit, Window, Positions
<1>6. QuotaInv'
  <2> SUFFICES ASSUME NEW x \in Clients, Limited(x)
               PROVE  /\ \A k \in Positions(x) : k > Passed(x)' + Limit(x) => ages'[x][k] = Window(x)
                      /\ visits'[x] > 0 =>
                            \A k \in Positions(x) : k > Passed(x)' => ages'[x][k] >= Window(x) - left'[x]
    BY DEF QuotaInv, Limited, Limit, Window, Positions
  <2>1. CASE x # c
    BY <1>3, <2>1 DEF QuotaInv, Passed
  <2>2. CASE x = c
    <3>1. Limit(c) \in Nat /\ Passed(c) \in Nat /\ Passed(c)' = Passed(c) + 1
      BY <1>2, <2>2, ClientFields DEF Passed, VisitsOf
    <3>2. ASSUME NEW k \in Positions(c), k > 1
          PROVE  k - 1 \in Positions(c) /\ ages'[c][k] = ages[c][k - 1]
      BY <1>2, <3>1, <3>2 DEF Positions, Latest
    <3>3. ASSUME NEW k \in Positions(c), k > Passed(c)' + Limit(c)
          PROVE  ages'[c][k] = Window(c)
      <4>1. k > 1 /\ k \in Int
        BY <3>1, <3>3 DEF Positions
      <4>2. k - 1 \in Positions(c) /\ k - 1 > Passed(c) + Limit(c)
        BY <3>1, <3>2, <3>3, <4>1
      <4> QED BY <2>2, <3>2, <4>1, <4>2 DEF QuotaInv
    <3>4. ASSUME NEW k \in Positions(c), k > Passed(c)'
          PROVE  ages'[c][k] >= Window(c) - left'[c]
      <4>1. k > 1 /\ k \in Int
        BY <3>1, <3>4 DEF Positions
      <4>2. k - 1 \in Positions(c) /\ k - 1 > Passed(c) /\ ages'[c][k] = ages[c][k - 1]
        BY <3>1, <3>2, <3>4, <4>1
      <4>3. ages[c][k - 1] \in 0..Window(c)
        BY <4>2 DEF LimiterTypeOK
      <4>4. CASE visits[c] = 0
        BY <1>2, <4>2, <4>3, <4>4
      <4>5. CASE visits[c] # 0
        BY <1>2, <2>2, <4>2, <4>5 DEF QuotaInv
      <4> QED BY <4>4, <4>5
    <3> QED BY <2>2, <3>3, <3>4
  <2> QED BY <2>1, <2>2
<1> QED BY <1>5, <1>6

\* A request that is refused makes an entry only where nothing is let through.
LEMMA RefuseInv ==
    ASSUME LimiterInv, NEW c \in Clients, Refuse(c)
    PROVE  LimiterInv'
<1> USE DEF LimiterInv
<1>1. /\ Exceeded(c)
      /\ visits' = [visits EXCEPT ![c] = VisitsOf(c)]
      /\ left' = [left EXCEPT ![c] = IF visits[c] = 0 THEN Window(c) ELSE @]
      /\ ages' = ages
  BY DEF Refuse, Armed
<1>2. /\ Window(c) \in Nat \ {0} /\ visits[c] \in Nat /\ left[c] \in Nat
      /\ Limit(c) \in Nat /\ Limited(c)
      /\ VisitsOf(c) \in Nat /\ VisitsOf(c) >= 1
      /\ visits'[c] = VisitsOf(c)
      /\ left'[c] = IF visits[c] = 0 THEN Window(c) ELSE left[c]
      /\ left[c] <= Window(c)
  BY <1>1, ClientFields DEF LimiterTypeOK, VisitsOf, Exceeded
<1>3. ASSUME NEW x \in Clients, x # c
      PROVE  visits'[x] = visits[x] /\ left'[x] = left[x]
  BY <1>1, <1>3 DEF LimiterTypeOK
<1>4. LimiterTypeOK'
  <2>1. visits' \in [Clients -> Nat] /\ left' \in [Clients -> Nat]
    BY <1>1, <1>2 DEF LimiterTypeOK
  <2>2. visits'[c] <= Limit(c) + 1
    BY <1>2 DEF LimiterTypeOK, VisitsOf
  <2>3. left'[c] <= Window(c) /\ visits'[c] # 0
    BY <1>2
  <2> QED BY <1>1, <1>2, <1>3, <2>1, <2>2, <2>3
          DEF LimiterTypeOK, Limited, Limit, Window, Positions
<1>5. QuotaInv'
  <2> SUFFICES ASSUME NEW x \in Clients, Limited(x)
               PROVE  /\ \A k \in Positions(x) : k > Passed(x)' + Limit(x) => ages'[x][k] = Window(x)
                      /\ visits'[x] > 0 =>
                            \A k \in Positions(x) : k > Passed(x)' => ages'[x][k] >= Window(x) - left'[x]
    BY DEF QuotaInv, Limited, Limit, Window, Positions
  <2>1. CASE x # c
    BY <1>1, <1>3, <2>1 DEF QuotaInv, Passed
  <2>2. CASE x = c
    <3>1. Passed(c)' = Passed(c)
      BY <1>2 DEF Passed, VisitsOf
    <3>2. \A k \in Positions(c) : ages[c][k] \in 0..Window(c)
      BY DEF LimiterTypeOK
    <3> QED BY <1>1, <1>2, <2>2, <3>1, <3>2 DEF QuotaInv
  <2> QED BY <2>1, <2>2
<1> QED BY <1>4, <1>5

\* An entry is removed when it is an interval old, and so is all before it.
LEMMA ForgetInv ==
    ASSUME LimiterInv, NEW c \in Clients, Forget(c)
    PROVE  LimiterInv'
<1> USE DEF LimiterInv
<1>1. /\ visits[c] > 0 /\ left[c] = 0
      /\ visits' = [visits EXCEPT ![c] = 0]
      /\ left' = left /\ ages' = ages
  BY DEF Forget
<1>2. \A x \in Clients : visits'[x] = IF x = c THEN 0 ELSE visits[x]
  BY <1>1 DEF LimiterTypeOK
<1>3. LimiterTypeOK'
  <2>1. visits' \in [Clients -> Nat]
    BY <1>1 DEF LimiterTypeOK
  <2>2. \A x \in Clients : Limited(x) => visits'[x] <= Limit(x) + 1
    BY <1>2, ClientFields DEF LimiterTypeOK
  <2> QED BY <1>1, <1>2, <2>1, <2>2 DEF LimiterTypeOK, Limited, Limit, Window, Positions
<1>4. QuotaInv'
  <2> SUFFICES ASSUME NEW x \in Clients, Limited(x)
               PROVE  /\ \A k \in Positions(x) : k > Passed(x)' + Limit(x) => ages'[x][k] = Window(x)
                      /\ visits'[x] > 0 =>
                            \A k \in Positions(x) : k > Passed(x)' => ages'[x][k] >= Window(x) - left'[x]
    BY DEF QuotaInv, Limited, Limit, Window, Positions
  <2>1. CASE x # c
    BY <1>1, <1>2, <2>1 DEF QuotaInv, Passed
  <2>2. CASE x = c
    <3>1. Passed(c)' = 0 /\ Passed(c) \in Nat /\ Passed(c) <= Limit(c) /\ Limit(c) \in Nat
      BY <1>1, <1>2, <2>2, ClientFields DEF Passed, LimiterTypeOK
    <3>2. ASSUME NEW k \in Positions(c), k > Limit(c) PROVE ages[c][k] = Window(c)
      <4>1. k \in Int /\ k > Passed(c)
        BY <3>1, <3>2 DEF Positions
      <4>2. ages[c][k] >= Window(c) - left[c] /\ ages[c][k] \in 0..Window(c)
        BY <1>1, <2>2, <4>1 DEF QuotaInv, LimiterTypeOK
      <4> QED BY <1>1, <4>2, ClientFields
    <3> QED BY <1>1, <1>2, <2>2, <3>1, <3>2
  <2> QED BY <2>1, <2>2
<1> QED BY <1>3, <1>4

\* Time passes for requests and timers alike, and timers may be late.
LEMMA TickInv ==
    ASSUME LimiterInv, Tick
    PROVE  LimiterInv'
<1> USE DEF LimiterInv
<1>1. visits' = visits
  BY DEF Tick
<1>2. ASSUME NEW c \in Clients
      PROVE  /\ left[c] \in Nat /\ Window(c) \in Nat
             /\ left'[c] = IF left[c] > 0 THEN left[c] - 1 ELSE 0
             /\ \A k \in Positions(c) :
                   /\ ages[c][k] \in 0..Window(c)
                   /\ ages'[c][k] = IF ages[c][k] < Window(c) THEN ages[c][k] + 1 ELSE Window(c)
  BY ClientFields DEF Tick, LimiterTypeOK
<1>3. LimiterTypeOK'
  <2>1. left' \in [Clients -> Nat]
    BY <1>2 DEF Tick
  <2>2. ages' = [c \in Clients |-> ages'[c]]
    BY DEF Tick
  <2>3. ASSUME NEW c \in Clients PROVE ages'[c] \in [Positions(c) -> 0..Window(c)]
    <3>1. ages'[c] = [k \in Positions(c) |->
                        IF ages[c][k] < Window(c) THEN ages[c][k] + 1 ELSE Window(c)]
      BY DEF Tick
    <3> QED BY <1>2, <3>1
  <2>4. ASSUME NEW c \in Clients
        PROVE  left'[c] <= Window(c) /\ (visits[c] = 0 => left'[c] = 0)
    BY <1>2 DEF LimiterTypeOK
  <2> QED BY <1>1, <2>1, <2>2, <2>3, <2>4 DEF LimiterTypeOK, Limited, Limit, Window, Positions
<1>4. QuotaInv'
  <2> SUFFICES ASSUME NEW c \in Clients, Limited(c)
               PROVE  /\ \A k \in Positions(c) : k > Passed(c) + Limit(c) => ages'[c][k] = Window(c)
                      /\ visits[c] > 0 =>
                            \A k \in Positions(c) : k > Passed(c) => ages'[c][k] >= Window(c) - left'[c]
    BY <1>1 DEF QuotaInv, Limited, Limit, Window, Positions, Passed
  <2> QED BY <1>2 DEF QuotaInv
<1> QED BY <1>3, <1>4

\* One step per action of the limiter.
LEMMA LimiterInvNext == LimiterInv /\ [LimiterNext]_limiterVars => LimiterInv'
<1> SUFFICES ASSUME LimiterInv, [LimiterNext]_limiterVars PROVE LimiterInv'
  OBVIOUS
<1>1. CASE Tick
  BY <1>1, TickInv
<1>2. CASE \E c \in Clients : Pass(c) \/ Refuse(c) \/ Forget(c)
  BY <1>2, PassInv, RefuseInv, ForgetInv
<1>3. CASE UNCHANGED limiterVars
  BY <1>3 DEF limiterVars, LimiterInv, LimiterTypeOK, QuotaInv, Passed, Limited, Limit,
              Window, Positions
<1> QED BY <1>1, <1>2, <1>3 DEF LimiterNext

\* The invariant leaves no room for more than twice the limit in an interval.
LEMMA QuotaFollows == LimiterInv => SlidingQuota
<1> SUFFICES ASSUME LimiterInv, NEW c \in Clients, Limited(c)
             PROVE  ages[c][2 * Limit(c) + 1] = Window(c)
  BY DEF SlidingQuota
<1>1. Limit(c) \in Nat /\ Passed(c) \in Nat /\ Passed(c) <= Limit(c)
  BY ClientFields DEF LimiterInv, LimiterTypeOK, Passed
<1>2. 2 * Limit(c) + 1 \in Positions(c) /\ 2 * Limit(c) + 1 > Passed(c) + Limit(c)
  BY <1>1 DEF Positions
<1> QED BY <1>2 DEF LimiterInv, QuotaInv

\* The limiter lets no client pass more than twice its limit in any span as long as
\* its interval, whatever the limits and however late its timers.
THEOREM QuotaHolds == LimiterSpec => []SlidingQuota
<1>1. LimiterInit => LimiterInv
  BY LimiterInvInit
<1>2. LimiterInv /\ [LimiterNext]_limiterVars => LimiterInv'
  BY LimiterInvNext
<1>3. LimiterInv => SlidingQuota
  BY QuotaFollows
<1> QED BY <1>1, <1>2, <1>3, PTL DEF LimiterSpec

-----------------------------------------------------------------------------
(* The composition.                                                        *)

\* What the routes do is what the limiter does, or nothing it sees.
LEMMA ApiStepLimits == [ApiNext]_apiVars => [LimiterNext]_limiterVars
BY DEF ApiNext, apiVars, BlockRequest, OtherRequest, RefusedRequest, Timers, LimiterNext

\* The quota also holds where the limiter sits in front of the routes.
THEOREM QuotaHoldsForApi == ApiSpec => []SlidingQuota
<1>1. ApiInit => LimiterInv
  BY LimiterInvInit DEF ApiInit
<1>2. LimiterInv /\ [ApiNext]_apiVars => LimiterInv'
  BY LimiterInvNext, ApiStepLimits
<1>3. LimiterInv => SlidingQuota
  BY QuotaFollows
<1> QED BY <1>1, <1>2, <1>3, PTL DEF ApiSpec

-----------------------------------------------------------------------------
(* The confirmations of a page.                                            *)

PagePCs == {"none", "block", "object", "number", "other", "info", "informed", "bytes", "stuck"}

Pages == [pc: PagePCs, block: Blocks \union {"none"}, found: Blocks \union {"none"},
          to: Int, whole: BOOLEAN, inChain: BOOLEAN, shared: BOOLEAN, tips: SUBSET Int]

\* The types the argument needs.
PageShapes ==
    /\ chain \in Seq(Blocks) /\ height \in Int /\ announced \subseteq Int
    /\ cache \in [Blocks -> [found: Blocks \union {"none"}, to: Int]]
    /\ pages \in [Slots -> Pages]

\* Whatever the height of the service may become is a tip of every page under way,
\* so anyone may count the block in the cache anew; and the height of an answer on
\* its way is one.
PageTips(r) ==
    /\ pages[r].block \in Blocks
    /\ Len(chain) \in pages[r].tips /\ height \in pages[r].tips /\ announced \subseteq pages[r].tips
    /\ pages[r].shared => pages[r].pc = "bytes"
    /\ pages[r].pc = "informed" => pages[r].to \in pages[r].tips
    /\ pages[r].pc = "bytes" => Shown(r) \in pages[r].tips

TipsInv == PageShapes /\ \A r \in Slots : Active(r) => PageTips(r)

\* The chain is a sequence of blocks whose length is a number.
LEMMA ChainShape ==
    ASSUME NEW c \in Chains
    PROVE  c \in Seq(Blocks) /\ Len(c) \in Nat
BY PagesAssumption

\* No page is a page.
LEMMA NoPageShape == NoPage \in Pages /\ NoPage.pc = "none" /\ NoPage.shared = FALSE
BY DEF NoPage, Pages, PagePCs

\* At the start nothing is asked for.
LEMMA TipsInit == PagesInit => TipsInv
<1> SUFFICES ASSUME PagesInit PROVE TipsInv
  OBVIOUS
<1>1. chain \in Seq(Blocks) /\ height \in Int
  BY ChainShape DEF PagesInit
<1>2. pages \in [Slots -> Pages] /\ \A r \in Slots : ~ Active(r)
  BY NoPageShape DEF PagesInit, Active
<1>3. cache \in [Blocks -> [found: Blocks \union {"none"}, to: Int]]
  BY DEF PagesInit, Nothing
<1> QED BY <1>1, <1>2, <1>3 DEF TipsInv, PageShapes, PagesInit

\* A new tip is added to the tips of every page under way.
LEMMA MoveTips ==
    ASSUME TipsInv, NEW c \in Chains, Move(c)
    PROVE  TipsInv'
<1>1. /\ chain' = c /\ announced' = announced \union {Len(c)}
      /\ pages' = [r \in Slots |-> IF Active(r)
                                   THEN [pages[r] EXCEPT !.tips = @ \union {Len(c)}] ELSE pages[r]]
      /\ UNCHANGED <<height, cache>>
  BY DEF Move
<1>2. c \in Seq(Blocks) /\ Len(c) \in Int
  BY ChainShape
<1>3. PageShapes'
  <2>1. ASSUME NEW r \in Slots
        PROVE  [pages[r] EXCEPT !.tips = @ \union {Len(c)}] \in Pages
    <3>1. pages[r] \in Pages
      BY DEF TipsInv, PageShapes
    <3>2. pages[r].tips \union {Len(c)} \in SUBSET Int
      BY <1>2, <3>1 DEF Pages
    <3> QED BY <3>1, <3>2 DEF Pages
  <2>2. \A r \in Slots : pages[r] \in Pages
    BY DEF TipsInv, PageShapes
  <2>3. pages' \in [Slots -> Pages]
    BY <1>1, <2>1, <2>2
  <2> QED BY <1>1, <1>2, <2>3 DEF TipsInv, PageShapes
<1>4. ASSUME NEW r \in Slots, Active(r)' PROVE PageTips(r)'
  <2>1. pages[r] \in Pages /\ pages'[r] = IF Active(r)
                                   THEN [pages[r] EXCEPT !.tips = @ \union {Len(c)}] ELSE pages[r]
    BY <1>1 DEF TipsInv, PageShapes
  <2>2. Active(r)
    BY <1>4, <2>1 DEF Active
  <2>3. /\ pages'[r].tips = pages[r].tips \union {Len(c)}
        /\ pages'[r].pc = pages[r].pc /\ pages'[r].block = pages[r].block
        /\ pages'[r].to = pages[r].to /\ pages'[r].shared = pages[r].shared
    BY <2>1, <2>2 DEF Pages
  <2> QED BY <1>1, <2>2, <2>3 DEF TipsInv, PageTips, Shown
<1> QED BY <1>3, <1>4 DEF TipsInv

\* The height the service learns was announced.
LEMMA HeightTips ==
    ASSUME TipsInv, NEW h, HeightArrives(h)
    PROVE  TipsInv'
<1>1. /\ h \in announced /\ announced' = announced \ {h} /\ height' \in {h, height}
      /\ UNCHANGED <<chain, cache, pages>>
  BY DEF HeightArrives, pagesChain, answers
<1> QED BY <1>1 DEF TipsInv, PageShapes, PageTips, Shown, Active

\* A request that finds the block in the cache counts it to the height of the
\* service, for itself and for every page that shares it.
LEMMA RequestTips ==
    ASSUME TipsInv, NEW r \in Slots, NEW b \in Blocks, Request(r, b)
    PROVE  TipsInv'
<1> DEFINE tips == {height, Len(chain)} \union announced
           page == [NoPage EXCEPT !.block = b, !.tips = tips]
<1>1. UNCHANGED <<chain, height, announced>> /\ ~ Active(r)
  BY DEF Request, pagesChain, service
<1>2. tips \in SUBSET Int
  <2>1. Len(chain) \in Int /\ height \in Int /\ announced \subseteq Int
    BY DEF TipsInv, PageShapes
  <2> QED BY <2>1
<1>blank. page \in Pages /\ page.block = b /\ ~ page.shared /\ page.tips = tips
  <2> HIDE DEF tips
  <2> QED BY <1>2, NoPageShape DEF Pages
<1>3. CASE cache[b] # Nothing
  <2> DEFINE shown == [page EXCEPT !.pc = "bytes", !.found = cache[b].found, !.shared = TRUE]
  <2>1. cache' = [cache EXCEPT ![b].to = height] /\ pages' = [pages EXCEPT ![r] = shown]
    BY <1>3 DEF Request, Becomes, Recounted
  <2>2. /\ shown \in Pages /\ shown.pc = "bytes" /\ shown.block = b /\ shown.shared
        /\ shown.tips = tips
    <3>1. cache[b].found \in Blocks \union {"none"}
      BY DEF TipsInv, PageShapes
    <3> HIDE DEF tips, page
    <3> QED BY <1>blank, <3>1 DEF Pages, PagePCs
  <2>3. /\ cache' \in [Blocks -> [found: Blocks \union {"none"}, to: Int]]
        /\ cache'[b].to = height
        /\ \A x \in Blocks : x # b => cache'[x] = cache[x]
    BY <2>1 DEF TipsInv, PageShapes
  <2> HIDE DEF shown, page
  <2>4. pages'[r] = shown /\ \A s \in Slots : s # r => pages'[s] = pages[s]
    BY <2>1 DEF TipsInv, PageShapes
  <2>5. PageShapes'
    BY <1>1, <2>1, <2>2, <2>3 DEF TipsInv, PageShapes
  <2>6. PageTips(r)'
    BY <1>1, <2>2, <2>3, <2>4 DEF PageTips, Shown
  <2>7. ASSUME NEW s \in Slots, s # r, Active(s)' PROVE PageTips(s)'
    <3>1. Active(s) /\ PageTips(s) /\ pages'[s] = pages[s]
      BY <2>4, <2>7 DEF Active, TipsInv
    <3>2. Shown(s)' \in {Shown(s), height}
      BY <2>3, <3>1 DEF Shown, PageTips
    <3> QED BY <1>1, <3>1, <3>2 DEF PageTips
  <2> QED BY <2>5, <2>6, <2>7 DEF TipsInv
<1>4. CASE cache[b] = Nothing
  <2> DEFINE asked == [page EXCEPT !.pc = "block"]
  <2>1. cache' = cache /\ pages' = [pages EXCEPT ![r] = asked]
    BY <1>4 DEF Request, Becomes
  <2>2. /\ asked \in Pages /\ asked.pc = "block" /\ asked.block = b /\ ~ asked.shared
        /\ asked.tips = tips
    <3> HIDE DEF tips, page
    <3> QED BY <1>blank DEF Pages, PagePCs
  <2> HIDE DEF asked, page
  <2>3. pages'[r] = asked /\ \A s \in Slots : s # r => pages'[s] = pages[s]
    BY <2>1 DEF TipsInv, PageShapes
  <2>4. PageShapes'
    BY <1>1, <2>1, <2>2 DEF TipsInv, PageShapes
  <2>5. ASSUME NEW s \in Slots, Active(s)' PROVE PageTips(s)'
    BY <1>1, <2>1, <2>2, <2>3, <2>5 DEF TipsInv, PageTips, Shown, Active
  <2> QED BY <2>4, <2>5 DEF TipsInv
<1> QED BY <1>3, <1>4

\* A step of one request that leaves the cache alone.
LEMMA ServedTips ==
    ASSUME TipsInv, NEW r \in Slots, NEW page \in Pages, Becomes(r, page),
           UNCHANGED <<chain, height, announced, cache>>,
           page.pc # "none" => /\ Active(r)
                               /\ page.tips = pages[r].tips /\ page.block = pages[r].block
                               /\ ~ page.shared
                               /\ page.pc \in {"informed", "bytes"} => page.to \in page.tips
    PROVE  TipsInv'
<1>1. pages'[r] = page /\ \A s \in Slots : s # r => pages'[s] = pages[s]
  BY DEF Becomes, TipsInv, PageShapes
<1>2. PageShapes'
  BY DEF TipsInv, PageShapes, Becomes
<1>3. ASSUME NEW s \in Slots, Active(s)' PROVE PageTips(s)'
  BY <1>1, <1>3 DEF TipsInv, PageTips, Shown, Active
<1> QED BY <1>2, <1>3 DEF TipsInv
\* What goes on, errs or finds a block changes one page only.
LEMMA GoesTips ==
    ASSUME TipsInv, NEW r \in Slots, Active(r), ~ pages[r].shared,
           \/ \E pc \in PagePCs \ {"none", "informed", "bytes"} : Goes(r, pc)
           \/ \E b \in Blocks, whole \in BOOLEAN : Finds(r, b, whole)
           \/ Errs(r)
    PROVE  TipsInv'
<1>1. pages[r] \in Pages
  BY DEF TipsInv, PageShapes
<1>2. CASE Errs(r)
  BY <1>2, NoPageShape, ServedTips DEF Errs, pagesChain, service
<1>3. CASE \E pc \in PagePCs \ {"none", "informed", "bytes"} : Goes(r, pc)
  <2>1. PICK pc \in PagePCs \ {"none", "informed", "bytes"} : Goes(r, pc)
    BY <1>3
  <2> DEFINE page == [pages[r] EXCEPT !.pc = pc]
  <2>2. /\ page \in Pages /\ page.pc = pc /\ ~ page.shared
        /\ page.tips = pages[r].tips /\ page.block = pages[r].block
    BY <1>1, <2>1 DEF Pages
  <2>3. Becomes(r, page) /\ UNCHANGED <<chain, height, announced, cache>>
    BY <2>1 DEF Goes, pagesChain, service
  <2> HIDE DEF page
  <2> QED BY <2>1, <2>2, <2>3, ServedTips
<1>4. CASE \E b \in Blocks, whole \in BOOLEAN : Finds(r, b, whole)
  <2>1. PICK b \in Blocks, whole \in BOOLEAN : Finds(r, b, whole)
    BY <1>4
  <2> DEFINE page == [pages[r] EXCEPT !.pc = "info", !.found = b, !.whole = whole]
  <2>2. /\ page \in Pages /\ page.pc = "info" /\ ~ page.shared
        /\ page.tips = pages[r].tips /\ page.block = pages[r].block
    BY <1>1, <2>1 DEF Pages, PagePCs
  <2>3. Becomes(r, page) /\ UNCHANGED <<chain, height, announced, cache>>
    BY <2>1 DEF Finds, pagesChain, service
  <2> HIDE DEF page
  <2> QED BY <2>2, <2>3, ServedTips
<1> QED BY <1>2, <1>3, <1>4

\* An exception leaves no page.
LEMMA ThrowTips ==
    ASSUME TipsInv, Throws
    PROVE  TipsInv'
<1>1. pages' = [r \in Slots |-> NoPage] /\ UNCHANGED <<chain, height, announced, cache>>
  BY DEF Throws, pagesChain, service
<1>2. pages' \in [Slots -> Pages] /\ \A r \in Slots : ~ Active(r)'
  BY <1>1, NoPageShape DEF Active
<1> QED BY <1>1, <1>2 DEF TipsInv, PageShapes

\* Who is told the height of bitcoind caches a deep block with it; the pages that
\* shared the object before keep the one they had.
LEMMA InformedTips ==
    ASSUME TipsInv, NEW r \in Slots, Informed(r)
    PROVE  TipsInv'
<1> DEFINE page == pages[r]
           b == page.block
           object == [found |-> page.found, to |-> page.to]
<1>1. /\ page.pc = "informed" /\ page \in Pages /\ Active(r) /\ PageTips(r)
      /\ UNCHANGED <<chain, height, announced>>
  BY DEF Informed, TipsInv, PageShapes, Active, pagesChain, service
<1>2. b \in Blocks /\ ~ page.shared /\ page.to \in page.tips
  BY <1>1 DEF PageTips
<1>3. CASE Deep(page)
  <2> DEFINE told == [page EXCEPT !.pc = "bytes", !.shared = TRUE]
             kept(s) == [pages[s] EXCEPT !.shared = FALSE, !.to = cache[b].to]
  <2>1. /\ cache' = [cache EXCEPT ![b] = object]
        /\ pages' = [s \in Slots |->
              IF s = r THEN told
              ELSE IF pages[s].shared /\ pages[s].block = b THEN kept(s) ELSE pages[s]]
    BY <1>3 DEF Informed
  <2>2. /\ cache' \in [Blocks -> [found: Blocks \union {"none"}, to: Int]]
        /\ cache'[b].to = page.to
        /\ \A x \in Blocks : x # b => cache'[x] = cache[x]
    <3>1. object \in [found: Blocks \union {"none"}, to: Int]
      BY <1>1 DEF Pages
    <3> QED BY <1>2, <2>1, <3>1 DEF TipsInv, PageShapes
  <2>3. /\ told \in Pages /\ told.pc = "bytes" /\ told.shared
        /\ told.block = b /\ told.tips = page.tips
    BY <1>1 DEF Pages, PagePCs
  <2>4. ASSUME NEW s \in Slots
        PROVE  /\ kept(s) \in Pages /\ kept(s).pc = pages[s].pc /\ ~ kept(s).shared
               /\ kept(s).to = cache[b].to
               /\ kept(s).block = pages[s].block /\ kept(s).tips = pages[s].tips
    <3>1. pages[s] \in Pages /\ cache[b].to \in Int
      BY <1>2 DEF TipsInv, PageShapes
    <3> QED BY <3>1 DEF Pages
  <2>5. ASSUME NEW s \in Slots
        PROVE  pages'[s] = IF s = r THEN told
                           ELSE IF pages[s].shared /\ pages[s].block = b THEN kept(s) ELSE pages[s]
    BY <2>1
  <2>6. PageShapes'
    <3>1. pages' \in [Slots -> Pages]
      <4> HIDE DEF told, kept
      <4>1. \A s \in Slots : pages[s] \in Pages
        BY DEF TipsInv, PageShapes
      <4> QED BY <2>1, <2>3, <2>4, <4>1
    <3> QED BY <1>1, <2>2, <3>1 DEF TipsInv, PageShapes
  <2> HIDE DEF told, kept
  <2>7. PageTips(r)'
    <3> HIDE DEF b
    <3>1. pages'[r] = told
      BY <2>5
    <3> QED BY <1>1, <1>2, <2>2, <2>3, <3>1 DEF PageTips, Shown
  <2>8. ASSUME NEW s \in Slots, s # r, Active(s)' PROVE PageTips(s)'
    <3>1. Active(s)
      BY <2>4, <2>5, <2>8 DEF Active
    <3>2. PageTips(s)
      BY <3>1 DEF TipsInv
    <3> HIDE DEF b
    <3>3. CASE pages[s].shared /\ pages[s].block = b
      <4>1. pages'[s] = kept(s) /\ Shown(s) = cache[b].to /\ pages[s].pc = "bytes"
        BY <2>5, <2>8, <3>2, <3>3 DEF Shown, PageTips
      <4>2. Shown(s)' = Shown(s)
        BY <2>4, <4>1 DEF Shown
      <4> QED BY <1>1, <2>4, <3>2, <4>1, <4>2 DEF PageTips
    <3>4. CASE ~ (pages[s].shared /\ pages[s].block = b)
      <4>1. pages'[s] = pages[s] /\ Shown(s)' = Shown(s)
        BY <2>2, <2>5, <2>8, <3>2, <3>4 DEF Shown, PageTips
      <4> QED BY <1>1, <3>2, <4>1 DEF PageTips
    <3> QED BY <3>3, <3>4
  <2> QED BY <2>6, <2>7, <2>8 DEF TipsInv
<1>4. CASE ~ Deep(page)
  <2> DEFINE told == [page EXCEPT !.pc = "bytes"]
  <2>1. Becomes(r, told) /\ UNCHANGED cache
    BY <1>4 DEF Informed
  <2>2. /\ told \in Pages /\ told.pc = "bytes" /\ ~ told.shared /\ told.to = page.to
        /\ told.block = page.block /\ told.tips = page.tips
    BY <1>1, <1>2 DEF Pages, PagePCs
  <2> HIDE DEF told
  <2> QED BY <1>1, <1>2, <2>1, <2>2, ServedTips
<1> QED BY <1>3, <1>4

\* One step per call of a request.
LEMMA ServeTips ==
    ASSUME TipsInv, NEW r \in Slots, Serve(r) \/ CallFails(r)
    PROVE  TipsInv'
<1>1. pages[r] \in Pages /\ (Active(r) => PageTips(r))
  BY DEF TipsInv, PageShapes
<1>2. CASE GetBytes(r)
  <2>1. pages[r].pc = "block" /\ Active(r)
    BY <1>2 DEF GetBytes, Active
  <2>2. InBytes(pages[r].block) \in BOOLEAN /\ pages[r].block \in Blocks /\ ~ pages[r].shared
    BY <1>1, <2>1 DEF InBytes, PageTips
  <2>3. \/ Errs(r) \/ Goes(r, "object") \/ Finds(r, pages[r].block, InBytes(pages[r].block))
    BY <1>2 DEF GetBytes
  <2> QED BY <2>1, <2>2, <2>3, GoesTips DEF PagePCs
<1>3. CASE GetObject(r)
  <2>1. pages[r].pc = "object" /\ Active(r)
    BY <1>3 DEF GetObject, Active
  <2> QED BY <1>1, <1>3, <2>1, GoesTips DEF GetObject, PageTips, PagePCs
<1>4. CASE GetByNumber(r)
  <2> DEFINE h == At(pages[r].block)
             page == [pages[r] EXCEPT !.pc = "other", !.found = chain[h]]
  <2>1. pages[r].pc = "number" /\ Active(r)
    BY <1>4 DEF GetByNumber, Active
  <2>2. CASE h \in DOMAIN chain
    <3>1. chain[h] \in Blocks
      BY <2>2 DEF TipsInv, PageShapes
    <3>2. Becomes(r, page) /\ UNCHANGED <<chain, height, announced, cache>>
      BY <1>4, <2>2 DEF GetByNumber, pagesChain, service
    <3> HIDE DEF h
    <3>3. /\ page \in Pages /\ page.pc = "other" /\ ~ page.shared
          /\ page.tips = pages[r].tips /\ page.block = pages[r].block
      BY <1>1, <2>1, <3>1 DEF Pages, PagePCs, PageTips
    <3> HIDE DEF page
    <3> QED BY <2>1, <3>2, <3>3, ServedTips
  <2>3. CASE h \notin DOMAIN chain
    BY <1>4, <2>3, ThrowTips DEF GetByNumber
  <2> QED BY <2>2, <2>3
<1>5. CASE GetOther(r)
  <2>1. pages[r].pc = "other" /\ Active(r)
    BY <1>5 DEF GetOther, Active
  <2>2. ~ pages[r].shared /\ pages[r].found \in Blocks \union {"none"}
    BY <1>1, <2>1 DEF PageTips, Pages
  <2> DEFINE whole == InBytes(pages[r].found)
             page == [pages[r] EXCEPT !.pc = "info", !.found = pages[r].found, !.whole = whole]
  <2>3. CASE "bytes" \in Parsed[pages[r].found]
    <3>1. Becomes(r, page) /\ UNCHANGED <<chain, height, announced, cache>>
      BY <1>5, <2>3 DEF GetOther, FoundByNumber, Finds, pagesChain, service
    <3>blank. whole \in BOOLEAN
      BY DEF InBytes
    <3> HIDE DEF whole
    <3>2. /\ page \in Pages /\ page.pc = "info" /\ ~ page.shared
          /\ page.tips = pages[r].tips /\ page.block = pages[r].block
      BY <1>1, <2>2, <3>blank DEF Pages, PagePCs
    <3> HIDE DEF page
    <3> QED BY <3>1, <3>2, <2>1, ServedTips
  <2>4. CASE "bytes" \notin Parsed[pages[r].found]
    BY <1>5, <2>1, <2>2, <2>4, GoesTips DEF GetOther, PagePCs
  <2> QED BY <2>3, <2>4
<1>6. CASE GetInfo(r)
  <2> DEFINE page == [pages[r] EXCEPT !.pc = "informed", !.to = Len(chain),
                                      !.inChain = pages[r].found \in Elements(chain)]
  <2>1. pages[r].pc = "info" /\ Active(r) /\ PageTips(r)
    BY <1>1, <1>6 DEF GetInfo, Active
  <2>2. Becomes(r, page) /\ UNCHANGED <<chain, height, announced, cache>>
    BY <1>6 DEF GetInfo, pagesChain, service
  <2>3. Len(chain) \in Int /\ (pages[r].found \in Elements(chain)) \in BOOLEAN
    BY DEF TipsInv, PageShapes
  <2>4. /\ page \in Pages /\ page.pc = "informed" /\ ~ page.shared /\ page.to = Len(chain)
        /\ page.tips = pages[r].tips /\ page.block = pages[r].block
    BY <1>1, <2>1, <2>3 DEF Pages, PagePCs, PageTips
  <2> HIDE DEF page
  <2> QED BY <2>1, <2>2, <2>4, ServedTips DEF PageTips
<1>7. CASE Informed(r)
  BY <1>7, InformedTips
<1>10. CASE NotWhole(r)
  BY <1>10, ThrowTips DEF NotWhole
<1>8. CASE Show(r)
  BY <1>8, NoPageShape, ServedTips DEF Show, pagesChain, service
<1>9. CASE CallFails(r)
  BY <1>9, NoPageShape, ServedTips, ThrowTips DEF CallFails, Errs, pagesChain, service
<1> QED BY <1>2, <1>3, <1>4, <1>5, <1>6, <1>7, <1>8, <1>9, <1>10 DEF Serve

\* Every step of the API keeps the tips of its pages.
LEMMA TipsNext == TipsInv /\ [ApiNext]_apiVars => TipsInv'
<1> SUFFICES ASSUME TipsInv, [ApiNext]_apiVars PROVE TipsInv'
  OBVIOUS
<1>1. CASE UNCHANGED pagesVars
  BY <1>1 DEF pagesVars, pagesChain, service, answers, TipsInv, PageShapes, PageTips, Shown, Active
<1>2. ASSUME NEW c \in Clients, NEW r \in Slots, NEW b \in Blocks, BlockRequest(c, r, b)
      PROVE  TipsInv'
  BY <1>2, RequestTips DEF BlockRequest
<1>3. CASE Outside
  BY <1>3, MoveTips, HeightTips DEF Outside
<1>4. CASE \E r \in Slots : up /\ (Serve(r) \/ CallFails(r))
  BY <1>4, ServeTips
<1> QED BY <1>1, <1>2, <1>3, <1>4 DEF ApiNext, apiVars, OtherRequest, RefusedRequest

\* The confirmations a page shows are those at a tip of the chain while its request
\* was under way, or at one the service knew or was being told of when it began,
\* whatever the other requests did to the block in the cache.
THEOREM ConfirmationsHold == ApiSpec => []ConfirmationsOfSomeTip
<1>1. ApiInit => TipsInv
  BY TipsInit DEF ApiInit
<1>2. TipsInv /\ [ApiNext]_apiVars => TipsInv'
  BY TipsNext
<1>3. TipsInv => ConfirmationsOfSomeTip
  BY DEF TipsInv, PageTips, Active, ConfirmationsOfSomeTip
<1> QED BY <1>1, <1>2, <1>3, PTL DEF ApiSpec

-----------------------------------------------------------------------------
(* The blocks that are cached for ever.                                    *)

\* A block of the chain is as deep as the cache waits for.
Buried(b) == b \in Elements(chain) /\ Len(chain) - At(b) + 1 >= Confirmations

\* What is cached in time is buried, and so is what is about to be.
StaysInv ==
    /\ \A r \in Slots : (pages[r].pc = "informed" /\ pages[r].inChain) =>
          /\ pages[r].to <= Len(chain)
          /\ pages[r].found \in Elements(chain)
             \/ ~ Deep(pages[r])
    /\ \A b \in Blocks : (cache[b] # Nothing /\ b \notin cachedLate) => Buried(cache[b].found)

PagesInv ==
    /\ TipsInv /\ PagesTypeOK /\ StaysInv
    /\ \A r \in Slots : pages[r].pc = "informed" => pages[r].to \in Heights

\* The heights are numbers, and the blocks of a chain are at theirs.
LEMMA AtHeight ==
    /\ Heights \subseteq Nat \ {0}
    /\ \A c \in Chains : Len(c) \in Heights /\ \A h \in 1..Len(c) : At(c[h]) = h
<1>1. Heights \subseteq Nat \ {0}
  BY ChainShape DEF Heights
<1>2. ASSUME NEW c \in Chains, NEW h \in 1..Len(c) PROVE At(c[h]) = h
  <2> DEFINE Has(g) == \E d \in Chains : g <= Len(d) /\ d[g] = c[h]
  <2>1. h \in Heights /\ Has(h)
    BY <1>2, ChainShape DEF Heights
  <2>2. ASSUME NEW g \in Heights, Has(g) PROVE g = h
    <3>1. PICK d \in Chains : g <= Len(d) /\ d[g] = c[h]
      BY <2>2
    <3>2. g \in 1..Len(d)
      BY <1>1, <3>1, ChainShape
    <3> QED BY <1>2, <3>1, <3>2, PagesAssumption
  <2>3. At(c[h]) = CHOOSE g \in Heights : Has(g)
    BY DEF At
  <2> HIDE DEF Has
  <2> QED BY <2>1, <2>2, <2>3
<1>3. ASSUME NEW c \in Chains PROVE Len(c) \in Heights
  <2>1. Len(c) \in 1..Len(c)
    <3>1. c \in Seq(Blocks) /\ c # <<>>
      BY PagesAssumption
    <3> QED BY <3>1
  <2> QED BY <2>1 DEF Heights
<1> QED BY <1>1, <1>2, <1>3

\* The chain is never replaced as deep as the cache waits for.
LEMMA BuriedStays ==
    ASSUME chain \in Chains, NEW c \in Chains, Move(c), NEW b, Buried(b)
    PROVE  Buried(b)'
<1> DEFINE n == Len(chain)
<1>1. /\ chain' = c /\ Len(c) >= n /\ n \in Nat /\ Len(c) \in Nat
      /\ n - Cardinality(Common(chain, c)) <= ReorgDepth
      /\ ReorgDepth \in Nat /\ Confirmations \in Nat /\ ReorgDepth < Confirmations
  BY ChainShape, PagesAssumption DEF Move
<1>2. PICK h \in 1..n : chain[h] = b
  BY DEF Buried, Elements
<1>3. At(b) = h /\ n - h + 1 >= Confirmations
  BY <1>2, AtHeight DEF Buried
<1>4. h \in Common(chain, c)
  <2> SUFFICES ASSUME h \notin Common(chain, c) PROVE FALSE
    OBVIOUS
  <2>1. Common(chain, c) \subseteq 1..(h - 1)
    <3> SUFFICES ASSUME NEW i \in Common(chain, c), i >= h PROVE FALSE
      BY <1>1, <1>2 DEF Common
    <3>1. i \in 1..n /\ i \in 1..Len(c) /\ chain[i] = c[i]
      BY <1>1 DEF Common
    <3>2. h \in 1..i
      BY <1>2, <3>1
    <3>3. chain[h] = c[h]
      BY <3>1, <3>2, PagesAssumption
    <3> QED BY <1>1, <1>2, <3>1, <3>2, <3>3 DEF Common
  <2>2. IsFiniteSet(1..(h - 1)) /\ Cardinality(1..(h - 1)) = h - 1
    <3>1. h \in Int /\ h - 1 \in Int /\ 1 \in Int /\ h >= 1
      BY <1>1, <1>2
    <3> QED BY <3>1, FS_Interval
  <2>3. Cardinality(Common(chain, c)) <= h - 1 /\ Cardinality(Common(chain, c)) \in Nat
    BY <2>1, <2>2, FS_Subset, FS_CardinalityType
  <2> QED BY <1>1, <1>2, <1>3, <2>3
<1>5. h \in 1..Len(c) /\ c[h] = b
  BY <1>1, <1>2, <1>4 DEF Common
<1>6. b \in Elements(c)
  BY <1>5 DEF Elements
<1>7. Len(c) - At(b) + 1 >= Confirmations
  BY <1>1, <1>2, <1>3
<1> QED BY <1>1, <1>6, <1>7 DEF Buried

\* A block of the chain that has enough confirmations is buried.
LEMMA DeepIsBuried ==
    ASSUME chain \in Chains, NEW page, page.to \in Nat, page.to <= Len(chain),
           page.found \in Elements(chain), Deep(page)
    PROVE  Buried(page.found)
<1>1. PICK h \in 1..Len(chain) : chain[h] = page.found
  BY DEF Elements
<1>2. At(page.found) = h /\ Len(chain) \in Nat /\ Confirmations \in Nat
  BY <1>1, AtHeight, ChainShape, PagesAssumption
<1>3. page.to - h + 1 >= Confirmations
  BY <1>2 DEF Deep
<1>4. Len(chain) - h + 1 >= Confirmations
  BY <1>1, <1>2, <1>3
<1> QED BY <1>2, <1>4 DEF Buried

\* At the start nothing is cached.
LEMMA PagesInvInit == PagesInit => PagesInv
<1> SUFFICES ASSUME PagesInit PROVE PagesInv
  OBVIOUS
<1>1. TipsInv
  BY TipsInit
<1>2. \A r \in Slots : pages[r].pc = "none" /\ ~ pages[r].shared
  BY NoPageShape DEF PagesInit
<1>3. \A b \in Blocks : cache[b] = Nothing
  BY DEF PagesInit
<1>4. PagesTypeOK
  <2>1. chain \in Chains /\ Len(chain) \in Heights
    BY AtHeight DEF PagesInit
  <2>2. Elements(chain) \subseteq Blocks
    BY <2>1, ChainShape DEF Elements
  <2>3. cache \in [Blocks -> [found: Blocks \union {"none"}, to: Heights \union {0}]]
    BY DEF PagesInit, Nothing
  <2> QED BY <1>2, <2>1, <2>2, <2>3 DEF PagesInit, PagesTypeOK
<1> QED BY <1>1, <1>2, <1>3, <1>4 DEF PagesInv, StaysInv

\* What a step of one page that is shown to nobody else makes of it; the height of
\* bitcoind is the only one that reaches it.
OwnStep(r, page) ==
    /\ Becomes(r, page) /\ page \in Pages /\ ~ page.shared
    /\ UNCHANGED <<chain, known, height, announced, cache, up, cachedLate>>
    /\ page.pc = "informed" =>
          page.to = Len(chain) /\ page.inChain = (page.found \in Elements(chain))

\* A step of a page is of its own, or caches a block, or ends the process.
LEMMA ServeChanges ==
    ASSUME TipsInv, NEW r \in Slots, Serve(r) \/ CallFails(r)
    PROVE  \/ \E page : OwnStep(r, page)
           \/ Informed(r) /\ Deep(pages[r])
           \/ Throws
<1> USE DEF pagesChain, service
<1>1. pages[r] \in Pages /\ (pages[r].shared => pages[r].pc = "bytes" \/ pages[r].pc = "none")
  BY DEF TipsInv, PageShapes, Active, PageTips
<1>2. ASSUME Errs(r) PROVE OwnStep(r, NoPage)
  BY <1>2, NoPageShape DEF Errs, OwnStep
<1>3. ASSUME NEW pc \in PagePCs \ {"informed"}, Goes(r, pc), ~ pages[r].shared
      PROVE  \E page : OwnStep(r, page)
  <2> DEFINE page == [pages[r] EXCEPT !.pc = pc]
  <2>1. page \in Pages /\ page.pc = pc /\ ~ page.shared
    BY <1>1, <1>3 DEF Pages
  <2>2. Becomes(r, page) /\ UNCHANGED <<chain, known, height, announced, cache, up, cachedLate>>
    BY <1>3 DEF Goes
  <2> HIDE DEF page
  <2> QED BY <2>1, <2>2 DEF OwnStep
<1>4. ASSUME NEW b \in Blocks \union {"none"}, NEW whole \in BOOLEAN, Finds(r, b, whole),
             ~ pages[r].shared
      PROVE  \E page : OwnStep(r, page)
  <2> DEFINE page == [pages[r] EXCEPT !.pc = "info", !.found = b, !.whole = whole]
  <2>1. page \in Pages /\ page.pc = "info" /\ ~ page.shared
    BY <1>1, <1>4 DEF Pages, PagePCs
  <2>2. Becomes(r, page) /\ UNCHANGED <<chain, known, height, announced, cache, up, cachedLate>>
    BY <1>4 DEF Finds
  <2> HIDE DEF page
  <2> QED BY <2>1, <2>2 DEF OwnStep
<1>5. pages[r].block \in Blocks \union {"none"} /\ pages[r].found \in Blocks \union {"none"}
  BY <1>1 DEF Pages
<1>blank. InBytes(pages[r].block) \in BOOLEAN /\ InBytes(pages[r].found) \in BOOLEAN
  BY DEF InBytes
<1>6. CASE GetBytes(r)
  BY <1>1, <1>2, <1>3, <1>4, <1>5, <1>blank, <1>6 DEF GetBytes, PagePCs
<1>7. CASE GetObject(r)
  BY <1>1, <1>3, <1>4, <1>5, <1>7 DEF GetObject, PagePCs
<1>8. CASE GetByNumber(r)
  <2> DEFINE h == At(pages[r].block)
             page == [pages[r] EXCEPT !.pc = "other", !.found = chain[h]]
  <2>1. ~ pages[r].shared
    BY <1>1, <1>8 DEF GetByNumber
  <2>2. CASE h \in DOMAIN chain
    <3>1. chain[h] \in Blocks
      BY <2>2 DEF TipsInv, PageShapes
    <3>2. Becomes(r, page) /\ UNCHANGED <<chain, known, height, announced, cache, up, cachedLate>>
      BY <1>8, <2>2 DEF GetByNumber
    <3> HIDE DEF h
    <3>3. page \in Pages /\ page.pc = "other" /\ ~ page.shared
      BY <1>1, <2>1, <3>1 DEF Pages, PagePCs
    <3> HIDE DEF page
    <3> QED BY <3>2, <3>3 DEF OwnStep
  <2>3. CASE h \notin DOMAIN chain
    BY <1>8, <2>3 DEF GetByNumber
  <2> QED BY <2>2, <2>3
<1>9. CASE GetOther(r)
  BY <1>1, <1>3, <1>4, <1>5, <1>blank, <1>9 DEF GetOther, FoundByNumber, PagePCs
<1>10. CASE GetInfo(r)
  <2> DEFINE is == pages[r].found \in Elements(chain)
             page == [pages[r] EXCEPT !.pc = "informed", !.to = Len(chain), !.inChain = is]
  <2>1. Becomes(r, page) /\ UNCHANGED <<chain, known, height, announced, cache, up, cachedLate>>
        /\ ~ pages[r].shared
    BY <1>1, <1>10 DEF GetInfo
  <2>2. Len(chain) \in Int /\ is \in BOOLEAN
    BY DEF TipsInv, PageShapes
  <2>3. /\ page \in Pages /\ page.pc = "informed" /\ ~ page.shared /\ page.to = Len(chain)
        /\ page.inChain = is /\ page.found = pages[r].found
    <3> HIDE DEF is
    <3> QED BY <1>1, <2>1, <2>2 DEF Pages, PagePCs
  <2> HIDE DEF page
  <2> QED BY <2>1, <2>3 DEF OwnStep
<1>11. CASE Informed(r) /\ ~ Deep(pages[r])
  <2> DEFINE page == [pages[r] EXCEPT !.pc = "bytes"]
  <2>1. Becomes(r, page) /\ UNCHANGED <<chain, known, height, announced, cache, up, cachedLate>>
        /\ ~ pages[r].shared
    BY <1>1, <1>11 DEF Informed
  <2>2. page \in Pages /\ page.pc = "bytes" /\ ~ page.shared
    BY <1>1, <2>1 DEF Pages, PagePCs
  <2> HIDE DEF page
  <2> QED BY <2>1, <2>2 DEF OwnStep
<1>12. CASE Show(r)
  BY <1>12, NoPageShape DEF Show, OwnStep
<1>13. CASE CallFails(r)
  BY <1>2, <1>13 DEF CallFails
<1> QED BY <1>6, <1>7, <1>8, <1>9, <1>10, <1>11, <1>12, <1>13 DEF Serve, NotWhole

\* Such a step keeps the types and the blocks.
LEMMA OwnStepPages ==
    ASSUME PagesInv, TipsInv', NEW r \in Slots, NEW page, OwnStep(r, page)
    PROVE  PagesInv'
<1>1. /\ pages'[r] = page /\ \A s \in Slots : s # r => pages'[s] = pages[s]
      /\ page.pc \in PagePCs
  BY DEF OwnStep, Becomes, PagesInv, TipsInv, PageShapes, Pages
<1>2. chain \in Chains /\ Len(chain) \in Heights /\ Len(chain) \in Nat
  BY AtHeight, ChainShape DEF PagesInv, PagesTypeOK
<1>3. PagesTypeOK'
  BY <1>1 DEF OwnStep, PagesInv, PagesTypeOK, PagePCs
<1>4. \A s \in Slots : pages'[s].pc = "informed" => pages'[s].to \in Heights
  BY <1>1, <1>2 DEF OwnStep, PagesInv
<1>5. ASSUME NEW s \in Slots, pages'[s].pc = "informed", pages'[s].inChain
      PROVE  /\ pages'[s].to <= Len(chain)
             /\ pages'[s].found \in Elements(chain) \/ ~ Deep(pages'[s])
  <2>1. CASE s = r
    <3>1. page.pc = "informed" /\ page.inChain /\ pages'[s] = page
      BY <1>1, <1>5, <2>1
    <3>2. page.to = Len(chain) /\ page.found \in Elements(chain)
      BY <3>1 DEF OwnStep
    <3> QED BY <1>2, <3>1, <3>2
  <2>2. CASE s # r
    BY <1>1, <1>5, <2>2 DEF PagesInv, StaysInv
  <2> QED BY <2>1, <2>2
<1>6. UNCHANGED <<chain, cache, cachedLate>>
  BY DEF OwnStep
<1>7. \A b : Buried(b)' = Buried(b)
  BY <1>6 DEF Buried
<1>8. \A s \in Slots : Deep(pages[s])' = Deep(pages'[s])
  BY DEF Deep
<1>9. StaysInv'
  BY <1>5, <1>6, <1>7, <1>8 DEF PagesInv, StaysInv
<1> QED BY <1>3, <1>4, <1>9 DEF PagesInv

\* A block is cached that is buried, unless it had left the chain before.
LEMMA InformedPages ==
    ASSUME PagesInv, TipsInv', NEW r \in Slots, Informed(r), Deep(pages[r])
    PROVE  PagesInv'
<1> DEFINE page == pages[r]
           b == page.block
           object == [found |-> page.found, to |-> page.to]
<1>1. /\ page.pc = "informed" /\ page \in Pages /\ b \in Blocks /\ page.to \in Heights
      /\ UNCHANGED <<chain, known, height, announced, up>>
      /\ cache' = [cache EXCEPT ![b] = object]
      /\ cachedLate' = IF page.inChain THEN cachedLate \ {b} ELSE cachedLate \union {b}
  BY DEF Informed, PagesInv, TipsInv, PageShapes, PageTips, Active, pagesChain, service
<1>2. ASSUME NEW s \in Slots
      PROVE  /\ pages'[s].pc \in PagePCs
             /\ pages'[s].pc = "informed" => pages'[s] = pages[s]
             /\ pages'[s].shared =>
                    pages'[s].block = b \/ (pages[s].shared /\ pages'[s].block = pages[s].block)
  <2>1. pages[s] \in Pages /\ (pages[s].shared => pages[s].pc \in {"bytes", "none"})
    BY DEF PagesInv, TipsInv, PageShapes, Active, PageTips
  <2>2. pages'[s] = IF s = r THEN [page EXCEPT !.pc = "bytes", !.shared = TRUE]
                    ELSE IF pages[s].shared /\ pages[s].block = b
                         THEN [pages[s] EXCEPT !.shared = FALSE, !.to = cache[b].to]
                         ELSE pages[s]
    BY DEF Informed
  <2>3. CASE s = r
    BY <1>1, <2>2, <2>3 DEF Pages, PagePCs
  <2>4. CASE s # r /\ pages[s].shared /\ pages[s].block = b
    <3>1. pages'[s] = [pages[s] EXCEPT !.shared = FALSE, !.to = cache[b].to]
      BY <2>2, <2>4
    <3>2. ~ pages'[s].shared /\ pages'[s].pc = pages[s].pc
      BY <2>1, <3>1 DEF Pages
    <3> QED BY <2>1, <2>4, <3>2 DEF Pages
  <2>5. CASE s # r /\ ~ (pages[s].shared /\ pages[s].block = b)
    BY <2>1, <2>2, <2>5 DEF Pages
  <2> QED BY <2>3, <2>4, <2>5
<1>3. /\ cache'[b] = object /\ object # Nothing
      /\ \A x \in Blocks : x # b => cache'[x] = cache[x]
      /\ object \in [found: Blocks \union {"none"}, to: Heights \union {0}]
      /\ cache' \in [Blocks -> [found: Blocks \union {"none"}, to: Heights \union {0}]]
  <2>1. object \in [found: Blocks \union {"none"}, to: Heights \union {0}] /\ object.to # 0
    BY <1>1, AtHeight DEF Pages
  <2>2. Nothing.to = 0
    BY DEF Nothing
  <2> HIDE DEF object, b
  <2> QED BY <1>1, <2>1, <2>2 DEF PagesInv, PagesTypeOK
<1>4. PagesTypeOK'
  <2>1. cachedLate' \subseteq Blocks
    BY <1>1 DEF PagesInv, PagesTypeOK
  <2>2. \A s \in Slots : pages'[s].shared => cache'[pages'[s].block] # Nothing
    <3> SUFFICES ASSUME NEW s \in Slots, pages'[s].shared
                 PROVE  cache'[pages'[s].block] # Nothing
      OBVIOUS
    <3>1. CASE pages'[s].block = b
      BY <1>3, <3>1
    <3>2. CASE pages'[s].block # b
      <4>1. pages[s].shared /\ pages'[s].block = pages[s].block
        BY <1>2, <3>2
      <4>2. cache[pages[s].block] # Nothing
        BY <4>1 DEF PagesInv, PagesTypeOK
      <4>3. cache'[pages[s].block] = cache[pages[s].block]
        <5> HIDE DEF object, b
        <5>1. cache' = [cache EXCEPT ![b] = object] /\ pages[s].block # b
          BY <1>1, <3>2, <4>1
        <5> QED BY <5>1
      <4> QED BY <4>1, <4>2, <4>3
    <3> QED BY <3>1, <3>2
  <2> QED BY <1>1, <1>2, <1>3, <2>1, <2>2 DEF PagesInv, PagesTypeOK, PagePCs
<1>5. \A x : Buried(x)' = Buried(x)
  BY <1>1 DEF Buried
<1>6. \A s \in Slots : Deep(pages[s])' = Deep(pages'[s])
  BY DEF Deep
<1>7. page.inChain => Buried(page.found)
  <2>1. page.inChain => page.to <= Len(chain) /\ page.found \in Elements(chain)
    BY <1>1 DEF PagesInv, StaysInv
  <2>2. chain \in Chains /\ page.to \in Nat
    BY <1>1, AtHeight DEF PagesInv, PagesTypeOK
  <2> QED BY <2>1, <2>2, DeepIsBuried
<1>8. StaysInv'
  <2>1. ASSUME NEW x \in Blocks, cache'[x] # Nothing, x \notin cachedLate'
        PROVE  Buried(cache'[x].found)
    <3>1. CASE x = b
      <4>1. page.inChain /\ cache'[x].found = page.found
        BY <1>1, <1>3, <2>1, <3>1
      <4> QED BY <1>7, <4>1
    <3>2. CASE x # b
      <4>1. cache'[x] = cache[x] /\ x \notin cachedLate
        BY <1>1, <1>3, <2>1, <3>2
      <4> QED BY <2>1, <4>1 DEF PagesInv, StaysInv
    <3> QED BY <3>1, <3>2
  <2>2. ASSUME NEW s \in Slots, pages'[s].pc = "informed", pages'[s].inChain
        PROVE  /\ pages'[s].to <= Len(chain)
               /\ pages'[s].found \in Elements(chain) \/ ~ Deep(pages'[s])
    BY <1>2, <2>2 DEF PagesInv, StaysInv
  <2>3. chain' = chain
    BY <1>1
  <2> QED BY <1>5, <1>6, <2>1, <2>2, <2>3 DEF StaysInv
<1> QED BY <1>2, <1>4, <1>8 DEF PagesInv

\* A request counts the block in the cache anew, and leaves the block.
LEMMA RequestPages ==
    ASSUME PagesInv, TipsInv', NEW r \in Slots, NEW b \in Blocks, Request(r, b)
    PROVE  PagesInv'
<1> DEFINE tips == {height, Len(chain)} \union announced
           page == [NoPage EXCEPT !.block = b, !.tips = tips]
<1>1. /\ UNCHANGED <<chain, known, height, announced, up, cachedLate>>
      /\ height \in Heights /\ height # 0
  BY AtHeight DEF Request, PagesInv, PagesTypeOK, pagesChain, service
<1>2. page \in [pc: {"none"}, block: {b}, found: {"none"}, whole: {FALSE}, to: {0},
                inChain: {FALSE}, shared: {FALSE}, tips: {tips}]
  <2> HIDE DEF tips
  <2> QED BY DEF NoPage
<1> HIDE DEF page
<1>3. CASE cache[b] # Nothing
  <2> DEFINE shown == [page EXCEPT !.pc = "bytes", !.found = cache[b].found, !.shared = TRUE]
  <2>1. cache' = [cache EXCEPT ![b].to = height] /\ pages' = [pages EXCEPT ![r] = shown]
    BY <1>3 DEF Request, Becomes, Recounted, page
  <2>2. shown.pc = "bytes" /\ shown.block = b /\ shown.shared
    BY <1>2
  <2> HIDE DEF shown
  <2>3. pages'[r] = shown /\ \A s \in Slots : s # r => pages'[s] = pages[s]
    BY <2>1 DEF PagesInv, TipsInv, PageShapes
  <2>4. /\ cache' \in [Blocks -> [found: Blocks \union {"none"}, to: Heights \union {0}]]
        /\ cache'[b].to = height /\ cache'[b].found = cache[b].found
        /\ \A x : x # b => cache'[x] = cache[x]
    <3>1. cache[b] \in [found: Blocks \union {"none"}, to: Heights \union {0}]
      BY DEF PagesInv, PagesTypeOK
    <3> QED BY <1>1, <2>1, <3>1 DEF PagesInv, PagesTypeOK
  <2>5. cache'[b] # Nothing
    <3>1. Nothing.to = 0
      BY DEF Nothing
    <3> QED BY <1>1, <2>4, <3>1
  <2>6. PagesTypeOK'
    <3>1. \A s \in Slots : pages'[s].shared => cache'[pages'[s].block] # Nothing
      BY <2>2, <2>3, <2>4, <2>5 DEF PagesInv, PagesTypeOK
    <3> QED BY <1>1, <2>2, <2>3, <2>4, <3>1 DEF PagesInv, PagesTypeOK
  <2>7. \A s \in Slots : pages'[s].pc = "informed" => pages'[s] = pages[s]
    BY <2>2, <2>3
  <2>8. StaysInv'
    <3>1. \A x \in Blocks : (cache'[x] # Nothing /\ x \notin cachedLate) => Buried(cache'[x].found)
      BY <1>3, <2>4 DEF PagesInv, StaysInv
    <3>2. ASSUME NEW s \in Slots, pages'[s].pc = "informed", pages'[s].inChain
          PROVE  /\ pages'[s].to <= Len(chain)
                 /\ pages'[s].found \in Elements(chain) \/ ~ Deep(pages'[s])
      BY <2>7, <3>2 DEF PagesInv, StaysInv
    <3> QED BY <1>1, <3>1, <3>2 DEF StaysInv, Buried, Deep
  <2> QED BY <2>6, <2>7, <2>8 DEF PagesInv
<1>4. CASE cache[b] = Nothing
  <2> DEFINE asked == [page EXCEPT !.pc = "block"]
  <2>1. cache' = cache /\ Becomes(r, asked)
    BY <1>4 DEF Request, page
  <2>2. asked.pc = "block" /\ ~ asked.shared
    BY <1>2
  <2>3. asked \in Pages
    <3>1. pages'[r] = asked
      BY <2>1 DEF Becomes, PagesInv, TipsInv, PageShapes
    <3> HIDE DEF asked
    <3> QED BY <3>1 DEF TipsInv, PageShapes
  <2> HIDE DEF asked
  <2>4. OwnStep(r, asked)
    BY <1>1, <2>1, <2>2, <2>3 DEF OwnStep
  <2> QED BY <2>4, OwnStepPages
<1> QED BY <1>3, <1>4

\* A new tip buries what was buried, and what was about to be.
LEMMA MovePages ==
    ASSUME PagesInv, TipsInv', NEW c \in Chains, Move(c)
    PROVE  PagesInv'
<1>1. /\ chain' = c /\ known' = known \union Elements(c) /\ announced' = announced \union {Len(c)}
      /\ Len(c) >= Len(chain) /\ UNCHANGED <<height, cache, up, cachedLate>>
  BY DEF Move
<1>2. /\ chain \in Chains /\ Len(chain) \in Nat /\ Len(c) \in Nat /\ Len(c) \in Heights
      /\ Elements(c) \subseteq Blocks
  BY AtHeight, ChainShape DEF PagesInv, PagesTypeOK, Elements
<1>3. ASSUME NEW s \in Slots
      PROVE  /\ pages'[s].pc = pages[s].pc /\ pages'[s].to = pages[s].to
             /\ pages'[s].found = pages[s].found /\ pages'[s].inChain = pages[s].inChain
             /\ pages'[s].shared = pages[s].shared /\ pages'[s].block = pages[s].block
  <2>1. pages[s] \in Pages
    BY DEF PagesInv, TipsInv, PageShapes
  <2>2. pages'[s] = IF Active(s) THEN [pages[s] EXCEPT !.tips = @ \union {Len(c)}] ELSE pages[s]
    BY DEF Move
  <2> QED BY <2>1, <2>2 DEF Pages
<1>4. PagesTypeOK'
  BY <1>1, <1>2, <1>3 DEF PagesInv, PagesTypeOK
<1>5. ASSUME NEW s \in Slots, pages'[s].pc = "informed", pages'[s].inChain
      PROVE  /\ pages'[s].to <= Len(c)
             /\ pages'[s].found \in Elements(c) \/ ~ Deep(pages'[s])
  <2>1. /\ pages[s].to \in Nat /\ pages[s].to <= Len(chain)
        /\ pages[s].found \in Elements(chain) \/ ~ Deep(pages[s])
    BY <1>3, <1>5, AtHeight DEF PagesInv, StaysInv
  <2>2. Deep(pages[s]) => pages[s].found \in Elements(c)
    <3>1. Deep(pages[s]) => Buried(pages[s].found)
      BY <1>2, <2>1, DeepIsBuried
    <3> QED BY <1>1, <1>2, <3>1, BuriedStays DEF Buried
  <2>3. Deep(pages'[s]) = Deep(pages[s])
    BY <1>3 DEF Deep
  <2> QED BY <1>1, <1>2, <1>3, <2>1, <2>2, <2>3
<1>6. \A x \in Blocks : (cache[x] # Nothing /\ x \notin cachedLate) => Buried(cache[x].found)'
  BY <1>1, <1>2, BuriedStays DEF PagesInv, StaysInv
<1>7. StaysInv'
  BY <1>1, <1>5, <1>6 DEF StaysInv, Deep
<1> QED BY <1>3, <1>4, <1>7 DEF PagesInv

\* Every step of the API keeps the types of its pages and what is cached for ever.
LEMMA PagesNext == PagesInv /\ [ApiNext]_apiVars => PagesInv'
<1> SUFFICES ASSUME PagesInv, [ApiNext]_apiVars PROVE PagesInv'
  OBVIOUS
<1>1. TipsInv /\ TipsInv'
  BY TipsNext DEF PagesInv
<1>2. CASE UNCHANGED pagesVars
  BY <1>1, <1>2 DEF pagesVars, pagesChain, service, answers, PagesInv, PagesTypeOK, StaysInv,
                    Buried, Deep
<1>3. ASSUME NEW c \in Clients, NEW r \in Slots, NEW b \in Blocks, BlockRequest(c, r, b)
      PROVE  PagesInv'
  BY <1>1, <1>3, RequestPages DEF BlockRequest
<1>4. ASSUME NEW h, HeightArrives(h) PROVE PagesInv'
  <2>1. /\ height' \in announced \union {height} /\ announced' \subseteq announced
        /\ UNCHANGED <<chain, known, cache, pages, cachedLate, up>>
    BY <1>4 DEF HeightArrives, pagesChain, answers
  <2> QED BY <1>1, <2>1 DEF PagesInv, PagesTypeOK, StaysInv, Buried, Deep
<1>5. CASE Outside
  BY <1>1, <1>4, <1>5, MovePages DEF Outside
<1>6. ASSUME NEW r \in Slots, Serve(r) \/ CallFails(r) PROVE PagesInv'
  <2>1. CASE Throws
    <3>1. /\ up' = FALSE /\ \A s \in Slots : pages'[s] = NoPage
          /\ UNCHANGED <<chain, known, height, announced, cache, cachedLate>>
      BY <2>1 DEF Throws, pagesChain, service
    <3> QED BY <1>1, <3>1, NoPageShape DEF PagesInv, PagesTypeOK, StaysInv, Buried, Deep
  <2> QED BY <1>1, <1>6, <2>1, ServeChanges, OwnStepPages, InformedPages
<1> QED BY <1>2, <1>3, <1>5, <1>6 DEF ApiNext, apiVars, OtherRequest, RefusedRequest

\* The invariant of the pages holds behind the limiter.
LEMMA PagesAlways == ApiSpec => []PagesInv
<1>1. ApiInit => PagesInv
  BY PagesInvInit DEF ApiInit
<1> QED BY <1>1, PagesNext, PTL DEF ApiSpec

\* Every variable of the limiter and of the pages keeps its type; a page that shares
\* an object finds it in the cache.
THEOREM TypeCorrect == ApiSpec => []ApiTypeOK
<1>1. ApiInit => LimiterInv
  BY LimiterInvInit DEF ApiInit
<1>2. LimiterInv /\ [ApiNext]_apiVars => LimiterInv'
  BY LimiterInvNext, ApiStepLimits
<1>3. LimiterInv /\ PagesInv => ApiTypeOK
  BY DEF LimiterInv, PagesInv, ApiTypeOK
<1> QED BY <1>1, <1>2, <1>3, PagesAlways, PTL DEF ApiSpec

\* What the controller caches for ever is in the chain for ever, unless it had left the
\* chain when bitcoind was asked: no reorganisation is as deep as the cache waits for.
THEOREM CachedBlocksStay == ApiSpec => []CachedStays
<1>1. PagesInv => CachedStays
  BY DEF PagesInv, StaysInv, Buried, CachedStays
<1> QED BY <1>1, PagesAlways, PTL
=============================================================================
