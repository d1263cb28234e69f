------------------------------ MODULE BlockPages ------------------------------
(***************************************************************************)
(* Pages of a block: the parameter handlers of /block and /rawblock         *)
(* (insight-api/lib/blocks.js block, rawBlock, show), getBlock, getRawBlock *)
(* and getInfo of the bitcoind service, and the blocks the controller       *)
(* caches for ever once they have enough confirmations.                     *)
(*                                                                         *)
(* A cached block is one object that every page of it shares: a page that  *)
(* finds it computes its confirmations anew from the height the service    *)
(* knows, which follows the chain late, and the page of another request     *)
(* may be shown after that.  getBlock has two more ways when the bytes of   *)
(* a block cannot be parsed.                                                *)
(***************************************************************************)
EXTENDS Integers, Sequences, FiniteSets

CONSTANTS
    Blocks,
    Chains,         \* the chains bitcoind may hold; block i of one has height i
    Parsed,         \* Parsed[b] \subseteq {"bytes", "object"}: the forms that parse
    Slots,          \* requests under way
    Requested,      \* bound: the blocks that are asked for
    Confirmations,  \* blockCacheConfirmations, 6 in the code
    ReorgDepth      \* bound: the blocks replaced at once

Elements(s) == {s[i] : i \in 1..Len(s)}

\* A block names the one before it, so it is on the same blocks in every chain.
ASSUME PagesAssumption ==
    /\ Chains \subseteq Seq(Blocks) \ {<<>>}
    /\ \A c, d \in Chains : \A i \in 1..Len(c), j \in 1..Len(d) :
          c[i] = d[j] => i = j /\ \A k \in 1..i : c[k] = d[k]
    /\ Parsed \in [Blocks -> SUBSET {"bytes", "object"}]
    /\ ReorgDepth \in Nat /\ Confirmations \in Nat /\ ReorgDepth < Confirmations

Heights == UNION {1..Len(c) : c \in Chains}

\* A block has one height, in whatever chain it is.
At(b) == CHOOSE h \in Heights : \E c \in Chains : h <= Len(c) /\ c[h] = b

VARIABLES
    chain, known,   \* of bitcoind: the best chain, and every block it has had
    height,         \* bitcoind.height
    announced,      \* heights on their way to it
    cache,          \* blockCache: a block and the height its confirmations count to
    pages,
    up,             \* FALSE after an exception nobody catches
    \* history: the code has no such fields and no action reads them
    cachedLate      \* keys cached when their block was in the chain no more

pagesChain == <<chain, known>>
service    == <<height, announced>>
answers    == <<cache, pages, cachedLate>>
pagesVars  == <<pagesChain, service, answers, up>>

\* `block`: asked for; `found`: what the bytes were parsed to; `whole`: it can be
\* written back as bytes, for its size; `to`: the height
\* its confirmations count to; `shared`: the page shows the object in the cache;
\* `tips`: history, the heights of the chain while the request was under way and
\* those the service knew or was being told when it began.
NoPage == [pc |-> "none", block |-> "none", found |-> "none", whole |-> FALSE, to |-> 0,
           inChain |-> FALSE, shared |-> FALSE, tips |-> {}]
Nothing == [found |-> "none", to |-> 0]

Active(r) == pages[r].pc # "none"

PagesInit ==
    /\ chain \in Chains /\ \A c \in Chains : Len(chain) <= Len(c)
    /\ known = Elements(chain)
    /\ height = Len(chain) /\ announced = {}
    /\ cache = [b \in Blocks |-> Nothing]
    /\ pages = [r \in Slots |-> NoPage]
    /\ up = TRUE /\ cachedLate = {}

-----------------------------------------------------------------------------
(* bitcoind and the height the service knows.                              *)

Common(c, d) == {i \in 1..Len(c) : i <= Len(d) /\ c[i] = d[i]}

\* A chain with more work; the notification of its last block is under way.
Move(c) ==
    /\ c # chain /\ Len(c) >= Len(chain)
    /\ Len(chain) - Cardinality(Common(chain, c)) <= ReorgDepth
    /\ chain' = c
    /\ known' = known \union Elements(c)
    /\ announced' = announced \union {Len(c)}
    /\ pages' = [r \in Slots |-> IF Active(r) THEN [pages[r] EXCEPT !.tips = @ \union {Len(c)}]
                                 ELSE pages[r]]
    /\ UNCHANGED <<height, cache, up, cachedLate>>

\* An answer to _updateTip, or one that was lost: TipCache says in what order.
HeightArrives(h) ==
    /\ up /\ h \in announced
    /\ announced' = announced \ {h}
    /\ height' \in {h, height}
    /\ UNCHANGED <<pagesChain, answers, up>>

-----------------------------------------------------------------------------
(* The parameter handlers.                                                 *)

Becomes(r, page) == pages' = [pages EXCEPT ![r] = page]

AsCached(b) == cache  \* mutant: the confirmations stay as they were cached
Recounted(b) == [cache EXCEPT ![b].to = height]

Request(r, b) ==
    /\ up /\ ~ Active(r) /\ b \in Requested
    /\ LET page == [NoPage EXCEPT !.block = b, !.tips = {height, Len(chain)} \union announced]
       IN  IF cache[b] # Nothing
           THEN /\ cache' = Recounted(b)
                /\ Becomes(r, [page EXCEPT !.pc = "bytes", !.found = cache[b].found, !.shared = TRUE])
           ELSE Becomes(r, [page EXCEPT !.pc = "block"]) /\ UNCHANGED cache
    /\ UNCHANGED <<pagesChain, service, up, cachedLate>>

Goes(r, pc) ==
    /\ Becomes(r, [pages[r] EXCEPT !.pc = pc])
    /\ UNCHANGED <<pagesChain, service, cache, up, cachedLate>>

\* handleErrors
Errs(r) ==
    /\ Becomes(r, NoPage)
    /\ UNCHANGED <<pagesChain, service, cache, up, cachedLate>>

Finds(r, b, whole) ==
    /\ Becomes(r, [pages[r] EXCEPT !.pc = "info", !.found = b, !.whole = whole])
    /\ UNCHANGED <<pagesChain, service, cache, up, cachedLate>>

\* An exception in a callback of an RPC ends the process (start.js).
Throws ==
    /\ up' = FALSE
    /\ pages' = [r \in Slots |-> NoPage]
    /\ UNCHANGED <<pagesChain, service, cache, cachedLate>>

\* The bytes hold the confirmations, -1 when the block is in the chain no more: an
\* unsigned number they cannot be written back as.
InBytes(b) == b \in Elements(chain)

\* getBlock: the bytes of the block asked for, or error -5
GetBytes(r) ==
    /\ pages[r].pc = "block"
    /\ LET b == pages[r].block
       IN  IF b \notin known THEN Errs(r)
           ELSE IF "bytes" \in Parsed[b] THEN Finds(r, b, InBytes(b))
           ELSE Goes(r, "object")

\* ... then the block as an object, whose next hash is no buffer
GetObject(r) ==
    /\ pages[r].pc = "object"
    /\ IF "object" \in Parsed[pages[r].block] THEN Finds(r, pages[r].block, FALSE)
       ELSE Goes(r, "number")

\* ... then whichever block has its height
GetByNumber(r) ==
    /\ pages[r].pc = "number"
    /\ LET h == At(pages[r].block)
       IN  IF h \in DOMAIN chain
           THEN /\ Becomes(r, [pages[r] EXCEPT !.pc = "other", !.found = chain[h]])
                /\ UNCHANGED <<pagesChain, service, cache, up, cachedLate>>
           ELSE Throws

NotCalledBack(r) == Goes(r, "stuck")  \* mutant: done is not called
FoundByNumber(r) == Finds(r, pages[r].found, InBytes(pages[r].found))

\* ... and its bytes: when they do not parse either, nobody is called back.
GetOther(r) ==
    /\ pages[r].pc = "other"
    /\ IF "bytes" \in Parsed[pages[r].found] THEN FoundByNumber(r) ELSE Goes(r, "stuck")

\* getInfo computes its answer
GetInfo(r) ==
    /\ pages[r].pc = "info"
    /\ Becomes(r, [pages[r] EXCEPT !.pc = "informed", !.to = Len(chain),
                                   !.inChain = pages[r].found \in Elements(chain)])
    /\ UNCHANGED <<pagesChain, service, cache, up, cachedLate>>

\* mutant: one confirmation less is enough
DeepAlmost(page) == page.to - At(page.found) + 2 >= Confirmations
Deep(page) == page.to - At(page.found) + 1 >= Confirmations

\* ... and it arrives: transformBlocIncludeConfirmTimes.  An object that takes the
\* place of another in the cache leaves that one to the pages that have it.
Informed(r) ==
    /\ pages[r].pc = "informed" /\ pages[r].whole
    /\ LET page == pages[r]
           b == page.block
       IN  IF Deep(page)
           THEN /\ cache' = [cache EXCEPT ![b] = [found |-> page.found, to |-> page.to]]
                /\ cachedLate' = IF page.inChain THEN cachedLate \ {b} ELSE cachedLate \union {b}
                /\ pages' = [s \in Slots |->
                      IF s = r THEN [page EXCEPT !.pc = "bytes", !.shared = TRUE]
                      ELSE IF pages[s].shared /\ pages[s].block = b
                           THEN [pages[s] EXCEPT !.shared = FALSE, !.to = cache[b].to]
                           ELSE pages[s]]
           ELSE Becomes(r, [page EXCEPT !.pc = "bytes"]) /\ UNCHANGED <<cache, cachedLate>>
    /\ UNCHANGED <<pagesChain, service, up>>

\* The object reverses its next hash and writes its header anew, which throws for
\* one that is not whole.
NotWhole(r) == pages[r].pc = "informed" /\ ~ pages[r].whole /\ Throws

\* What the page of r says when it is shown
Shown(r) == IF pages[r].shared THEN cache[pages[r].block].to ELSE pages[r].to

\* rawBlock has the bytes; checkBlockHash; show
Show(r) ==
    /\ pages[r].pc = "bytes"
    /\ Becomes(r, NoPage)
    /\ UNCHANGED <<pagesChain, service, cache, up, cachedLate>>

\* A call fails.  The first and the last are answered with an error, as is that of
\* the block found by number; the others leave a response that is read.
CallFails(r) ==
    \/ pages[r].pc \in {"block", "other", "bytes"} /\ Errs(r)
    \/ pages[r].pc \in {"object", "number", "info"} /\ Throws

Serve(r) == GetBytes(r) \/ GetObject(r) \/ GetByNumber(r) \/ GetOther(r) \/ GetInfo(r)
            \/ Informed(r) \/ NotWhole(r) \/ Show(r)

Outside == (\E c \in Chains : Move(c)) \/ \E h \in Heights : HeightArrives(h)

-----------------------------------------------------------------------------
\* Every variable keeps its type, and a page shares what is in the cache.
PagesTypeOK ==
    /\ chain \in Chains /\ Elements(chain) \subseteq known /\ known \subseteq Blocks
    /\ height \in Heights /\ announced \subseteq Heights
    /\ up \in BOOLEAN /\ cachedLate \subseteq Blocks
    /\ cache \in [Blocks -> [found: Blocks \union {"none"}, to: Heights \union {0}]]
    /\ \A r \in Slots :
          /\ pages[r].pc \in {"none", "block", "object", "number", "other", "info", "informed",
                              "bytes", "stuck"}
          /\ pages[r].shared => cache[pages[r].block] # Nothing

\* The confirmations a page shows are those at a tip of the chain while the request
\* was under way, or at the one the service knew, or was being told of, when it
\* began: whoever else has changed the object since, and however old it is.
ConfirmationsOfSomeTip ==
    \A r \in Slots : pages[r].pc = "bytes" => Shown(r) \in pages[r].tips

\* A block that is cached for ever is in the chain for ever, unless it had left it
\* before bitcoind was asked how high the chain is: the chain is never
\* replaced as deep as the cache waits for.
CachedStays ==
    \A b \in Blocks : (cache[b] # Nothing /\ b \notin cachedLate) =>
        cache[b].found \in Elements(chain)

\* A request is answered, or an exception ends the process, unless neither the
\* block nor the one that has taken its height can be parsed: that is left open.
PageAnswered ==
    \A r \in Slots : Active(r) ~>
        (~ Active(r) \/ ~ up \/ (pages[r].pc = "stuck" /\ "bytes" \notin Parsed[pages[r].found]))
=============================================================================
