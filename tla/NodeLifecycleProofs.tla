------------------------ MODULE NodeLifecycleProofs ------------------------
(***************************************************************************)
(* Proofs about the life of a node process.                                *)
(*                                                                         *)
(* The order of the services: addToStack is a recursive function without a  *)
(* bound on its depth, so what it computes is proved in two steps.  By      *)
(* induction on the rank a service has among those that depend on each      *)
(* other, and on the length of the list, there is a function that does      *)
(* what each call says; by the same induction any such function returns a   *)
(* stack that holds a service once, above all that it depends on.           *)
(*                                                                         *)
(* The chains of callbacks: NodeInv says where start, the spawns and the    *)
(* calls of stop can be at the same time: a launch is only under way while no *)
(* daemon of the process runs.  ToldInv and StopInv, relative to it, say what *)
(* a call of stop has done by the time it is where it is.                   *)
(***************************************************************************)
EXTENDS NodeLifecycle, FiniteSetTheorems, SequenceTheorems, WellFoundedInduction, TLAPS

-----------------------------------------------------------------------------
(* addToStack.                                                             *)

\* One call of addToStack with the names `names`, where g is what a call with
\* other names does.
Call(c, g, names) ==
    [stack \in Seq(Services) |->
        IF names = <<>> THEN stack
        ELSE LET name == Head(names)
                 below == g[c.dependencies[name]][stack]
             IN  g[Tail(names)][IF name \in Elements(below) THEN below
                                ELSE Append(below, name)]]

\* g is what addToStack computes.
Adds(c, g) == g = [names \in Seq(Services) |-> Call(c, g, names)]
AddToStack(c) == CHOOSE g : Adds(c, g)

\* The calls that a call with `names` makes, itself.
Calls(c, names) == IF names = <<>> THEN {} ELSE {c.dependencies[Head(names)], Tail(names)}

\* g is what addToStack computes for some names, and for those of the calls that
\* these lead to.
PartlyAdds(c, g) ==
    /\ DOMAIN g \subseteq Seq(Services)
    /\ \A names \in DOMAIN g :
          Calls(c, names) \subseteq DOMAIN g /\ g[names] = Call(c, g, names)

\* Every non-empty set of natural numbers has a least one.
LEMMA LeastNumber ==
    ASSUME NEW T, T \subseteq Nat, T # {}
    PROVE  \E m \in T : \A k \in T : m <= k
PROOF
  <1> DEFINE R == OpToRel(<, Nat)
  <1>1. IsWellFoundedOn(R, Nat)
    BY NatLessThanWellFounded
  <1>2. \A x, y \in Nat : x < y => <<x, y>> \in R
    BY DEF OpToRel
  <1> HIDE DEF R
  <1>3. PICK m \in T : \A y \in T : ~ (<<y, m>> \in R)
    BY <1>1, WFMin
  <1>4. \A k \in T : m <= k
    <2> SUFFICES ASSUME NEW k \in T, ~ (m <= k) PROVE FALSE
      OBVIOUS
    <2>1. k \in Nat /\ m \in Nat
      OBVIOUS
    <2>2. k < m
      BY <2>1
    <2> QED BY <1>2, <1>3, <2>1, <2>2
  <1> QED BY <1>4

\* The names of a call, and of the calls it makes.
LEMMA CallNames ==
    ASSUME NEW c \in Configs, NEW names \in Seq(Services)
    PROVE  /\ Calls(c, names) \subseteq Seq(Services)
           /\ c.services \in Seq(Services)
           /\ names # <<>> => /\ Head(names) \in Services /\ Tail(names) \in Seq(Services)
                              /\ c.dependencies[Head(names)] \in Seq(Services)
PROOF
  <1>1. c \in Config BY ConfigAssumption
  <1>2. c.services \in Seq(Services) /\ c.dependencies \in [Services -> Seq(Services)]
    BY <1>1 DEF Config
  <1>3. names # <<>> => Head(names) \in Services /\ Tail(names) \in Seq(Services)
    OBVIOUS
  <1> QED BY <1>2, <1>3 DEF Calls

\* No call of addToStack leads to another one for ever: of any calls there is one
\* that makes none of them.  A call makes one with names of lower rank, and one
\* with fewer of the same names.
LEMMA CallsEnd ==
    ASSUME NEW c \in Configs, NEW T, T \subseteq Seq(Services), T # {}
    PROVE  \E names \in T : \A n \in Calls(c, names) : n \notin T
PROOF
  <1>1. PICK rank \in [Services -> 0..Cardinality(Services)] :
            \A s \in Services : \A t \in DependsOn(c, s) : rank[t] < rank[s]
    BY ConfigAssumption
  <1>2. Cardinality(Services) \in Nat
    BY ConfigAssumption, FS_CardinalityType
  <1>3. \A s \in Services : rank[s] \in Nat /\ rank[s] < Cardinality(Services) + 1
    BY <1>1, <1>2
  <1> DEFINE Below(r, names) == \A i \in 1..Len(names) : rank[names[i]] < r
             Ranks == {r \in Nat : \E names \in T : Below(r, names)}
  <1>4. Ranks # {}
    <2>1. PICK names \in T : TRUE OBVIOUS
    <2>2. Below(Cardinality(Services) + 1, names) BY <1>3, <2>1
    <2>3. Cardinality(Services) + 1 \in Nat BY <1>2
    <2> QED BY <2>1, <2>2, <2>3
  <1>5. PICK r \in Ranks : \A q \in Ranks : r <= q
    <2>1. Ranks \subseteq Nat OBVIOUS
    <2> HIDE DEF Ranks
    <2> QED BY <1>4, <2>1, LeastNumber
  <1> DEFINE U == {names \in T : Below(r, names)}
             Lengths == {Len(names) : names \in U}
  <1>6. PICK names \in U : \A n \in U : Len(names) <= Len(n)
    <2>1. Lengths \subseteq Nat /\ Lengths # {}
      <3>1. U # {} BY <1>5
      <3>2. \A n \in U : Len(n) \in Nat
        <4>1. \A n \in U : n \in Seq(Services) OBVIOUS
        <4> HIDE DEF U
        <4> QED BY <4>1
      <3> HIDE DEF U
      <3> QED BY <3>1, <3>2
    <2>2. PICK m \in Lengths : \A k \in Lengths : m <= k
      <3> HIDE DEF Lengths
      <3> QED BY <2>1, LeastNumber
    <2> QED BY <2>2
  <1>7. names \in T /\ Below(r, names) /\ names \in Seq(Services) /\ r \in Nat
    BY <1>5, <1>6
  <1>8. names # <<>> => Tail(names) \notin T
    <2> SUFFICES ASSUME names # <<>>, Tail(names) \in T PROVE FALSE
      OBVIOUS
    <2>1. Len(Tail(names)) = Len(names) - 1 /\ \A i \in 1..Len(Tail(names)) : Tail(names)[i] = names[i + 1]
      BY <1>7
    <2>2. Below(r, Tail(names))
      <3> SUFFICES ASSUME NEW i \in 1..Len(Tail(names)) PROVE rank[Tail(names)[i]] < r
        OBVIOUS
      <3>1. i + 1 \in 1..Len(names) /\ Tail(names)[i] = names[i + 1] BY <1>7, <2>1
      <3> QED BY <1>7, <3>1
    <2>3. Tail(names) \in U BY <2>2
    <2>4. Len(names) \in Nat BY <1>7
    <2>5. Len(names) <= Len(Tail(names)) BY <1>6, <2>3
    <2> QED BY <2>1, <2>4, <2>5
  <1>9. names # <<>> => c.dependencies[Head(names)] \notin T
    <2> SUFFICES ASSUME names # <<>>, c.dependencies[Head(names)] \in T PROVE FALSE
      OBVIOUS
    <2> DEFINE d == c.dependencies[Head(names)]
    <2>1. Head(names) \in Services /\ Head(names) = names[1] /\ 1 \in 1..Len(names) BY <1>7
    <2>2. d \in Seq(Services) BY <1>7, CallNames
    <2>3. rank[Head(names)] < r BY <1>7, <2>1
    <2>4. rank[Head(names)] \in Nat BY <1>3, <2>1
    <2>5. \A i \in 1..Len(d) : rank[d[i]] < rank[Head(names)]
      <3> SUFFICES ASSUME NEW i \in 1..Len(d) PROVE rank[d[i]] < rank[Head(names)]
        OBVIOUS
      <3>1. d[i] \in DependsOn(c, Head(names)) BY DEF DependsOn, Elements
      <3> HIDE DEF d
      <3> QED BY <1>1, <2>1, <3>1
    <2>6. rank[Head(names)] \in Ranks BY <2>4, <2>5
    <2> HIDE DEF Ranks
    <2> QED BY <1>5, <1>7, <2>3, <2>4, <2>6
  <1>10. \A n \in Calls(c, names) : n \notin T
    BY <1>8, <1>9 DEF Calls
  <1> QED BY <1>7, <1>10

-----------------------------------------------------------------------------
\* A call only depends on what the calls it makes do.
LEMMA CallCongruence ==
    ASSUME NEW c, NEW g, NEW h, NEW names,
           \A n \in Calls(c, names) : g[n] = h[n]
    PROVE  Call(c, g, names) = Call(c, h, names)
PROOF
  <1>1. CASE names = <<>>
    BY <1>1 DEF Call
  <1>2. CASE names # <<>>
    <2>1. g[c.dependencies[Head(names)]] = h[c.dependencies[Head(names)]]
      BY <1>2 DEF Calls
    <2>2. g[Tail(names)] = h[Tail(names)]
      BY <1>2 DEF Calls
    <2> QED BY <1>2, <2>1, <2>2 DEF Call
  <1> QED BY <1>1, <1>2

\* What addToStack computes for some names is the same wherever it is computed.
LEMMA PartsAgree ==
    ASSUME NEW c \in Configs, NEW g, NEW h, PartlyAdds(c, g), PartlyAdds(c, h),
           NEW names \in DOMAIN g \intersect DOMAIN h
    PROVE  g[names] = h[names]
PROOF
  <1> DEFINE T == {n \in DOMAIN g \intersect DOMAIN h : g[n] # h[n]}
  <1>1. SUFFICES ASSUME T # {} PROVE FALSE
    OBVIOUS
  <1>2. T \subseteq Seq(Services) BY DEF PartlyAdds
  <1>3. PICK n \in T : \A m \in Calls(c, n) : m \notin T
    <2> HIDE DEF T
    <2> QED BY <1>1, <1>2, CallsEnd
  <1>4. /\ Calls(c, n) \subseteq DOMAIN g /\ Calls(c, n) \subseteq DOMAIN h
        /\ g[n] = Call(c, g, n) /\ h[n] = Call(c, h, n)
    BY DEF PartlyAdds
  <1>5. \A m \in Calls(c, n) : g[m] = h[m] BY <1>3, <1>4
  <1>6. Call(c, g, n) = Call(c, h, n) BY <1>5, CallCongruence
  <1> QED BY <1>4, <1>6

\* There is a function that addToStack computes, whatever names it is called with.
LEMMA AddsExists ==
    ASSUME NEW c \in Configs
    PROVE  \E g : Adds(c, g)
PROOF
  <1> DEFINE D == {n \in Seq(Services) : \E g : PartlyAdds(c, g) /\ n \in DOMAIN g}
             Part(n) == CHOOSE g : PartlyAdds(c, g) /\ n \in DOMAIN g
             G == [n \in D |-> Part(n)[n]]
  <1>1. \A n \in D : PartlyAdds(c, Part(n)) /\ n \in DOMAIN Part(n)
    OBVIOUS
  <1>2. ASSUME NEW g, PartlyAdds(c, g), NEW n \in DOMAIN g
        PROVE  n \in D /\ G[n] = g[n]
    <2>1. n \in D BY <1>2 DEF PartlyAdds
    <2>2. PartlyAdds(c, Part(n)) /\ n \in DOMAIN Part(n) BY <1>1, <2>1
    <2> HIDE DEF Part, D
    <2>3. Part(n)[n] = g[n] BY <1>2, <2>2, PartsAgree
    <2> QED BY <2>1, <2>3
  <1>3. ASSUME NEW n \in D
        PROVE  Calls(c, n) \subseteq D /\ G[n] = Call(c, G, n)
    <2> DEFINE g == Part(n)
    <2>1. PartlyAdds(c, g) /\ n \in DOMAIN g BY <1>1
    <2> HIDE DEF g, G, D
    <2>2. Calls(c, n) \subseteq DOMAIN g /\ g[n] = Call(c, g, n)
      BY <2>1 DEF PartlyAdds
    <2>3. \A m \in Calls(c, n) : m \in D /\ G[m] = g[m] BY <1>2, <2>1, <2>2
    <2>4. Call(c, g, n) = Call(c, G, n) BY <2>3, CallCongruence
    <2>5. G[n] = g[n] BY <1>2, <2>1
    <2> QED BY <2>2, <2>3, <2>4, <2>5
  <1>4. D = Seq(Services)
    <2> SUFFICES ASSUME Seq(Services) \ D # {} PROVE FALSE
      OBVIOUS
    <2>1. PICK n \in Seq(Services) \ D : \A m \in Calls(c, n) : m \notin Seq(Services) \ D
      <3> HIDE DEF D
      <3>1. Seq(Services) \ D \subseteq Seq(Services) OBVIOUS
      <3> QED BY <3>1, CallsEnd
    <2>2. Calls(c, n) \subseteq D
      <3> HIDE DEF D
      <3> QED BY <2>1, CallNames
    <2> DEFINE H == [m \in D \union {n} |-> IF m = n THEN Call(c, G, n) ELSE G[m]]
    <2>3. \A m \in D : H[m] = G[m] BY <2>1
    <2>4. H[n] = Call(c, G, n) OBVIOUS
    <2>5. PartlyAdds(c, H)
      <3> SUFFICES ASSUME NEW m \in D \union {n}
                   PROVE  Calls(c, m) \subseteq D /\ H[m] = Call(c, H, m)
        BY DEF PartlyAdds
      <3>1. CASE m = n
        <4> HIDE DEF H, G, D
        <4>1. Call(c, G, n) = Call(c, H, n) BY <2>2, <2>3, CallCongruence
        <4> QED BY <2>2, <2>4, <3>1, <4>1
      <3>2. CASE m # n
        <4>1. m \in D BY <3>2
        <4> HIDE DEF H, G, D
        <4>2. Calls(c, m) \subseteq D /\ G[m] = Call(c, G, m) BY <1>3, <4>1
        <4>3. Call(c, G, m) = Call(c, H, m) BY <2>3, <4>2, CallCongruence
        <4> QED BY <2>3, <4>1, <4>2, <4>3
      <3> QED BY <3>1, <3>2
    <2>6. n \in DOMAIN H OBVIOUS
    <2>7. n \in D BY <2>5, <2>6
    <2> QED BY <2>1, <2>7
  <1>5. G = [n \in Seq(Services) |-> Call(c, G, n)]
    <2>1. G = [n \in D |-> G[n]] OBVIOUS
    <2>2. \A n \in D : G[n] = Call(c, G, n) BY <1>3
    <2> HIDE DEF G, D
    <2> QED BY <1>4, <2>1, <2>2
  <1> QED BY <1>5 DEF Adds

-----------------------------------------------------------------------------
(* What the order of the services is.                                      *)

\* Each service once, and after everything it depends on.
Sound(c, stack) ==
    /\ stack \in Seq(Services)
    /\ \A i, j \in 1..Len(stack) : stack[i] = stack[j] => i = j
    /\ \A i \in 1..Len(stack) : \A s \in DependsOn(c, stack[i]) :
          \E j \in 1..(i - 1) : stack[j] = s

\* A service that is not on a sound stack, on top of all it depends on.
LEMMA AppendSound ==
    ASSUME NEW c \in Configs, NEW stack, Sound(c, stack), NEW name \in Services,
           name \notin Elements(stack), DependsOn(c, name) \subseteq Elements(stack)
    PROVE  Sound(c, Append(stack, name))
PROOF
  <1> DEFINE top == Append(stack, name)
  <1>1. stack \in Seq(Services) /\ Len(stack) \in Nat BY DEF Sound
  <1>2. /\ top \in Seq(Services) /\ Len(top) = Len(stack) + 1
        /\ \A i \in 1..Len(stack) : top[i] = stack[i]
        /\ top[Len(stack) + 1] = name
    BY <1>1
  <1> HIDE DEF top
  <1>3. \A i \in 1..Len(stack) : stack[i] # name BY DEF Elements
  <1>4. \A i, j \in 1..Len(top) : top[i] = top[j] => i = j
    <2> SUFFICES ASSUME NEW i \in 1..Len(top), NEW j \in 1..Len(top), top[i] = top[j]
                 PROVE  i = j
      OBVIOUS
    <2>1. CASE i \in 1..Len(stack) /\ j \in 1..Len(stack)
      BY <1>2, <2>1 DEF Sound
    <2>2. CASE i = Len(stack) + 1 \/ j = Len(stack) + 1
      BY <1>1, <1>2, <1>3, <2>2
    <2> QED BY <1>1, <1>2, <2>1, <2>2
  <1>5. ASSUME NEW i \in 1..Len(top), NEW s \in DependsOn(c, top[i])
        PROVE  \E j \in 1..(i - 1) : top[j] = s
    <2>1. CASE i \in 1..Len(stack)
      <3>1. PICK j \in 1..(i - 1) : stack[j] = s BY <1>2, <2>1 DEF Sound
      <3> QED BY <1>1, <1>2, <2>1, <3>1
    <2>2. CASE i = Len(stack) + 1
      <3>1. s \in Elements(stack) BY <1>2, <2>2
      <3>2. PICK j \in 1..Len(stack) : stack[j] = s BY <3>1 DEF Elements
      <3>3. j \in 1..(i - 1) BY <1>1, <2>2
      <3> QED BY <1>2, <3>2, <3>3
    <2> QED BY <1>1, <1>2, <2>1, <2>2
  <1> QED BY <1>2, <1>4, <1>5 DEF Sound, top

\* What one member more makes of the members of a stack.
LEMMA AppendElements ==
    ASSUME NEW stack \in Seq(Services), NEW name \in Services
    PROVE  Elements(Append(stack, name)) = Elements(stack) \union {name}
PROOF
  <1> DEFINE top == Append(stack, name)
  <1>1. /\ Len(stack) \in Nat /\ Len(top) = Len(stack) + 1
        /\ \A i \in 1..Len(stack) : top[i] = stack[i]
        /\ top[Len(stack) + 1] = name
    OBVIOUS
  <1> HIDE DEF top
  <1>2. \A i \in 1..Len(top) : top[i] \in Elements(stack) \union {name}
    BY <1>1 DEF Elements
  <1>3. ASSUME NEW x \in Elements(stack) PROVE x \in Elements(top)
    <2>1. PICK i \in 1..Len(stack) : x = stack[i] BY DEF Elements
    <2>2. i \in 1..Len(top) /\ top[i] = x BY <1>1, <2>1
    <2> QED BY <2>2 DEF Elements
  <1>4. name \in Elements(top)
    <2>1. Len(stack) + 1 \in 1..Len(top) BY <1>1
    <2> QED BY <1>1, <2>1 DEF Elements
  <1>5. Elements(top) \subseteq Elements(stack) \union {name}
    BY <1>2 DEF Elements
  <1> QED BY <1>3, <1>4, <1>5 DEF top

\* addToStack keeps a stack sound, drops nothing from it and puts all the names on it.
LEMMA AddsSound ==
    ASSUME NEW c \in Configs, NEW g, Adds(c, g),
           NEW names \in Seq(Services), NEW stack, Sound(c, stack)
    PROVE  /\ Sound(c, g[names][stack])
           /\ Elements(stack) \union Elements(names) \subseteq Elements(g[names][stack])
PROOF
  <1> DEFINE Fine(n, s) == /\ Sound(c, g[n][s])
                           /\ Elements(s) \union Elements(n) \subseteq Elements(g[n][s])
             T == {n \in Seq(Services) : \E s : Sound(c, s) /\ ~ Fine(n, s)}
  <1>1. SUFFICES ASSUME T # {} PROVE FALSE
    OBVIOUS
  <1>2. PICK n \in T : \A m \in Calls(c, n) : m \notin T
    <2>1. T \subseteq Seq(Services) OBVIOUS
    <2> HIDE DEF T
    <2> QED BY <1>1, <2>1, CallsEnd
  <1>3. PICK s : Sound(c, s) /\ ~ Fine(n, s) OBVIOUS
  <1>4. s \in Seq(Services) /\ n \in Seq(Services) BY <1>3 DEF Sound
  <1>5. ASSUME NEW m \in Calls(c, n), NEW t, Sound(c, t) PROVE Fine(m, t)
    <2>1. m \in Seq(Services) BY <1>4, CallNames
    <2> HIDE DEF Fine
    <2> QED BY <1>2, <1>5, <2>1
  <1>6. g[n] = Call(c, g, n) BY <1>4 DEF Adds
  <1>7. CASE n = <<>>
    <2>1. g[n][s] = s BY <1>4, <1>6, <1>7 DEF Call
    <2>2. Elements(n) = {} BY <1>7 DEF Elements
    <2> QED BY <1>3, <2>1, <2>2
  <1>8. CASE n # <<>>
    <2> DEFINE name == Head(n)
               below == g[c.dependencies[name]][s]
               here == IF name \in Elements(below) THEN below ELSE Append(below, name)
    <2>1. name \in Services /\ c.dependencies[name] \in Calls(c, n) /\ Tail(n) \in Calls(c, n)
      BY <1>4, <1>8 DEF Calls
    <2>2. Fine(c.dependencies[name], s) BY <1>3, <1>5, <2>1
    <2>3. below \in Seq(Services) BY <2>2 DEF Sound
    <2>4. DependsOn(c, name) \subseteq Elements(below) BY <2>2 DEF DependsOn
    <2>5. Sound(c, here)
      BY <2>1, <2>2, <2>4, AppendSound
    <2>6. Elements(s) \union {name} \subseteq Elements(here)
      BY <2>1, <2>2, <2>3, AppendElements
    <2>7. g[n][s] = g[Tail(n)][here]
      BY <1>4, <1>6, <1>8 DEF Call
    <2> HIDE DEF here
    <2>8. Fine(Tail(n), here) BY <1>5, <2>1, <2>5
    <2>9. Elements(n) \subseteq {name} \union Elements(Tail(n))
      <3> SUFFICES ASSUME NEW i \in 1..Len(n), n[i] # name PROVE n[i] \in Elements(Tail(n))
        BY DEF Elements
      <3>1. i - 1 \in 1..Len(Tail(n)) /\ Tail(n)[i - 1] = n[i] BY <1>4, <1>8
      <3> QED BY <3>1 DEF Elements
    <2>10. Fine(n, s) BY <2>6, <2>7, <2>8, <2>9
    <2> QED BY <1>3, <2>10
  <1> QED BY <1>7, <1>8

\* The order of the services: each once, after everything it depends on, and all
\* that are configured.
LEMMA OrderSound ==
    ASSUME NEW c \in Configs
    PROVE  /\ Sound(c, ServiceOrder(c))
           /\ Elements(c.services) \subseteq Elements(ServiceOrder(c))
PROOF
  <1> DEFINE g == AddToStack(c)
  <1>1. ServiceOrder(c) = g[c.services][<<>>]
    BY DEF ServiceOrder, AddToStack, Adds, Call
  <1>2. Adds(c, g)
    BY AddsExists DEF AddToStack
  <1>3. Sound(c, <<>>)
    BY DEF Sound
  <1>4. c.services \in Seq(Services)
    BY ConfigAssumption DEF Config
  <1> HIDE DEF g
  <1> QED BY <1>1, <1>2, <1>3, <1>4, AddsSound

-----------------------------------------------------------------------------
(* Types, and where the chains of callbacks can be.                        *)

Order == ServiceOrder(config)

\* start has dealt with the first services of the order, and at most one more is
\* loaded, the one it is at.
StartInv ==
    /\ \E k \in 0..Len(Order) : /\ toStart = SubSeq(Order, k + 1, Len(Order))
                                /\ started = {Order[i] : i \in 1..k}
    /\ started \subseteq loaded
    /\ loaded \subseteq started \union (IF toStart = <<>> THEN {} ELSE {Head(toStart)})
    /\ startPc = "starting" => Head(toStart) \in loaded
    /\ startPc = "next" => loaded = started

StartsBitcoind == startPc = "starting" /\ toStart # <<>> /\ Head(toStart) = Bitcoind

\* The first spawn is part of the start of the service, and start waits for it; a
\* daemon that runs is one left behind, or the child, and while a launch is under
\* way there is no child that runs.
SpawnInv ==
    /\ spawned = 0 /\ launch # "none" => StartsBitcoind
    /\ attempt[1] \in {"try", "asked", "sleep"} => StartsBitcoind
    /\ spawned > 0 \/ launch # "none" => Bitcoind \in loaded
    /\ \A p \in Spawnable : p > spawned => attempt[p] = "none"
    /\ \A p \in Spawnable :
          attempt[p] \in {"none", "try", "asked", "sleep"} => triesLeft[p] >= 1
    /\ handle \in {0, spawned}
    /\ alive \subseteq {0, handle}
    /\ launch # "none" => alive \subseteq {0}

\* A call of stop that waits for the daemon is at bitcoind.
RunsInv ==
    /\ runs # <<>> => stopping
    /\ \A i \in DOMAIN runs : runs[i].pc \in {"wait", "exited"} =>
          runs[i].left # <<>> /\ Head(runs[i].left) = Bitcoind /\ Bitcoind \in stopped

NodeInv == TypeOK /\ StartInv /\ SpawnInv /\ RunsInv

\* The order of the services, either way, is a list of services.
LEMMA OrderType ==
    ASSUME NEW c \in Configs
    PROVE  /\ ServiceOrder(c) \in Seq(Services) /\ StopOrder(c) \in Seq(Services)
           /\ Len(StopOrder(c)) = Len(ServiceOrder(c))
           /\ \A i \in 1..Len(ServiceOrder(c)) :
                 StopOrder(c)[i] = ServiceOrder(c)[Len(ServiceOrder(c)) + 1 - i]
PROOF
  <1> DEFINE order == ServiceOrder(c)
  <1>1. order \in Seq(Services) BY OrderSound DEF Sound
  <1> HIDE DEF order
  <1>2. StopOrder(c) = [i \in 1..Len(order) |-> order[Len(order) + 1 - i]]
    BY DEF StopOrder, order
  <1>3. \A i \in 1..Len(order) : order[Len(order) + 1 - i] \in Services BY <1>1
  <1>4. StopOrder(c) \in [1..Len(order) -> Services] BY <1>2, <1>3
  <1>5. StopOrder(c) \in Seq(Services) /\ Len(StopOrder(c)) = Len(order)
    <2>1. Len(order) \in Nat BY <1>1
    <2> QED BY <1>4, <2>1
  <1> QED BY <1>1, <1>2, <1>5 DEF order

\* The numbers of the daemons.
LEMMA PidFacts ==
    /\ 0 \in Pids /\ 1 \in Spawnable /\ Spawnable \subseteq Pids
    /\ \A p \in Pids : p \in Nat /\ (p # 0 => p \in Spawnable)
    /\ \A p \in Spawnable : p \in Nat /\ p > 0
    /\ Tries \in Nat /\ Tries >= 1 /\ MaxExits \in Nat /\ MaxFaults \in Nat
    /\ RestartTime \in Nat /\ RetryInterval \in Nat /\ SpawnStopTime \in Nat
    /\ ShutdownTimeout \in Nat
BY TimeAssumption DEF Pids, Spawnable

\* Another call of stop begins at the end of the order.
LEMMA BeginStopRuns ==
    ASSUME config \in Configs, runs \in Seq(Run), loaded \subseteq Services, BeginStop
    PROVE  /\ runs' \in Seq(Run) /\ stopping' = TRUE
           /\ Len(runs') = Len(runs) + 1
           /\ \A i \in 1..Len(runs) : runs'[i] = runs[i]
           /\ LET new == runs'[Len(runs) + 1]
              IN  /\ new.pc = "begin" /\ new.left = StopOrder(config)
                  /\ new.had = loaded
PROOF
  <1> DEFINE new == [left |-> StopOrder(config), pc |-> "begin", child |-> 0, in |-> 0,
                     had |-> loaded]
  <1>1. new \in Run
    <2>1. 0 \in 0..ShutdownTimeout BY PidFacts
    <2> QED BY <2>1, OrderType, PidFacts DEF Run
  <1>2. runs' = Append(runs, new) /\ stopping' = TRUE BY DEF BeginStop
  <1>3. new.pc = "begin" /\ new.left = StopOrder(config)
        /\ new.had = loaded
    OBVIOUS
  <1> HIDE DEF new
  <1>4. runs' \in Seq(Run) /\ Len(runs') = Len(runs) + 1 BY <1>1, <1>2
  <1>5. runs'[Len(runs) + 1] = new /\ \A i \in 1..Len(runs) : runs'[i] = runs[i]
    BY <1>1, <1>2
  <1> QED BY <1>2, <1>3, <1>4, <1>5

\* What a step of the series of stops does: it stops the next service, and waits if
\* that is the daemon.
Stops(i, left) ==
    /\ left # <<>>
    /\ stopped' = stopped \union (loaded \intersect {Head(left)})
    /\ runs' \in Seq(Run) /\ DOMAIN runs' = DOMAIN runs
    /\ \A j \in DOMAIN runs : j # i => runs'[j] = runs[j]
    /\ runs'[i].had = runs[i].had
    /\ \/ /\ Head(left) = Bitcoind /\ Bitcoind \in loaded
          /\ runs'[i].pc = "wait" /\ runs'[i].left = left
          /\ signalled' = signalled \union Child
       \/ /\ Head(left) # Bitcoind \/ Bitcoind \notin loaded \/ handle = 0
          /\ runs'[i].pc \in {"next", "begin"} /\ runs'[i].left = Tail(left)
          /\ signalled' = signalled
    /\ UNCHANGED <<config, process, environment, node, stopping, shuttingDown,
                   launching, attempts, alive, pidFile>>

\* The series ends the process or does that.
LEMMA ProceedStops ==
    ASSUME NodeInv, NEW i \in DOMAIN runs, NEW left \in Seq(Services), Proceed(i, left)
    PROVE  (End /\ left = <<>>) \/ Stops(i, left)
PROOF
  <1> DEFINE run == AfterStop(runs[i], left)
  <1>1. CASE left = <<>>
    BY <1>1 DEF Proceed
  <1>2. CASE left # <<>>
    <2>1. /\ stopped' = stopped \union (loaded \intersect {Head(left)})
          /\ runs' = [runs EXCEPT ![i] = run]
          /\ signalled' = IF runs'[i].pc = "wait" THEN signalled \union Child ELSE signalled
          /\ UNCHANGED <<config, process, environment, node, stopping, shuttingDown,
                         launching, attempts, alive, pidFile>>
      BY <1>2 DEF Proceed
    <2>2. Tail(left) \in Seq(Services) BY <1>2
    <2>3. runs \in Seq(Run) /\ runs[i] \in Run /\ handle \in Pids
      <3>1. runs \in Seq(Run) /\ handle \in Pids BY DEF NodeInv, TypeOK, ShutdownTypeOK, DaemonTypeOK
      <3> QED BY <3>1
    <2>4. /\ run \in Run /\ run.had = runs[i].had
          /\ \/ /\ Head(left) = Bitcoind /\ Bitcoind \in loaded
                /\ run.pc = "wait" /\ run.left = left
             \/ /\ Head(left) # Bitcoind \/ Bitcoind \notin loaded \/ handle = 0
                /\ run.pc \in {"next", "begin"} /\ run.left = Tail(left)
      <3>1. ShutdownTimeout \in 0..ShutdownTimeout BY PidFacts
      <3>2. CASE Head(left) # Bitcoind \/ Bitcoind \notin loaded
        BY <2>2, <2>3, <3>2 DEF Run, AfterStop
      <3>3. CASE Head(left) = Bitcoind /\ Bitcoind \in loaded /\ handle = 0
        BY <2>2, <2>3, <3>3 DEF Run, AfterStop
      <3>4. CASE Head(left) = Bitcoind /\ Bitcoind \in loaded /\ handle # 0
        BY <2>3, <3>1, <3>4 DEF Run, AfterStop
      <3> QED BY <3>2, <3>3, <3>4
    <2> HIDE DEF run
    <2>5. runs' \in Seq(Run) /\ DOMAIN runs' = DOMAIN runs /\ runs'[i] = run
          /\ \A j \in DOMAIN runs : j # i => runs'[j] = runs[j]
      BY <2>1, <2>3, <2>4
    <2> QED BY <1>2, <2>1, <2>4, <2>5 DEF Stops
  <1> QED BY <1>1, <1>2

\* What the end of the process leaves.
LEMMA EndFacts ==
    ASSUME End
    PROVE  /\ process' = "gone" /\ runs' = <<>> /\ launch' = "none" /\ launchIn' = 0
           /\ attemptIn' = [p \in Spawnable |-> 0]
           /\ UNCHANGED <<config, faults, exits, toStart, startPc, loaded, started, stopping,
                          stopped, shuttingDown, spawned, handle, attempt, triesLeft, alive,
                          signalled, pidFile>>
BY DEF End, environment, node, daemon

\* Which services of a list may be at its head, and what is left of it.
LEMMA StoppingStep ==
    ASSUME NodeInv, NEW i \in DOMAIN runs,
           StopService(i) \/ ChildExited(i) \/ ShutdownTimesOut(i)
    PROVE  \/ End /\ (runs[i].pc \in {"wait", "exited"} \/ runs[i].left = <<>>)
           \/ \E left \in Seq(Services) :
                 /\ \/ runs[i].pc \notin {"wait", "exited"} /\ left = runs[i].left
                    \/ runs[i].pc = "exited" /\ left = Tail(runs[i].left)
                 /\ Stops(i, left)
PROOF
  <1>1. runs[i] \in Run /\ runs[i].left \in Seq(Services)
    <2>1. runs \in Seq(Run) BY DEF NodeInv, TypeOK, ShutdownTypeOK, DaemonTypeOK
    <2>2. runs[i] \in Run BY <2>1
    <2> QED BY <2>2 DEF Run
  <1>2. CASE StopService(i)
    <2>1. runs[i].pc \in {"begin", "next"} /\ Proceed(i, runs[i].left)
      BY <1>2 DEF StopService
    <2>2. CASE End /\ runs[i].left = <<>>
      BY <2>2
    <2>3. CASE Stops(i, runs[i].left)
      BY <1>1, <2>1, <2>3
    <2> QED BY <1>1, <2>1, <2>2, <2>3, ProceedStops
  <1>3. CASE ChildExited(i)
    <2>1. runs[i].pc = "exited" /\ (Proceed(i, Tail(runs[i].left)) \/ End)
      BY <1>3 DEF ChildExited
    <2>2. Tail(runs[i].left) \in Seq(Services)
      BY <1>1, <2>1 DEF NodeInv, RunsInv
    <2> QED BY <2>1, <2>2, ProceedStops
  <1>4. CASE ShutdownTimesOut(i)
    BY <1>4 DEF ShutdownTimesOut, TimedOut
  <1> QED BY <1>2, <1>3, <1>4

\* A configured node that has not begun to start.
LEMMA NodeInit == Init => NodeInv
PROOF
  <1> SUFFICES ASSUME Init PROVE NodeInv
    OBVIOUS
  <1>1. Order \in Seq(Services) /\ toStart = Order
    BY OrderType DEF Init, Order
  <1>2. TypeOK
    <2>1. runs \in Seq(Run) BY DEF Init
    <2>2. alive \subseteq Pids /\ signalled \subseteq Pids /\ pidFile \subseteq Pids BY PidFacts DEF Init
    <2>3. attempt \in [Spawnable -> {"none", "try", "asked", "sleep", "up", "aborted", "given up"}]
          /\ attemptIn \in [Spawnable -> Nat] /\ triesLeft \in [Spawnable -> 0..Tries]
      BY PidFacts DEF Init
    <2>start. StartTypeOK BY <1>1, PidFacts DEF Init, StartTypeOK
    <2>shutdown. ShutdownTypeOK BY <2>1 DEF Init, ShutdownTypeOK
    <2>daemon. DaemonTypeOK BY <2>2, <2>3, PidFacts DEF Init, DaemonTypeOK
    <2> QED BY <2>start, <2>shutdown, <2>daemon DEF TypeOK
  <1>3. StartInv
    <2>1. toStart = SubSeq(Order, 0 + 1, Len(Order)) BY <1>1
    <2>2. started = {Order[i] : i \in 1..0} BY DEF Init
    <2>3. 0 \in 0..Len(Order) BY <1>1
    <2> QED BY <2>1, <2>2, <2>3 DEF Init, StartInv
  <1>4. SpawnInv BY PidFacts DEF Init, SpawnInv
  <1>5. RunsInv BY DEF Init, RunsInv
  <1> QED BY <1>2, <1>3, <1>4, <1>5 DEF NodeInv

\* What the error of a start, and of a spawn, does.
LEMMA StartErrorTypes ==
    ASSUME NodeInv, StartError
    PROVE  /\ runs' \in Seq(Run) /\ stopping' = TRUE /\ startPc' = "failed"
           /\ UNCHANGED <<toStart, loaded, started, stopped, shuttingDown>>
PROOF
  <1>1. config \in Configs /\ runs \in Seq(Run) /\ loaded \subseteq Services
    BY DEF NodeInv, TypeOK, StartTypeOK, ShutdownTypeOK
  <1>2. /\ BeginStop /\ startPc' = "failed"
        /\ UNCHANGED <<toStart, loaded, started, stopped, shuttingDown>>
    BY DEF StartError
  <1>3. runs' \in Seq(Run) /\ stopping' = TRUE BY <1>1, <1>2, BeginStopRuns
  <1> QED BY <1>2, <1>3

\* Every step keeps the types, one step per action.
LEMMA TypeStep == NodeInv /\ [Next]_vars => TypeOK'
PROOF
  <1> SUFFICES ASSUME NodeInv, [Next]_vars PROVE TypeOK'
    OBVIOUS
  <1> USE DEF TypeOK, environment, node, shutdown, launching, attempts, daemon
  <1>1. /\ StartTypeOK /\ ShutdownTypeOK /\ DaemonTypeOK
        /\ config \in Configs /\ runs \in Seq(Run) /\ loaded \subseteq Services
    BY DEF NodeInv, StartTypeOK, ShutdownTypeOK
  <1>2. CASE StartNext
    <2>start. StartTypeOK' BY <1>1, <1>2 DEF StartTypeOK, StartNext
    <2>shutdown. ShutdownTypeOK' BY <1>1, <1>2 DEF ShutdownTypeOK, StartNext
    <2>daemon. DaemonTypeOK' BY <1>1, <1>2 DEF DaemonTypeOK, StartNext
    <2> QED BY <2>start, <2>shutdown, <2>daemon
  <1>3. CASE ServiceStarted
    <2>start. StartTypeOK' BY <1>1, <1>3 DEF StartTypeOK, ServiceStarted, StartsNext
    <2>shutdown. ShutdownTypeOK' BY <1>1, <1>3 DEF ShutdownTypeOK, ServiceStarted, StartsNext
    <2>daemon. DaemonTypeOK' BY <1>1, <1>3 DEF DaemonTypeOK, ServiceStarted, StartsNext
    <2> QED BY <2>start, <2>shutdown, <2>daemon
  <1>4. CASE Ready
    <2>start. StartTypeOK' BY <1>1, <1>4 DEF StartTypeOK, Ready
    <2>shutdown. ShutdownTypeOK' BY <1>1, <1>4 DEF ShutdownTypeOK, Ready
    <2>daemon. DaemonTypeOK' BY <1>1, <1>4 DEF DaemonTypeOK, Ready
    <2> QED BY <2>start, <2>shutdown, <2>daemon
  <1>5. CASE StopOther
    <2>start. StartTypeOK' BY <1>1, <1>5, PidFacts DEF StartTypeOK, StopOther, Other
    <2>shutdown. ShutdownTypeOK' BY <1>1, <1>5, PidFacts DEF ShutdownTypeOK, StopOther, Other
    <2>daemon. DaemonTypeOK' BY <1>1, <1>5, PidFacts DEF DaemonTypeOK, StopOther, Other
    <2> QED BY <2>start, <2>shutdown, <2>daemon
  <1>6. CASE Spawn
    <2>1. spawned' \in Spawnable /\ spawned' = spawned + 1 /\ spawned' \in Pids
      BY <1>6, PidFacts DEF Spawn
    <2>start. StartTypeOK' BY <1>1, <1>6, <2>1, PidFacts DEF StartTypeOK, Spawn
    <2>shutdown. ShutdownTypeOK' BY <1>1, <1>6, <2>1 DEF ShutdownTypeOK, Spawn
    <2>daemon. DaemonTypeOK' BY <1>1, <1>6, <2>1 DEF DaemonTypeOK, Spawn, LookedUp
    <2> QED BY <2>start, <2>shutdown, <2>daemon
  <1>7. CASE RestartTimer \/ LookAgain
    <2>start. StartTypeOK' BY <1>1, <1>7 DEF StartTypeOK, RestartTimer, LookAgain
    <2>shutdown. ShutdownTypeOK' BY <1>1, <1>7 DEF ShutdownTypeOK, RestartTimer, LookAgain
    <2>daemon. DaemonTypeOK' BY <1>1, <1>7, PidFacts DEF DaemonTypeOK, RestartTimer, LookAgain
    <2> QED BY <2>start, <2>shutdown, <2>daemon
  <1>8. ASSUME NEW p \in Spawnable, Try(p) PROVE TypeOK'
    <2>1. CASE SpawnError(p) /\ p = 1
      <3>1. StartError BY <2>1 DEF SpawnError
      <3>start. StartTypeOK' BY <1>1, <1>8, <3>1, StartErrorTypes DEF StartTypeOK, Try
      <3>shutdown. ShutdownTypeOK' BY <1>1, <1>8, <3>1, StartErrorTypes DEF ShutdownTypeOK, Try
      <3>daemon. DaemonTypeOK' BY <1>1, <1>8, <3>1, StartErrorTypes DEF DaemonTypeOK, Try
      <3> QED BY <3>start, <3>shutdown, <3>daemon
    <2>2. CASE UNCHANGED <<node, shutdown>>
      <3>start. StartTypeOK' BY <1>1, <1>8, <2>2 DEF StartTypeOK, Try
      <3>shutdown. ShutdownTypeOK' BY <1>1, <1>8, <2>2 DEF ShutdownTypeOK, Try
      <3>daemon. DaemonTypeOK' BY <1>1, <1>8, <2>2 DEF DaemonTypeOK, Try
      <3> QED BY <3>start, <3>shutdown, <3>daemon
    <2> QED BY <1>8, <2>1, <2>2 DEF Try, SpawnError
  <1>9. ASSUME NEW p \in Spawnable, AttemptTimer(p) PROVE TypeOK'
    <2>start. StartTypeOK' BY <1>1, <1>9 DEF StartTypeOK, AttemptTimer
    <2>shutdown. ShutdownTypeOK' BY <1>1, <1>9 DEF ShutdownTypeOK, AttemptTimer
    <2>daemon. DaemonTypeOK' BY <1>1, <1>9 DEF DaemonTypeOK, AttemptTimer
    <2> QED BY <2>start, <2>shutdown, <2>daemon
  <1>10. ASSUME NEW p \in Spawnable, Answered(p) PROVE TypeOK'
    <2>1. CASE p = 1
      <3>1. StartsNext /\ StartsBitcoind BY <1>10, <2>1 DEF Answered, NodeInv, SpawnInv
      <3>start. StartTypeOK' BY <1>1, <1>10, <3>1 DEF StartTypeOK, Answered, StartsNext, StartsBitcoind
      <3>shutdown. ShutdownTypeOK' BY <1>1, <1>10, <3>1 DEF ShutdownTypeOK, Answered, StartsNext, StartsBitcoind
      <3>daemon. DaemonTypeOK' BY <1>1, <1>10, <3>1 DEF DaemonTypeOK, Answered, StartsNext, StartsBitcoind
      <3> QED BY <3>start, <3>shutdown, <3>daemon
    <2>2. CASE p # 1
      <3>start. StartTypeOK' BY <1>1, <1>10, <2>2 DEF StartTypeOK, Answered
      <3>shutdown. ShutdownTypeOK' BY <1>1, <1>10, <2>2 DEF ShutdownTypeOK, Answered
      <3>daemon. DaemonTypeOK' BY <1>1, <1>10, <2>2 DEF DaemonTypeOK, Answered
      <3> QED BY <3>start, <3>shutdown, <3>daemon
    <2> QED BY <2>1, <2>2
  <1>11. ASSUME NEW p \in Spawnable, Unanswered(p) PROVE TypeOK'
    <2>1. triesLeft[p] \in 0..Tries /\ triesLeft[p] >= 1
      BY <1>1, <1>11 DEF DaemonTypeOK, Unanswered, NodeInv, SpawnInv
    <2>2. triesLeft' \in [Spawnable -> 0..Tries] /\ RetryInterval \in Nat
      <3>1. triesLeft[p] - 1 \in 0..Tries BY <2>1, PidFacts
      <3> QED BY <1>1, <1>11, <3>1, PidFacts DEF DaemonTypeOK, Unanswered
    <2>3. CASE SpawnError(p) /\ p = 1
      <3>1. StartError BY <2>3 DEF SpawnError
      <3>start. StartTypeOK' BY <1>1, <1>11, <2>2, <3>1, StartErrorTypes DEF StartTypeOK, Unanswered
      <3>shutdown. ShutdownTypeOK' BY <1>1, <1>11, <2>2, <3>1, StartErrorTypes DEF ShutdownTypeOK, Unanswered
      <3>daemon. DaemonTypeOK' BY <1>1, <1>11, <2>2, <3>1, StartErrorTypes DEF DaemonTypeOK, Unanswered
      <3> QED BY <3>start, <3>shutdown, <3>daemon
    <2>4. CASE UNCHANGED <<node, shutdown>>
      <3>start. StartTypeOK' BY <1>1, <1>11, <2>2, <2>4 DEF StartTypeOK, Unanswered
      <3>shutdown. ShutdownTypeOK' BY <1>1, <1>11, <2>2, <2>4 DEF ShutdownTypeOK, Unanswered
      <3>daemon. DaemonTypeOK' BY <1>1, <1>11, <2>2, <2>4 DEF DaemonTypeOK, Unanswered
      <3> QED BY <3>start, <3>shutdown, <3>daemon
    <2> QED BY <1>11, <2>3, <2>4 DEF Unanswered, SpawnError
  <1>12. ASSUME NEW i \in DOMAIN runs, StopService(i) \/ ChildExited(i) \/ ShutdownTimesOut(i)
         PROVE  TypeOK'
    <2>1. CASE End
      <3>1. runs' \in Seq(Run) /\ attemptIn' \in [Spawnable -> Nat] BY <2>1, EndFacts
      <3>start. StartTypeOK' BY <1>1, <2>1, EndFacts DEF StartTypeOK
      <3>shutdown. ShutdownTypeOK' BY <1>1, <2>1, <3>1, EndFacts DEF ShutdownTypeOK
      <3>2. /\ launch' = "none" /\ launchIn' = 0
            /\ UNCHANGED <<spawned, handle, attempt, triesLeft, alive, signalled, pidFile>>
        BY <2>1, EndFacts
      <3>daemon. DaemonTypeOK' BY <1>1, <3>1, <3>2 DEF DaemonTypeOK
      <3> QED BY <3>start, <3>shutdown, <3>daemon
    <2>2. ASSUME NEW left \in Seq(Services), Stops(i, left) PROVE TypeOK'
      <3>1. /\ runs' \in Seq(Run)
            /\ stopped' \subseteq stopped \union loaded
            /\ signalled' \subseteq signalled \union alive
            /\ UNCHANGED <<config, process, environment, node, stopping, shuttingDown,
                          launching, attempts, alive, pidFile>>
        BY <2>2 DEF Stops, Child
      <3>start. StartTypeOK' BY <1>1, <3>1 DEF StartTypeOK
      <3>shutdown. ShutdownTypeOK' BY <1>1, <3>1 DEF StartTypeOK, ShutdownTypeOK
      <3>daemon. DaemonTypeOK' BY <1>1, <3>1 DEF DaemonTypeOK
      <3> QED BY <3>start, <3>shutdown, <3>daemon
    <2> QED BY <1>12, <2>1, <2>2, StoppingStep
  <1>13. ASSUME NEW p \in Pids, DaemonExits(p) PROVE TypeOK'
    <2>1. runs' \in Seq(Run)
      <3> DEFINE next(i) == IF p # 0 /\ runs[i].pc = "wait" /\ runs[i].child = p
                            THEN [runs[i] EXCEPT !.pc = "exited", !.in = 0] ELSE runs[i]
      <3>0. runs' = [i \in DOMAIN runs |-> next(i)] BY <1>13 DEF DaemonExits
      <3>4. DOMAIN runs = 1..Len(runs) BY <1>1
      <3>1. runs' = [i \in 1..Len(runs) |-> next(i)] BY <3>0, <3>4
      <3>2. \A i \in 1..Len(runs) : next(i) \in Run
        <4> SUFFICES ASSUME NEW i \in 1..Len(runs) PROVE next(i) \in Run
          OBVIOUS
        <4>1. runs[i] \in Run /\ 0 \in 0..ShutdownTimeout BY <1>1, PidFacts
        <4> QED BY <4>1 DEF Run
      <3> HIDE DEF next
      <3>3. Len(runs) \in Nat BY <1>1
      <3> QED BY <3>1, <3>2, <3>3
    <2>2. /\ exits' = exits \/ (exits < MaxExits /\ exits' = exits + 1)
          /\ UNCHANGED <<config, process, faults, toStart, startPc, loaded, started>>
      BY <1>13 DEF DaemonExits
    <2>3. exits' \in 0..MaxExits BY <1>1, <2>2, PidFacts DEF StartTypeOK
    <2>start. StartTypeOK' BY <1>1, <2>2, <2>3 DEF StartTypeOK
    <2>shutdown. ShutdownTypeOK' BY <1>1, <1>13, <2>1, PidFacts DEF ShutdownTypeOK, DaemonExits
    <2>daemon. DaemonTypeOK' BY <1>1, <1>13, <2>1, PidFacts DEF DaemonTypeOK, DaemonExits
    <2> QED BY <2>start, <2>shutdown, <2>daemon
  <1>14. CASE Sigint
    <2>1. runs' \in Seq(Run) /\ stopping' = TRUE BY <1>1, <1>14, BeginStopRuns DEF Sigint
    <2>start. StartTypeOK' BY <1>1, <1>14, <2>1 DEF StartTypeOK, Sigint
    <2>shutdown. ShutdownTypeOK' BY <1>1, <1>14, <2>1 DEF ShutdownTypeOK, Sigint
    <2>daemon. DaemonTypeOK' BY <1>1, <1>14, <2>1 DEF DaemonTypeOK, Sigint
    <2> QED BY <2>start, <2>shutdown, <2>daemon
  <1>15. CASE Throw
    <2>1. runs' \in Seq(Run) /\ stopping' = TRUE BY <1>1, <1>15, BeginStopRuns DEF Throw
    <2>start. StartTypeOK' BY <1>1, <1>15, <2>1, PidFacts DEF StartTypeOK, Throw
    <2>shutdown. ShutdownTypeOK' BY <1>1, <1>15, <2>1, PidFacts DEF ShutdownTypeOK, Throw
    <2>daemon. DaemonTypeOK' BY <1>1, <1>15, <2>1, PidFacts DEF DaemonTypeOK, Throw
    <2> QED BY <2>start, <2>shutdown, <2>daemon
  <1>16. CASE ServiceFails
    <2>1. StartError BY <1>16 DEF ServiceFails
    <2>start. StartTypeOK' BY <1>1, <1>16, <2>1, StartErrorTypes, PidFacts DEF StartTypeOK, ServiceFails
    <2>shutdown. ShutdownTypeOK' BY <1>1, <1>16, <2>1, StartErrorTypes, PidFacts DEF ShutdownTypeOK, ServiceFails
    <2>daemon. DaemonTypeOK' BY <1>1, <1>16, <2>1, StartErrorTypes, PidFacts DEF DaemonTypeOK, ServiceFails
    <2> QED BY <2>start, <2>shutdown, <2>daemon
  <1>17. CASE ChainFails
    <2>1. StartError BY <1>17 DEF ChainFails
    <2>start. StartTypeOK' BY <1>1, <1>17, <2>1, StartErrorTypes, PidFacts DEF StartTypeOK, ChainFails
    <2>shutdown. ShutdownTypeOK' BY <1>1, <1>17, <2>1, StartErrorTypes, PidFacts DEF ShutdownTypeOK, ChainFails
    <2>daemon. DaemonTypeOK' BY <1>1, <1>17, <2>1, StartErrorTypes, PidFacts DEF DaemonTypeOK, ChainFails
    <2> QED BY <2>start, <2>shutdown, <2>daemon
  <1>18. CASE Tick
    <2>1. runs' \in Seq(Run)
      <3> DEFINE next(i) == [runs[i] EXCEPT !.in = Less(@)]
      <3>1. runs' = [i \in 1..Len(runs) |-> next(i)] BY <1>1, <1>18 DEF Tick
      <3>2. \A i \in 1..Len(runs) : next(i) \in Run
        <4> SUFFICES ASSUME NEW i \in 1..Len(runs) PROVE next(i) \in Run
          OBVIOUS
        <4>1. runs[i] \in Run BY <1>1
        <4>2. Less(runs[i].in) \in 0..ShutdownTimeout BY <4>1, PidFacts DEF Run, Less
        <4> QED BY <4>1, <4>2 DEF Run
      <3> HIDE DEF next
      <3>3. Len(runs) \in Nat BY <1>1
      <3> QED BY <3>1, <3>2, <3>3
    <2>2. launchIn' \in Nat /\ attemptIn' \in [Spawnable -> Nat]
      <3>1. \A n \in Nat : Less(n) \in Nat BY DEF Less
      <3>2. launchIn' = Less(launchIn) /\ attemptIn' = [p \in Spawnable |-> Less(attemptIn[p])]
        BY <1>18 DEF Tick
      <3> QED BY <1>1, <3>1, <3>2 DEF DaemonTypeOK
    <2>start. StartTypeOK' BY <1>1, <1>18, <2>1, <2>2 DEF StartTypeOK, Tick
    <2>shutdown. ShutdownTypeOK' BY <1>1, <1>18, <2>1, <2>2 DEF ShutdownTypeOK, Tick
    <2>daemon. DaemonTypeOK' BY <1>1, <1>18, <2>1, <2>2 DEF DaemonTypeOK, Tick
    <2> QED BY <2>start, <2>shutdown, <2>daemon
  <1>20. ASSUME NEW p \in Pids, WritesPid(p) \/ RemovesPid(p) PROVE TypeOK'
    <2>start. StartTypeOK' BY <1>1, <1>20 DEF StartTypeOK, WritesPid, RemovesPid
    <2>shutdown. ShutdownTypeOK' BY <1>1, <1>20 DEF ShutdownTypeOK, WritesPid, RemovesPid
    <2>daemon. DaemonTypeOK' BY <1>1, <1>20 DEF DaemonTypeOK, WritesPid, RemovesPid
    <2> QED BY <2>start, <2>shutdown, <2>daemon
  <1>21. CASE LaunchFails
    <2>1. CASE StartError
      <3>start. StartTypeOK' BY <1>1, <1>21, <2>1, StartErrorTypes, PidFacts DEF StartTypeOK, LaunchFails
      <3>shutdown. ShutdownTypeOK' BY <1>1, <1>21, <2>1, StartErrorTypes DEF ShutdownTypeOK, LaunchFails
      <3>daemon. DaemonTypeOK' BY <1>1, <1>21 DEF DaemonTypeOK, LaunchFails
      <3> QED BY <3>start, <3>shutdown, <3>daemon
    <2>2. CASE UNCHANGED <<node, shutdown>>
      <3>start. StartTypeOK' BY <1>1, <1>21, <2>2, PidFacts DEF StartTypeOK, LaunchFails
      <3>shutdown. ShutdownTypeOK' BY <1>1, <1>21, <2>2 DEF ShutdownTypeOK, LaunchFails
      <3>daemon. DaemonTypeOK' BY <1>1, <1>21 DEF DaemonTypeOK, LaunchFails
      <3> QED BY <3>start, <3>shutdown, <3>daemon
    <2> QED BY <1>21, <2>1, <2>2 DEF LaunchFails, SpawnError
  <1>19. CASE UNCHANGED vars
    <2>start. StartTypeOK' BY <1>1, <1>19 DEF StartTypeOK, vars
    <2>shutdown. ShutdownTypeOK' BY <1>1, <1>19 DEF ShutdownTypeOK, vars
    <2>daemon. DaemonTypeOK' BY <1>1, <1>19 DEF DaemonTypeOK, vars
    <2> QED BY <2>start, <2>shutdown, <2>daemon
  <1> QED BY <1>2, <1>3, <1>4, <1>5, <1>6, <1>7, <1>8, <1>9, <1>10, <1>11, <1>12, <1>13, <1>14,
             <1>15, <1>16, <1>17, <1>18, <1>19, <1>20, <1>21
          DEF Next, Starting, Launching, Stopping, Rpc, Daemon, Environment

-----------------------------------------------------------------------------
(* The start.                                                              *)

\* What a step that starts nothing and calls nothing back does to the start.
StartKept == /\ UNCHANGED <<toStart, loaded, started>>
             /\ startPc' = startPc \/ startPc' \in {"ready", "failed"}

\* A step leaves the start alone or ends it, loads the next service, or is the
\* callback of the one that is starting.
LEMMA StartChanges ==
    ASSUME NodeInv, [Next]_vars
    PROVE  /\ config' = config
           /\ StartKept \/ StartNext \/ (startPc = "starting" /\ StartsNext)
PROOF
  <1> USE DEF environment, node, shutdown, launching, attempts, daemon
  <1>1. /\ \A p : SpawnError(p) => StartKept
        /\ StartError => StartKept
    BY DEF SpawnError, StartError, StartKept
  <1>2. ASSUME StartNext PROVE config' = config BY <1>2 DEF StartNext
  <1>3. ASSUME ServiceStarted
        PROVE  config' = config /\ startPc = "starting" /\ StartsNext
    BY <1>3 DEF ServiceStarted
  <1>4. ASSUME Ready PROVE config' = config /\ StartKept BY <1>4 DEF Ready, StartKept
  <1>5. ASSUME StopOther \/ Spawn \/ RestartTimer \/ LookAgain PROVE config' = config /\ StartKept
    BY <1>5 DEF StopOther, Spawn, RestartTimer, LookAgain, StartKept
  <1>6. ASSUME NEW p \in Spawnable, Try(p) \/ AttemptTimer(p) \/ Unanswered(p)
        PROVE  config' = config /\ StartKept
    <2>1. CASE Try(p) BY <1>1, <2>1 DEF Try, StartKept
    <2>2. CASE AttemptTimer(p) BY <2>2 DEF AttemptTimer, StartKept
    <2>3. CASE Unanswered(p) BY <1>1, <2>3 DEF Unanswered, StartKept
    <2> QED BY <1>6, <2>1, <2>2, <2>3
  <1>7. ASSUME NEW p \in Spawnable, Answered(p)
        PROVE  config' = config /\ (StartKept \/ (startPc = "starting" /\ StartsNext))
    <2>1. CASE p = 1
      BY <1>7, <2>1 DEF Answered, NodeInv, SpawnInv, StartsBitcoind
    <2>2. CASE p # 1
      BY <1>7, <2>2 DEF Answered, StartKept
    <2> QED BY <2>1, <2>2
  <1>8. ASSUME NEW i \in DOMAIN runs, StopService(i) \/ ChildExited(i) \/ ShutdownTimesOut(i)
        PROVE  config' = config /\ StartKept
    <2>1. CASE End BY <2>1, EndFacts DEF StartKept
    <2>2. ASSUME NEW left \in Seq(Services), Stops(i, left) PROVE config' = config /\ StartKept
      BY <2>2 DEF Stops, StartKept
    <2> QED BY <1>8, <2>1, <2>2, StoppingStep
  <1>9. ASSUME NEW p \in Pids, DaemonExits(p) \/ WritesPid(p) \/ RemovesPid(p)
        PROVE  config' = config /\ StartKept
    BY <1>9 DEF DaemonExits, WritesPid, RemovesPid, StartKept
  <1>10. ASSUME Sigint \/ Throw \/ Tick \/ UNCHANGED vars PROVE config' = config /\ StartKept
    BY <1>10 DEF Sigint, Throw, Tick, vars, StartKept
  <1>11. ASSUME ServiceFails \/ ChainFails \/ LaunchFails PROVE config' = config /\ StartKept
    BY <1>1, <1>11 DEF ServiceFails, ChainFails, LaunchFails
  <1> QED BY <1>2, <1>3, <1>4, <1>5, <1>6, <1>7, <1>8, <1>9, <1>10, <1>11
          DEF Next, Starting, Launching, Stopping, Rpc, Daemon, Environment

\* The head and the tail of the end of a sequence.
LEMMA EndOfSeq ==
    ASSUME NEW S, NEW q \in Seq(S), NEW m \in 0..Len(q),
           SubSeq(q, m + 1, Len(q)) # <<>>
    PROVE  /\ m + 1 \in 1..Len(q)
           /\ Head(SubSeq(q, m + 1, Len(q))) = q[m + 1]
           /\ Tail(SubSeq(q, m + 1, Len(q))) = SubSeq(q, (m + 1) + 1, Len(q))
PROOF
  <1> DEFINE left == SubSeq(q, m + 1, Len(q))
             after == SubSeq(q, (m + 1) + 1, Len(q))
  <1>1. left \in Seq(S) /\ Len(left) = Len(q) - m
        /\ \A i \in 1..(Len(q) - m) : left[i] = q[m + i]
    OBVIOUS
  <1>2. Len(left) > 0
    BY <1>1
  <1>3. m + 1 \in 1..Len(q) BY <1>1, <1>2
  <1>4. after \in Seq(S) /\ Len(after) = Len(q) - (m + 1)
        /\ \A i \in 1..(Len(q) - (m + 1)) : after[i] = q[m + 1 + i]
    BY <1>3
  <1> HIDE DEF left, after
  <1>5. Head(left) = q[m + 1] BY <1>1, <1>2, <1>3
  <1>6. Tail(left) \in Seq(S) /\ Len(Tail(left)) = Len(q) - (m + 1)
        /\ \A i \in 1..(Len(q) - (m + 1)) : Tail(left)[i] = left[i + 1]
    BY <1>1, <1>2
  <1>7. \A i \in 1..(Len(q) - (m + 1)) : Tail(left)[i] = after[i]
    <2> SUFFICES ASSUME NEW i \in 1..(Len(q) - (m + 1)) PROVE Tail(left)[i] = after[i]
      OBVIOUS
    <2>1. i + 1 \in 1..(Len(q) - m) /\ m + (i + 1) = m + 1 + i BY <1>3
    <2> QED BY <1>1, <1>4, <1>6, <2>1
  <1>8. Tail(left) = after BY <1>4, <1>6, <1>7
  <1> QED BY <1>3, <1>5, <1>8 DEF left, after

\* The start goes through the order.
LEMMA StartStep == NodeInv /\ [Next]_vars => StartInv'
PROOF
  <1> SUFFICES ASSUME NodeInv, [Next]_vars PROVE StartInv'
    OBVIOUS
  <1>1. StartInv /\ config' = config /\ Order' = Order /\ Order \in Seq(Services)
    BY StartChanges, OrderType DEF NodeInv, TypeOK, StartTypeOK, Order
  <1>2. PICK k \in 0..Len(Order) : /\ toStart = SubSeq(Order, k + 1, Len(Order))
                                   /\ started = {Order[i] : i \in 1..k}
    BY <1>1 DEF StartInv
  <1>3. CASE StartKept
    <2>1. /\ UNCHANGED <<toStart, started, loaded>>
          /\ startPc' = "starting" => startPc = "starting"
          /\ startPc' = "next" => startPc = "next"
      BY <1>3 DEF StartKept
    <2>2. toStart' = SubSeq(Order', k + 1, Len(Order')) /\ started' = {Order'[i] : i \in 1..k}
      BY <1>1, <1>2, <2>1
    <2>3. /\ started' \subseteq loaded'
          /\ loaded' \subseteq started' \union (IF toStart' = <<>> THEN {} ELSE {Head(toStart')})
          /\ startPc' = "starting" => Head(toStart') \in loaded'
          /\ startPc' = "next" => loaded' = started'
      BY <1>1, <2>1 DEF StartInv
    <2> QED BY <1>1, <2>2, <2>3 DEF StartInv
  <1>4. CASE StartNext
    <2>1. /\ UNCHANGED <<toStart, started>> /\ toStart # <<>> /\ startPc' # "next"
          /\ loaded' = loaded \union {Head(toStart)}
      BY <1>4 DEF StartNext
    <2>2. toStart' = SubSeq(Order', k + 1, Len(Order')) /\ started' = {Order'[i] : i \in 1..k}
      BY <1>1, <1>2, <2>1
    <2>3. /\ started' \subseteq loaded' /\ Head(toStart') \in loaded' /\ toStart' # <<>>
          /\ loaded' \subseteq started' \union {Head(toStart')}
      BY <1>1, <2>1 DEF StartInv
    <2> QED BY <1>1, <2>1, <2>2, <2>3 DEF StartInv
  <1>5. CASE startPc = "starting" /\ StartsNext
    <2>1. toStart # <<>> BY <1>5 DEF NodeInv, TypeOK, StartTypeOK
    <2>2. /\ k + 1 \in 1..Len(Order) /\ Head(toStart) = Order[k + 1]
          /\ Tail(toStart) = SubSeq(Order, (k + 1) + 1, Len(Order))
      BY <1>1, <1>2, <2>1, EndOfSeq
    <2>3. /\ toStart' = SubSeq(Order, (k + 1) + 1, Len(Order))
          /\ started' = started \union {Order[k + 1]}
          /\ startPc' = "next" /\ loaded' = loaded
      BY <1>5, <2>2 DEF StartsNext
    <2>4. started' = {Order[i] : i \in 1..(k + 1)}
      BY <1>2, <2>2, <2>3
    <2>5. started' \subseteq loaded' /\ loaded' \subseteq started'
      BY <1>1, <1>5, <2>1, <2>2, <2>3 DEF StartInv
    <2>6. k + 1 \in 0..Len(Order') /\ toStart' = SubSeq(Order', (k + 1) + 1, Len(Order'))
          /\ started' = {Order'[i] : i \in 1..(k + 1)}
      BY <1>1, <2>2, <2>3, <2>4
    <2>7. startPc' # "starting" BY <2>3
    <2>8. \E m \in 0..Len(Order') : /\ toStart' = SubSeq(Order', m + 1, Len(Order'))
                                    /\ started' = {Order'[i] : i \in 1..m}
      BY <2>6
    <2> QED BY <2>5, <2>7, <2>8 DEF StartInv
  <1> QED BY <1>3, <1>4, <1>5, StartChanges

\* The services that are loaded are in the order.
LEMMA LoadedInOrder ==
    ASSUME NodeInv
    PROVE  \A s \in loaded : \E i \in 1..Len(Order) :
              Order[i] = s /\ \A j \in 1..(i - 1) : Order[j] \in started
PROOF
  <1>1. StartInv /\ Order \in Seq(Services)
    BY OrderType DEF NodeInv, TypeOK, StartTypeOK, Order
  <1>2. PICK k \in 0..Len(Order) : /\ toStart = SubSeq(Order, k + 1, Len(Order))
                                   /\ started = {Order[i] : i \in 1..k}
    BY <1>1 DEF StartInv
  <1>3. Len(Order) \in Nat BY <1>1
  <1>4. ASSUME NEW s \in started
        PROVE  \E i \in 1..Len(Order) :
                  Order[i] = s /\ \A j \in 1..(i - 1) : Order[j] \in started
    <2>1. PICK i \in 1..k : s = Order[i] BY <1>2, <1>4
    <2>2. i \in 1..Len(Order) /\ \A j \in 1..(i - 1) : j \in 1..k BY <1>3, <2>1
    <2> QED BY <1>2, <2>1, <2>2
  <1>5. ASSUME toStart # <<>>
        PROVE  \E i \in 1..Len(Order) :
                  Order[i] = Head(toStart) /\ \A j \in 1..(i - 1) : Order[j] \in started
    <2>1. k + 1 \in 1..Len(Order) /\ Head(toStart) = Order[k + 1]
      BY <1>1, <1>2, <1>5, EndOfSeq
    <2>2. \A j \in 1..((k + 1) - 1) : j \in 1..k BY <1>3
    <2> QED BY <1>2, <2>1, <2>2
  <1> QED BY <1>1, <1>4, <1>5 DEF StartInv

\* ... and what they depend on has started.
LEMMA LoadedAfterDependencies == NodeInv => DependenciesStarted
PROOF
  <1> SUFFICES ASSUME NodeInv, NEW s \in loaded, NEW t \in DependsOn(config, s)
               PROVE  t \in started
    BY DEF DependenciesStarted
  <1>1. Sound(config, Order)
    BY OrderSound DEF NodeInv, TypeOK, StartTypeOK, Order
  <1>2. PICK i \in 1..Len(Order) :
           Order[i] = s /\ \A j \in 1..(i - 1) : Order[j] \in started
    BY LoadedInOrder
  <1>3. PICK j \in 1..(i - 1) : Order[j] = t BY <1>1, <1>2 DEF Sound
  <1> QED BY <1>2, <1>3

-----------------------------------------------------------------------------
(* The daemons.                                                            *)

\* The attempt to reach daemon p goes on to x, or it ends there and so may the
\* start of the service.
GoesOn(p, x) ==
    /\ attempt[p] # "none" /\ attempt' = [attempt EXCEPT ![p] = x] /\ x # "none"
    /\ x \in {"try", "asked", "sleep"} =>
           attempt[p] \in {"try", "asked", "sleep"} /\ triesLeft'[p] >= 1
    /\ \A q \in Spawnable : q # p => triesLeft'[q] = triesLeft[q]
    /\ UNCHANGED <<launch, spawned, handle, loaded, alive>>
    /\ \/ UNCHANGED <<startPc, toStart, started>>
       \/ p = 1 /\ x \notin {"try", "asked", "sleep"}

\* That keeps SpawnInv.
LEMMA GoesOnStep ==
    ASSUME NodeInv, NEW p \in Spawnable, NEW x, GoesOn(p, x)
    PROVE  SpawnInv'
PROOF
  <1>1. SpawnInv /\ 1 \in Spawnable
        /\ attempt \in [Spawnable -> {"none", "try", "asked", "sleep", "up", "aborted", "given up"}]
    BY PidFacts DEF NodeInv, TypeOK, DaemonTypeOK
  <1>2. spawned \in Nat /\ p \in Nat /\ p > 0
    BY PidFacts DEF NodeInv, TypeOK, DaemonTypeOK
  <1>3. ~ (p > spawned) BY <1>1 DEF SpawnInv, GoesOn
  <1>4. attempt'[p] = x /\ \A q \in Spawnable : q # p => attempt'[q] = attempt[q]
    BY <1>1 DEF GoesOn
  <1>5. attempt'[1] \in {"try", "asked", "sleep"} => StartsBitcoind'
    <2>1. CASE p = 1 BY <1>1, <1>4, <2>1 DEF SpawnInv, StartsBitcoind, GoesOn
    <2>2. CASE p # 1 BY <1>1, <1>4, <2>2 DEF SpawnInv, StartsBitcoind, GoesOn
    <2> QED BY <2>1, <2>2
  <1>6. spawned' = spawned /\ spawned > 0 BY <1>2, <1>3 DEF GoesOn
  <1>7. \A q \in Spawnable : q > spawned' => attempt'[q] = "none"
    BY <1>1, <1>3, <1>4, <1>6 DEF SpawnInv
  <1>8. \A q \in Spawnable :
           attempt'[q] \in {"none", "try", "asked", "sleep"} => triesLeft'[q] >= 1
    BY <1>1, <1>4 DEF SpawnInv, GoesOn
  <1>9. /\ handle' \in {0, spawned'} /\ alive' \subseteq {0, handle'}
        /\ launch' # "none" => alive' \subseteq {0}
        /\ Bitcoind \in loaded'
    BY <1>1, <1>6 DEF SpawnInv, GoesOn
  <1>10. spawned' = 0 /\ launch' # "none" => StartsBitcoind'
    BY <1>2, <1>6
  <1> QED BY <1>5, <1>7, <1>8, <1>9, <1>10 DEF SpawnInv

\* Without a child, or before the service is loaded, no daemon of the process runs.
LEMMA NothingSpawned ==
    ASSUME NodeInv, handle = 0 \/ spawned = 0 \/ Bitcoind \notin loaded
    PROVE  handle = 0 /\ alive \subseteq {0}
PROOF
  <1>1. spawned \in Nat BY PidFacts DEF NodeInv, TypeOK, DaemonTypeOK
  <1> QED BY <1>1 DEF NodeInv, SpawnInv

\* The service is loaded once.
LEMMA LoadedOnce ==
    ASSUME NodeInv, StartNext
    PROVE  Head(toStart) \notin loaded
PROOF
  <1>1. toStart # <<>> /\ loaded = started BY DEF StartNext, NodeInv, StartInv
  <1>2. Order \in Seq(Services) /\ Sound(config, Order) /\ Len(Order) \in Nat
    BY OrderType, OrderSound DEF NodeInv, TypeOK, StartTypeOK, Order
  <1>3. PICK k \in 0..Len(Order) : /\ toStart = SubSeq(Order, k + 1, Len(Order))
                                   /\ started = {Order[i] : i \in 1..k}
    BY DEF NodeInv, StartInv
  <1>4. k + 1 \in 1..Len(Order) /\ Head(toStart) = Order[k + 1]
    BY <1>1, <1>2, <1>3, EndOfSeq
  <1>5. \A i \in 1..k : Order[i] # Order[k + 1]
    <2> SUFFICES ASSUME NEW i \in 1..k PROVE Order[i] # Order[k + 1]
      OBVIOUS
    <2>1. i \in 1..Len(Order) /\ i # k + 1 BY <1>2, <1>3, <1>4
    <2> QED BY <1>2, <1>4, <2>1 DEF Sound
  <1> QED BY <1>1, <1>3, <1>4, <1>5

\* Every step keeps SpawnInv, one step per action.
LEMMA SpawnStep == NodeInv /\ [Next]_vars => SpawnInv'
PROOF
  <1> SUFFICES ASSUME NodeInv, [Next]_vars PROVE SpawnInv'
    OBVIOUS
  <1> USE DEF environment, node, shutdown, launching, attempts, daemon
  <1>1. SpawnInv /\ DaemonTypeOK /\ StartTypeOK BY DEF NodeInv, TypeOK
  <1>2. CASE StartNext
    <2>1. CASE Head(toStart) = Bitcoind
      <3>1. alive \subseteq {0} BY <1>2, <2>1, LoadedOnce, NothingSpawned
      <3> QED BY <1>1, <1>2, <2>1, <3>1 DEF StartNext, SpawnInv, StartsBitcoind
    <2>2. CASE Head(toStart) # Bitcoind
      BY <1>1, <1>2, <2>2 DEF StartNext, SpawnInv, StartsBitcoind
    <2> QED BY <2>1, <2>2
  <1>3. CASE ServiceStarted
    BY <1>1, <1>3 DEF ServiceStarted, StartsNext, SpawnInv, StartsBitcoind
  <1>4. CASE Ready
    BY <1>1, <1>4 DEF Ready, SpawnInv, StartsBitcoind
  <1>5. CASE StopOther
    BY <1>1, <1>5 DEF StopOther, SpawnInv, StartsBitcoind
  <1>6. CASE Spawn
    <2>1. /\ launch = "check" /\ spawned' = spawned + 1 /\ spawned' \in Spawnable
          /\ alive' \subseteq alive \union {spawned'} /\ handle' = spawned'
          /\ attempt' = [attempt EXCEPT ![spawned'] = "try"]
          /\ launch' = "none"
          /\ UNCHANGED <<toStart, startPc, loaded, started, triesLeft>>
      BY <1>6 DEF Spawn, LookedUp
    <2>0. alive' \subseteq {0, handle'} BY <1>1, <2>1 DEF SpawnInv
    <2>2. spawned \in Nat /\ 1 \in Spawnable /\ \A q \in Spawnable : q \in Nat
      BY <1>1, PidFacts DEF DaemonTypeOK
    <2>3. attempt'[spawned'] = "try" /\ \A q \in Spawnable : q # spawned' => attempt'[q] = attempt[q]
      BY <1>1, <2>1 DEF DaemonTypeOK
    <2>4. attempt[spawned'] = "none" /\ triesLeft[spawned'] >= 1
      BY <1>1, <2>1, <2>2 DEF SpawnInv
    <2>5. attempt'[1] \in {"try", "asked", "sleep"} => StartsBitcoind'
      <3>1. spawned' = 1 => spawned = 0 BY <2>1, <2>2
      <3> QED BY <1>1, <2>1, <2>2, <2>3, <3>1 DEF SpawnInv, StartsBitcoind
    <2>6. \A q \in Spawnable : q > spawned' => attempt'[q] = "none"
      BY <1>1, <2>1, <2>2, <2>3 DEF SpawnInv
    <2>7. \A q \in Spawnable :
             attempt'[q] \in {"none", "try", "asked", "sleep"} => triesLeft'[q] >= 1
      BY <1>1, <2>1, <2>3, <2>4 DEF SpawnInv
    <2> QED BY <1>1, <2>0, <2>1, <2>2, <2>5, <2>6, <2>7 DEF SpawnInv
  <1>7. CASE RestartTimer \/ LookAgain
    BY <1>1, <1>7 DEF RestartTimer, LookAgain, SpawnInv, StartsBitcoind
  <1>8. ASSUME NEW p \in Spawnable, Try(p) PROVE SpawnInv'
    <2> DEFINE x == IF stopping THEN "aborted" ELSE "asked"
    <2>1. /\ attempt[p] = "try" /\ attempt' = [attempt EXCEPT ![p] = x]
          /\ UNCHANGED <<launch, spawned, handle, alive, triesLeft>>
      BY <1>8 DEF Try
    <2>2. /\ loaded' = loaded
          /\ UNCHANGED <<startPc, toStart, started>> \/ (p = 1 /\ x = "aborted")
      BY <1>8 DEF Try, SpawnError, StartError
    <2>3. triesLeft[p] >= 1 BY <1>1, <2>1 DEF SpawnInv
    <2>4. GoesOn(p, x) BY <2>1, <2>2, <2>3 DEF GoesOn
    <2> QED BY <2>4, GoesOnStep
  <1>9. ASSUME NEW p \in Spawnable, AttemptTimer(p) PROVE SpawnInv'
    <2>1. /\ attempt[p] = "sleep" /\ attempt' = [attempt EXCEPT ![p] = "try"]
          /\ UNCHANGED <<launch, spawned, handle, alive, triesLeft, startPc, toStart, started,
                         loaded>>
      BY <1>9 DEF AttemptTimer
    <2>2. triesLeft[p] >= 1 BY <1>1, <2>1 DEF SpawnInv
    <2>3. GoesOn(p, "try") BY <2>1, <2>2 DEF GoesOn
    <2> QED BY <2>3, GoesOnStep
  <1>10. ASSUME NEW p \in Spawnable, Answered(p) PROVE SpawnInv'
    <2>1. /\ attempt[p] = "asked" /\ attempt' = [attempt EXCEPT ![p] = "up"]
          /\ UNCHANGED <<launch, spawned, handle, alive, triesLeft>>
      BY <1>10 DEF Answered
    <2>2. /\ loaded' = loaded
          /\ UNCHANGED <<startPc, toStart, started>> \/ p = 1
      BY <1>10 DEF Answered, StartsNext
    <2>3. GoesOn(p, "up") BY <2>1, <2>2 DEF GoesOn
    <2> QED BY <2>3, GoesOnStep
  <1>11. ASSUME NEW p \in Spawnable, Unanswered(p) PROVE SpawnInv'
    <2> DEFINE x == IF TriesAgain(p) THEN "sleep" ELSE "given up"
    <2>1. /\ attempt[p] = "asked" /\ attempt' = [attempt EXCEPT ![p] = x]
          /\ triesLeft' = [triesLeft EXCEPT ![p] = @ - 1]
          /\ UNCHANGED <<launch, spawned, handle, alive>>
      BY <1>11 DEF Unanswered
    <2>2. /\ loaded' = loaded
          /\ UNCHANGED <<startPc, toStart, started>> \/ (p = 1 /\ x = "given up")
      BY <1>11 DEF Unanswered, SpawnError, StartError
    <2>3. /\ triesLeft[p] \in Nat /\ triesLeft'[p] = triesLeft[p] - 1
          /\ \A q \in Spawnable : q # p => triesLeft'[q] = triesLeft[q]
      <3>1. triesLeft \in [Spawnable -> 0..Tries] BY <1>1 DEF DaemonTypeOK
      <3>2. 0..Tries \subseteq Nat BY PidFacts
      <3> QED BY <2>1, <3>1, <3>2
    <2>4. x = "sleep" => triesLeft'[p] >= 1 BY <2>3 DEF TriesAgain
    <2>5. GoesOn(p, x) BY <2>1, <2>2, <2>3, <2>4 DEF GoesOn
    <2> QED BY <2>5, GoesOnStep
  <1>12. ASSUME NEW i \in DOMAIN runs, StopService(i) \/ ChildExited(i) \/ ShutdownTimesOut(i)
         PROVE  SpawnInv'
    <2>1. CASE End BY <1>1, <2>1, EndFacts DEF SpawnInv, StartsBitcoind
    <2>2. ASSUME NEW left \in Seq(Services), Stops(i, left) PROVE SpawnInv'
      BY <1>1, <2>2 DEF Stops, SpawnInv, StartsBitcoind
    <2> QED BY <1>12, <2>1, <2>2, StoppingStep
  <1>13. ASSUME NEW p \in Pids, DaemonExits(p) PROVE SpawnInv'
    <2>1. /\ p \in alive /\ alive' = alive \ {p}
          /\ launch' # launch => p # 0
          /\ UNCHANGED <<spawned, handle, attempt, triesLeft, toStart, startPc, loaded, started>>
      BY <1>13 DEF DaemonExits
    <2>2. launch' # launch => spawned \in Nat /\ spawned > 0 /\ alive' \subseteq {0}
      <3>1. p \in {0, handle} /\ handle \in {0, spawned} BY <1>1, <2>1 DEF SpawnInv
      <3>2. spawned \in Nat BY <1>1, PidFacts DEF DaemonTypeOK
      <3>3. p # 0 => alive' \subseteq {0} BY <1>1, <2>1, <3>1 DEF SpawnInv
      <3> QED BY <2>1, <3>1, <3>2, <3>3
    <2> QED BY <1>1, <2>1, <2>2 DEF SpawnInv, StartsBitcoind
  <1>14. CASE Sigint \/ Throw \/ Tick \/ UNCHANGED vars
    BY <1>1, <1>14 DEF Sigint, Throw, Tick, vars, SpawnInv, StartsBitcoind
  <1>15. CASE ServiceFails
    BY <1>1, <1>15 DEF ServiceFails, StartError, SpawnInv, StartsBitcoind
  <1>16. CASE ChainFails
    <2>1. /\ attempt[1] = "asked" /\ attempt' = [attempt EXCEPT ![1] = "up"]
          /\ UNCHANGED <<launch, spawned, handle, alive, triesLeft, loaded>>
      BY <1>16 DEF ChainFails, StartError
    <2>2. GoesOn(1, "up") BY <2>1, PidFacts DEF GoesOn
    <2> QED BY <2>2, PidFacts, GoesOnStep
  <1>17. ASSUME NEW p \in Pids, WritesPid(p) \/ RemovesPid(p) PROVE SpawnInv'
    BY <1>1, <1>17 DEF WritesPid, RemovesPid, SpawnInv, StartsBitcoind
  <1>18. CASE LaunchFails
    <2>1. /\ launch' = "none" /\ loaded' = loaded
          /\ UNCHANGED <<spawned, handle, attempt, triesLeft, alive>>
          /\ spawned = 0 \/ UNCHANGED <<startPc, toStart, started>>
      <3>1. spawned \in Nat BY <1>1, PidFacts DEF DaemonTypeOK
      <3> QED BY <1>18, <3>1 DEF LaunchFails, SpawnError, StartError
    <2>2. spawned = 0 => attempt[1] = "none"
      <3>1. 1 \in Spawnable /\ 1 > 0 BY PidFacts
      <3> QED BY <1>1, <3>1 DEF SpawnInv
    <2> QED BY <1>1, <2>1, <2>2 DEF SpawnInv, StartsBitcoind
  <1> QED BY <1>2, <1>3, <1>4, <1>5, <1>6, <1>7, <1>8, <1>9, <1>10, <1>11, <1>12, <1>13, <1>14,
             <1>15, <1>16, <1>17, <1>18
          DEF Next, Starting, Launching, Stopping, Rpc, Daemon, Environment

-----------------------------------------------------------------------------
(* The calls of stop.                                                      *)

\* What a step that stops nothing does to the calls of stop.
RunsKept ==
    /\ UNCHANGED <<stopping, stopped>> /\ DOMAIN runs' = DOMAIN runs
    /\ \A i \in DOMAIN runs :
          /\ runs'[i].left = runs[i].left /\ runs'[i].had = runs[i].had
          /\ runs'[i].pc = runs[i].pc \/ (runs[i].pc = "wait" /\ runs'[i].pc = "exited")

\* A step begins a call of stop, or goes on with one, or leaves them as they are.
LEMMA RunsChanges ==
    ASSUME NodeInv, [Next]_vars
    PROVE  \/ BeginStop /\ process' = process /\ UNCHANGED <<stopped, alive, signalled, spawned>>
           \/ \E i \in DOMAIN runs : \/ StopService(i) \/ ChildExited(i) \/ ShutdownTimesOut(i)
           \/ RunsKept /\ process' = process
PROOF
  <1> USE DEF environment, node, shutdown, launching, attempts, daemon
  <1> DEFINE Begins == BeginStop /\ process' = process
                       /\ UNCHANGED <<stopped, alive, signalled, spawned>>
             Keeps == RunsKept /\ process' = process
  <1>1. runs \in Seq(Run) BY DEF NodeInv, TypeOK, ShutdownTypeOK
  <1>2. UNCHANGED shutdown => RunsKept BY DEF RunsKept
  <1>3. CASE Starting
    BY <1>2, <1>3 DEF Starting, StartNext, ServiceStarted, Ready
  <1>4. CASE StopOther \/ Spawn \/ RestartTimer \/ LookAgain
    BY <1>2, <1>4 DEF StopOther, Spawn, RestartTimer, LookAgain
  <1>5. ASSUME NEW p \in Spawnable, Try(p) \/ AttemptTimer(p) PROVE Begins \/ Keeps
    <2>1. SpawnError(p) => UNCHANGED shutdown \/ (BeginStop /\ stopped' = stopped)
      BY DEF SpawnError, StartError
    <2> QED BY <1>2, <1>5, <2>1 DEF Try, AttemptTimer
  <1>6. ASSUME NEW p \in Spawnable, Answered(p) \/ Unanswered(p) PROVE Begins \/ Keeps
    <2>1. SpawnError(p) => UNCHANGED shutdown \/ (BeginStop /\ stopped' = stopped)
      BY DEF SpawnError, StartError
    <2> QED BY <1>2, <1>6, <2>1 DEF Answered, Unanswered
  <1>7. CASE Stopping
    BY <1>7 DEF Stopping
  <1>8. ASSUME NEW p \in Pids, DaemonExits(p) PROVE Keeps
    <2> DEFINE next(i) == IF p # 0 /\ runs[i].pc = "wait" /\ runs[i].child = p
                          THEN [runs[i] EXCEPT !.pc = "exited", !.in = 0] ELSE runs[i]
    <2>1. runs' = [i \in DOMAIN runs |-> next(i)]
          /\ UNCHANGED <<process, stopping, stopped>>
      BY <1>8 DEF DaemonExits
    <2>2. ASSUME NEW i \in DOMAIN runs
          PROVE  /\ next(i).left = runs[i].left /\ next(i).had = runs[i].had
                 /\ next(i).pc = runs[i].pc \/ (runs[i].pc = "wait" /\ next(i).pc = "exited")
      <3>1. runs[i] \in Run BY <1>1, <2>2
      <3> QED BY <3>1 DEF Run
    <2> HIDE DEF next
    <2> QED BY <2>1, <2>2 DEF RunsKept
  <1>9. CASE Sigint \/ Throw
    BY <1>9 DEF Sigint, Throw
  <1>10. CASE ServiceFails \/ ChainFails
    BY <1>10 DEF ServiceFails, ChainFails, StartError
  <1>11. CASE Tick
    <2> DEFINE next(i) == [runs[i] EXCEPT !.in = Less(@)]
    <2>1. runs' = [i \in DOMAIN runs |-> next(i)]
          /\ UNCHANGED <<process, stopping, stopped>>
      BY <1>11 DEF Tick
    <2>2. ASSUME NEW i \in DOMAIN runs
          PROVE  /\ next(i).left = runs[i].left /\ next(i).had = runs[i].had
                 /\ next(i).pc = runs[i].pc
      <3>1. runs[i] \in Run BY <1>1, <2>2
      <3> QED BY <3>1 DEF Run
    <2> HIDE DEF next
    <2> QED BY <2>1, <2>2 DEF RunsKept
  <1>12. CASE UNCHANGED vars
    BY <1>2, <1>12 DEF vars
  <1>13. ASSUME NEW p \in Pids, WritesPid(p) \/ RemovesPid(p) PROVE Keeps
    BY <1>2, <1>13 DEF WritesPid, RemovesPid
  <1>14. CASE LaunchFails
    <2>1. SpawnError(spawned + 1) => UNCHANGED shutdown \/ (BeginStop /\ stopped' = stopped)
      BY DEF SpawnError, StartError
    <2> QED BY <1>2, <1>14, <2>1 DEF LaunchFails
  <1> QED BY <1>3, <1>4, <1>5, <1>6, <1>7, <1>8, <1>9, <1>10, <1>11, <1>12,
             <1>13, <1>14
          DEF Next, Launching, Rpc, Daemon, Environment

\* Every step keeps RunsInv.
LEMMA RunsStep == NodeInv /\ [Next]_vars => RunsInv'
PROOF
  <1> SUFFICES ASSUME NodeInv, [Next]_vars PROVE RunsInv'
    OBVIOUS
  <1>1. /\ RunsInv /\ config \in Configs /\ runs \in Seq(Run)
        /\ stopping \in BOOLEAN /\ loaded \subseteq Services
    BY DEF NodeInv, TypeOK, StartTypeOK, ShutdownTypeOK
  <1>2. CASE BeginStop /\ UNCHANGED stopped
    <2>1. /\ runs' \in Seq(Run) /\ stopping' = TRUE
          /\ Len(runs') = Len(runs) + 1
          /\ \A i \in 1..Len(runs) : runs'[i] = runs[i]
          /\ runs'[Len(runs) + 1].pc = "begin"
      BY <1>1, <1>2, BeginStopRuns
    <2>2. \A i \in DOMAIN runs' : i \in 1..Len(runs) \/ i = Len(runs) + 1
      BY <1>1, <2>1
    <2> QED BY <1>1, <1>2, <2>1, <2>2 DEF RunsInv
  <1>3. ASSUME NEW i \in DOMAIN runs, StopService(i) \/ ChildExited(i) \/ ShutdownTimesOut(i)
        PROVE  RunsInv'
    <2>1. CASE End BY <2>1, EndFacts DEF RunsInv
    <2>2. ASSUME NEW left \in Seq(Services), Stops(i, left) PROVE RunsInv'
      <3>1. stopping BY <1>1, <1>3 DEF RunsInv
      <3>2. /\ stopping' = stopping /\ stopped \subseteq stopped' /\ DOMAIN runs' = DOMAIN runs
            /\ \A j \in DOMAIN runs : j # i => runs'[j] = runs[j]
        BY <2>2 DEF Stops
      <3>3. \/ runs'[i].pc \in {"next", "begin"}
            \/ runs'[i].left # <<>> /\ Head(runs'[i].left) = Bitcoind /\ Bitcoind \in stopped'
        BY <2>2 DEF Stops
      <3> QED BY <1>1, <3>1, <3>2, <3>3 DEF RunsInv
    <2> QED BY <1>3, <2>1, <2>2, StoppingStep
  <1>4. CASE RunsKept
    BY <1>1, <1>4 DEF RunsInv, RunsKept
  <1> QED BY <1>2, <1>3, <1>4, RunsChanges

\* The inductive invariant.
LEMMA NodeStep == NodeInv /\ [Next]_vars => NodeInv'
BY TypeStep, StartStep, SpawnStep, RunsStep DEF NodeInv

\* It holds in every state of every behaviour.
LEMMA NodeAlways == Spec => []NodeInv
PROOF
  <1> QED BY NodeInit, NodeStep, PTL DEF Spec

\* Every variable keeps its type: a service is only starting while one is left to
\* start, a call of stop stops services, an attempt counts down to zero at most.
THEOREM TypeCorrect == Spec => []TypeOK
PROOF
  <1>1. NodeInv => TypeOK BY DEF NodeInv
  <1> QED BY <1>1, NodeAlways, PTL

\* node.start creates a service only when all that it depends on has called back,
\* for every configuration without a cycle, however its services are named.
THEOREM DependenciesHaveStarted == Spec => []DependenciesStarted
BY LoadedAfterDependencies, NodeAlways, PTL

-----------------------------------------------------------------------------
(* The daemons of the process, one after the other.                        *)

\* The look at the pid file only finds a daemon of an earlier process.
SignalInv == signalled \subseteq {0} \/ stopping

\* Every step keeps SignalInv: a launch finds no daemon of this process.
LEMMA SignalStep == NodeInv /\ SignalInv /\ [Next]_vars => SignalInv'
PROOF
  <1> SUFFICES ASSUME NodeInv, SignalInv, [Next]_vars PROVE SignalInv'
    OBVIOUS
  <1> USE DEF environment, node, shutdown, launching, attempts, daemon
  <1>1. CASE UNCHANGED signalled /\ (stopping => stopping')
    BY <1>1 DEF SignalInv
  <1>2. BeginStop => stopping' = TRUE BY DEF BeginStop
  <1>3. \A p : SpawnError(p) => (stopping => stopping')
    BY <1>2 DEF SpawnError, StartError
  <1>4. CASE Starting
    BY <1>1, <1>4 DEF Starting, StartNext, ServiceStarted, StartsNext, Ready
  <1>5. CASE StopOther
    <2>1. Other \subseteq {0} /\ signalled' = signalled \union Other /\ stopping' = stopping
      BY <1>5 DEF StopOther, Other, NodeInv, SpawnInv
    <2> QED BY <2>1 DEF SignalInv
  <1>6. CASE Spawn \/ RestartTimer \/ LookAgain
    BY <1>1, <1>6 DEF Spawn, RestartTimer, LookAgain
  <1>7. ASSUME NEW p \in Spawnable, Try(p) \/ AttemptTimer(p) PROVE SignalInv'
    BY <1>1, <1>3, <1>7 DEF Try, AttemptTimer
  <1>8. ASSUME NEW p \in Spawnable, Answered(p) \/ Unanswered(p) PROVE SignalInv'
    BY <1>1, <1>3, <1>8 DEF Answered, Unanswered
  <1>9. ASSUME NEW i \in DOMAIN runs, StopService(i) \/ ChildExited(i) \/ ShutdownTimesOut(i)
        PROVE  SignalInv'
    <2>1. stopping BY DEF NodeInv, RunsInv
    <2>2. CASE End BY <2>1, <2>2, EndFacts DEF SignalInv
    <2>3. ASSUME NEW left \in Seq(Services), Stops(i, left) PROVE SignalInv'
      BY <2>1, <2>3 DEF Stops, SignalInv
    <2> QED BY <1>9, <2>2, <2>3, StoppingStep
  <1>10. ASSUME NEW p \in Pids, DaemonExits(p) \/ WritesPid(p) \/ RemovesPid(p)
         PROVE  SignalInv'
    BY <1>1, <1>10 DEF DaemonExits, WritesPid, RemovesPid
  <1>11. CASE Sigint \/ Throw \/ Tick \/ UNCHANGED vars
    BY <1>1, <1>2, <1>11 DEF Sigint, Throw, Tick, vars
  <1>12. CASE ServiceFails \/ ChainFails \/ LaunchFails
    BY <1>1, <1>2, <1>3, <1>12 DEF ServiceFails, ChainFails, LaunchFails, StartError
  <1> QED BY <1>4, <1>5, <1>6, <1>7, <1>8, <1>9, <1>10, <1>11, <1>12
          DEF Next, Launching, Stopping, Rpc, Daemon, Environment

\* Any two daemons of the process are the child.
LEMMA OneChild == NodeInv => Cardinality(alive \ {0}) <= 1
PROOF
  <1> SUFFICES ASSUME NodeInv PROVE Cardinality(alive \ {0}) <= 1
    OBVIOUS
  <1>1. alive \ {0} = {} \/ alive \ {0} = {handle} BY DEF NodeInv, SpawnInv
  <1>2. Cardinality({}) = 0 /\ Cardinality({handle}) = 1 BY FS_EmptySet, FS_Singleton
  <1> QED BY <1>1, <1>2

\* The spawn, the exit handler, the restart timer and the look at the pid file never
\* make a second daemon beside the child, and never tell the child to stop, whatever
\* the pid file says, for every number of exits and faults and every length of the
\* timers.
THEOREM DaemonsTakeTurns == Spec => []OneOwnDaemon
PROOF
  <1>1. Init => SignalInv BY DEF Init, SignalInv
  <1>2. NodeInv /\ SignalInv => OneOwnDaemon BY OneChild DEF SignalInv, OneOwnDaemon
  <1>3. Spec => [](NodeInv /\ SignalInv)
    BY <1>1, NodeInit, NodeStep, SignalStep, PTL DEF Spec
  <1> QED BY <1>2, <1>3, PTL

-----------------------------------------------------------------------------
(* No daemon that answered is left behind.                                 *)

\* A daemon of this process that has not been told to stop has not answered, and
\* is no longer asked.
Told == \A p \in alive \ signalled : p # 0 => attempt[p] \in {"try", "aborted"}

\* That holds once a call of stop has been at the service.
ToldInv ==
    /\ process = "gone" => Told
    /\ \A i \in DOMAIN runs :
          runs[i].pc \in {"wait", "exited"} \/ Bitcoind \notin Elements(runs[i].left) => Told

\* It goes on to hold: when the node stops, an attempt only ends.
LEMMA ToldKept ==
    ASSUME NodeInv, [Next]_vars, Told, stopping \/ process = "gone"
    PROVE  Told'
PROOF
  <1> USE DEF environment, node, shutdown, launching, attempts, daemon
  <1>1. attempt \in [Spawnable -> {"none", "try", "asked", "sleep", "up", "aborted", "given up"}]
        /\ alive \subseteq Pids /\ \A q \in Pids : q # 0 => q \in Spawnable
    BY PidFacts DEF NodeInv, TypeOK, DaemonTypeOK
  <1>2. CASE alive' \subseteq alive /\ signalled \subseteq signalled' /\ attempt' = attempt
    BY <1>2 DEF Told
  <1>3. ASSUME NEW p \in Spawnable, NEW x, attempt[p] \in {"asked", "sleep"} \/ x = "aborted",
               attempt' = [attempt EXCEPT ![p] = x], UNCHANGED <<alive, signalled>>
        PROVE  Told'
    <2> SUFFICES ASSUME NEW q \in alive \ signalled, q # 0
                 PROVE  attempt'[q] \in {"try", "aborted"}
      BY <1>3 DEF Told
    <2>1. q \in Spawnable /\ attempt[q] \in {"try", "aborted"} BY <1>1 DEF Told
    <2> QED BY <1>1, <1>3, <2>1
  <1>4. CASE Starting
    BY <1>2, <1>4 DEF Starting, StartNext, ServiceStarted, StartsNext, Ready
  <1>5. CASE StopOther \/ RestartTimer \/ LookAgain \/ LaunchFails
    BY <1>2, <1>5 DEF StopOther, RestartTimer, LookAgain, LaunchFails
  <1>6. CASE Spawn
    <2>1. /\ alive' \subseteq {0, spawned'} /\ spawned' \in Spawnable
          /\ attempt' = [attempt EXCEPT ![spawned'] = "try"]
      BY <1>6 DEF Spawn, NodeInv, SpawnInv
    <2>2. attempt'[spawned'] = "try" BY <1>1, <2>1
    <2> QED BY <2>1, <2>2 DEF Told
  <1>7. ASSUME NEW p \in Spawnable, Try(p) PROVE Told'
    <2>1. attempt' = [attempt EXCEPT ![p] = "aborted"] /\ UNCHANGED <<alive, signalled>>
      BY <1>7 DEF Try
    <2> QED BY <1>3, <2>1
  <1>8. ASSUME NEW p \in Spawnable, AttemptTimer(p) PROVE Told'
    <2>1. /\ attempt[p] = "sleep" /\ attempt' = [attempt EXCEPT ![p] = "try"]
          /\ UNCHANGED <<alive, signalled>>
      BY <1>8 DEF AttemptTimer
    <2> QED BY <1>3, <2>1
  <1>9. ASSUME NEW p \in Spawnable, Answered(p) PROVE Told'
    <2>1. /\ attempt[p] = "asked" /\ attempt' = [attempt EXCEPT ![p] = "up"]
          /\ UNCHANGED <<alive, signalled>>
      BY <1>9 DEF Answered
    <2> QED BY <1>3, <2>1
  <1>10. ASSUME NEW p \in Spawnable, Unanswered(p) PROVE Told'
    <2> DEFINE x == IF TriesAgain(p) THEN "sleep" ELSE "given up"
    <2>1. /\ attempt[p] = "asked" /\ attempt' = [attempt EXCEPT ![p] = x]
          /\ UNCHANGED <<alive, signalled>>
      BY <1>10 DEF Unanswered
    <2> QED BY <1>3, <2>1
  <1>11. CASE Stopping
    <2>1. PICK i \in DOMAIN runs : StopService(i) \/ ChildExited(i) \/ ShutdownTimesOut(i)
      BY <1>11 DEF Stopping
    <2>2. CASE End BY <1>2, <2>2, EndFacts
    <2>3. ASSUME NEW left \in Seq(Services), Stops(i, left) PROVE Told'
      BY <1>2, <2>3 DEF Stops
    <2> QED BY <2>1, <2>2, <2>3, StoppingStep
  <1>12. ASSUME NEW p \in Pids, DaemonExits(p) \/ WritesPid(p) \/ RemovesPid(p) PROVE Told'
    BY <1>2, <1>12 DEF DaemonExits, WritesPid, RemovesPid
  <1>13. CASE Sigint \/ Throw \/ ServiceFails \/ Tick \/ UNCHANGED vars
    BY <1>2, <1>13 DEF Sigint, Throw, ServiceFails, Tick, vars
  <1>14. CASE ChainFails
    <2>1. /\ attempt[1] = "asked" /\ attempt' = [attempt EXCEPT ![1] = "up"]
          /\ UNCHANGED <<alive, signalled>>
      BY <1>14 DEF ChainFails
    <2> QED BY <1>3, <2>1, PidFacts
  <1> QED BY <1>4, <1>5, <1>6, <1>7, <1>8, <1>9, <1>10, <1>11, <1>12, <1>13, <1>14
          DEF Next, Launching, Rpc, Daemon, Environment

\* A call of stop that has gone past the service, or ends, has told the daemon.
LEMMA StoppingTold ==
    ASSUME NodeInv, ToldInv, NEW i \in DOMAIN runs,
           StopService(i) \/ ChildExited(i) \/ ShutdownTimesOut(i), Told => Told'
    PROVE  ToldInv'
PROOF
  <1>1. runs \in Seq(Run) /\ runs[i].left \in Seq(Services)
    <2>1. runs \in Seq(Run) BY DEF NodeInv, TypeOK, ShutdownTypeOK
    <2>2. runs[i] \in Run BY <2>1
    <2> QED BY <2>1, <2>2 DEF Run
  <1>2. ASSUME End, runs[i].pc \in {"wait", "exited"} \/ runs[i].left = <<>>
        PROVE  ToldInv'
    <2>1. CASE runs[i].pc \in {"wait", "exited"} BY <1>2, <2>1, EndFacts DEF ToldInv
    <2>2. CASE runs[i].left = <<>>
      <3>1. Bitcoind \notin Elements(runs[i].left) BY <2>2 DEF Elements
      <3> QED BY <1>2, <3>1, EndFacts DEF ToldInv
    <2> QED BY <1>2, <2>1, <2>2
  <1>3. ASSUME NEW left \in Seq(Services), Stops(i, left),
               \/ runs[i].pc \notin {"wait", "exited"} /\ left = runs[i].left
               \/ runs[i].pc = "exited" /\ left = Tail(runs[i].left)
        PROVE  ToldInv'
    <2>1. /\ left # <<>> /\ DOMAIN runs' = DOMAIN runs /\ process' = process
          /\ \A j \in DOMAIN runs : j # i => runs'[j] = runs[j]
          /\ \/ signalled' = signalled \union Child
             \/ /\ Head(left) # Bitcoind \/ Bitcoind \notin loaded \/ handle = 0
                /\ runs'[i].pc \in {"next", "begin"} /\ runs'[i].left = Tail(left)
          /\ UNCHANGED <<alive, attempt>>
      BY <1>3 DEF Stops, launching, attempts
    <2>2. runs'[i].pc \in {"wait", "exited"} \/ Bitcoind \notin Elements(runs'[i].left) => Told'
      <3>1. CASE signalled' = signalled \union Child
        <4>1. alive' \ signalled' \subseteq {0}
          BY <2>1, <3>1 DEF Child, NodeInv, SpawnInv
        <4> QED BY <4>1 DEF Told
      <3>2. CASE runs[i].pc = "exited"
        BY <3>2 DEF ToldInv
      <3>3. CASE /\ runs[i].pc # "exited"
                 /\ Head(left) # Bitcoind \/ Bitcoind \notin loaded \/ handle = 0
                 /\ runs'[i].pc \in {"next", "begin"} /\ runs'[i].left = Tail(left)
        <4>1. left = runs[i].left BY <1>3, <3>3
        <4>2. SUFFICES ASSUME Bitcoind \notin Elements(Tail(left)) PROVE Told
          BY <3>3
        <4>3. CASE Bitcoind \notin loaded \/ handle = 0
          BY <4>3, NothingSpawned DEF Told
        <4>4. CASE Head(left) # Bitcoind
          <5>1. Elements(left) \subseteq {Head(left)} \union Elements(Tail(left))
            <6> SUFFICES ASSUME NEW j \in 1..Len(left), j # 1
                         PROVE  left[j] \in Elements(Tail(left))
              BY <2>1 DEF Elements
            <6>1. j - 1 \in 1..Len(Tail(left)) /\ Tail(left)[j - 1] = left[j] BY <2>1
            <6> QED BY <6>1 DEF Elements
          <5> QED BY <4>1, <4>2, <4>4, <5>1 DEF ToldInv
        <4> QED BY <3>3, <4>3, <4>4
      <3> QED BY <2>1, <3>1, <3>2, <3>3
    <2> QED BY <2>1, <2>2 DEF ToldInv
  <1> QED BY <1>2, <1>3, StoppingStep

\* Every step keeps ToldInv.
LEMMA ToldStep == NodeInv /\ ToldInv /\ [Next]_vars => ToldInv'
PROOF
  <1> SUFFICES ASSUME NodeInv, ToldInv, [Next]_vars PROVE ToldInv'
    OBVIOUS
  <1>1. /\ config \in Configs /\ runs \in Seq(Run) /\ RunsInv /\ loaded \subseteq Services
    BY DEF NodeInv, TypeOK, StartTypeOK, ShutdownTypeOK
  <1>2. runs # <<>> \/ process = "gone" => (Told => Told')
    BY <1>1, ToldKept DEF RunsInv
  <1>3. CASE BeginStop /\ process' = process /\ UNCHANGED <<stopped, alive, signalled, spawned>>
    <2>1. /\ runs' \in Seq(Run) /\ Len(runs') = Len(runs) + 1
          /\ \A i \in 1..Len(runs) : runs'[i] = runs[i]
          /\ runs'[Len(runs) + 1].pc = "begin"
          /\ runs'[Len(runs) + 1].left = StopOrder(config)
      BY <1>1, <1>3, BeginStopRuns
    <2>2. \A i \in DOMAIN runs' : (i \in DOMAIN runs /\ runs # <<>>) \/ i = Len(runs) + 1
      BY <1>1, <2>1
    <2>3. ASSUME Bitcoind \notin Elements(StopOrder(config)) PROVE Told'
      <3>1. Bitcoind \notin loaded
        <4> SUFFICES ASSUME Bitcoind \in loaded PROVE FALSE
          OBVIOUS
        <4>1. PICK i \in 1..Len(Order) : Order[i] = Bitcoind BY LoadedInOrder
        <4>2. /\ Len(StopOrder(config)) = Len(Order) /\ Order \in Seq(Services)
              /\ \A j \in 1..Len(Order) : StopOrder(config)[j] = Order[Len(Order) + 1 - j]
          BY <1>1, OrderType DEF Order
        <4>3. Len(Order) + 1 - i \in 1..Len(Order) /\ Len(Order) + 1 - (Len(Order) + 1 - i) = i
          BY <4>2
        <4>4. StopOrder(config)[Len(Order) + 1 - i] = Bitcoind BY <4>1, <4>2, <4>3
        <4> QED BY <2>3, <4>2, <4>3, <4>4 DEF Elements
      <3>2. alive \subseteq {0} BY <3>1, NothingSpawned
      <3>3. alive' \subseteq {0} BY <1>3, <3>2
      <3> QED BY <3>3 DEF Told
    <2> QED BY <1>2, <1>3, <2>1, <2>2, <2>3 DEF ToldInv
  <1>4. CASE \E i \in DOMAIN runs : StopService(i) \/ ChildExited(i) \/ ShutdownTimesOut(i)
    <2>1. runs # <<>> BY <1>1, <1>4
    <2> QED BY <1>2, <1>4, <2>1, StoppingTold
  <1>5. CASE RunsKept /\ process' = process
    <2>1. runs' # <<>> => runs # <<>> BY <1>5 DEF RunsKept
    <2> SUFFICES ASSUME process' = "gone" \/ \E i \in DOMAIN runs' :
                                              \/ runs'[i].pc \in {"wait", "exited"}
                                              \/ Bitcoind \notin Elements(runs'[i].left)
                 PROVE  Told'
      BY DEF ToldInv
    <2>2. CASE process' = "gone" BY <1>2, <1>5, <2>2 DEF ToldInv
    <2>3. CASE \E i \in DOMAIN runs' : \/ runs'[i].pc \in {"wait", "exited"}
                                      \/ Bitcoind \notin Elements(runs'[i].left)
      <3>1. PICK i \in DOMAIN runs : \/ runs[i].pc \in {"wait", "exited"}
                                     \/ Bitcoind \notin Elements(runs[i].left)
        BY <1>5, <2>3 DEF RunsKept
      <3>2. runs # <<>> BY <1>1, <3>1
      <3> QED BY <1>2, <3>1, <3>2 DEF ToldInv
    <2> QED BY <2>2, <2>3
  <1> QED BY <1>3, <1>4, <1>5, RunsChanges

\* No daemon this process had an answer from outlives it without having been told to
\* stop, whichever of the overlapping calls of stop ends the process.
THEOREM AnsweringDaemonsAreTold == Spec => []AnsweringDaemonToldToStop
PROOF
  <1>1. Init => ToldInv BY DEF Init, ToldInv
  <1>2. ToldInv => AnsweringDaemonToldToStop BY DEF ToldInv, Told, AnsweringDaemonToldToStop
  <1> QED BY <1>1, <1>2, NodeAlways, ToldStep, PTL DEF Spec

-----------------------------------------------------------------------------
(* The order of a stop.                                                    *)

\* The first m services of the order of stopping are stopped, if they are in `had`.
Past(m, had) == \A j \in 1..m : StopOrder(config)[j] \in had => StopOrder(config)[j] \in stopped

\* A call has stopped the services before the place where it is that were loaded
\* when it began.
StopInv ==
    \A i \in DOMAIN runs :
        /\ runs[i].had \subseteq loaded
        /\ \E m \in 0..Len(Order) :
              /\ runs[i].left = SubSeq(StopOrder(config), m + 1, Len(Order))
              /\ Past(m, runs[i].had)

\* The service a step of a call stops is the next of the order, and what is left
\* are those after it.
LEMMA StopsInOrder ==
    ASSUME NodeInv, StopInv, NEW i \in DOMAIN runs,
           NEW left \in Seq(Services), Stops(i, left),
           \/ left = runs[i].left
           \/ runs[i].pc = "exited" /\ left = Tail(runs[i].left)
    PROVE  \E m \in 0..Len(Order) :
              /\ m + 1 \in 1..Len(Order) /\ Past(m, runs[i].had)
              /\ stopped' = stopped \union (loaded \intersect {StopOrder(config)[m + 1]})
              /\ \/ runs'[i].left = SubSeq(StopOrder(config), m + 1, Len(Order))
                 \/ runs'[i].left = SubSeq(StopOrder(config), (m + 1) + 1, Len(Order))
PROOF
  <1> DEFINE order == StopOrder(config)
  <1>1. order \in Seq(Services) /\ Len(order) = Len(Order) /\ Len(Order) \in Nat
    BY OrderType DEF NodeInv, TypeOK, StartTypeOK, Order
  <1>2. PICK k \in 0..Len(Order) : /\ runs[i].left = SubSeq(order, k + 1, Len(Order))
                                   /\ Past(k, runs[i].had)
    BY DEF StopInv
  <1> HIDE DEF order
  <1>3. PICK m \in 0..Len(Order) : /\ left = SubSeq(order, m + 1, Len(Order))
                                   /\ Past(m, runs[i].had)
    <2>1. CASE left = runs[i].left BY <1>2, <2>1
    <2>2. CASE runs[i].pc = "exited" /\ left = Tail(runs[i].left)
      <3>1. runs[i].left # <<>> /\ Head(runs[i].left) = Bitcoind /\ Bitcoind \in stopped
        BY <2>2 DEF NodeInv, RunsInv
      <3>2. /\ k + 1 \in 1..Len(Order) /\ order[k + 1] = Bitcoind
            /\ left = SubSeq(order, (k + 1) + 1, Len(Order))
        BY <1>1, <1>2, <2>2, <3>1, EndOfSeq
      <3>3. Past(k + 1, runs[i].had)
        <4>1. \A j \in 1..(k + 1) : j \in 1..k \/ j = k + 1 OBVIOUS
        <4> QED BY <1>2, <3>1, <3>2, <4>1 DEF Past, order
      <3> QED BY <3>2, <3>3
    <2> QED BY <2>1, <2>2
  <1>4. /\ left # <<>>
        /\ stopped' = stopped \union (loaded \intersect {Head(left)})
        /\ runs'[i].left = left \/ runs'[i].left = Tail(left)
    BY DEF Stops
  <1>5. /\ m + 1 \in 1..Len(Order) /\ Head(left) = order[m + 1]
        /\ Tail(left) = SubSeq(order, (m + 1) + 1, Len(Order))
    BY <1>1, <1>3, <1>4, EndOfSeq
  <1> QED BY <1>3, <1>4, <1>5 DEF order

\* Every step keeps StopInv.
LEMMA StopStep == NodeInv /\ StopInv /\ [Next]_vars => StopInv'
PROOF
  <1> SUFFICES ASSUME NodeInv, StopInv, [Next]_vars PROVE StopInv'
    OBVIOUS
  <1>1. /\ config \in Configs /\ runs \in Seq(Run) /\ Order \in Seq(Services)
        /\ loaded \subseteq Services /\ Len(Order) \in Nat /\ StopOrder(config) \in Seq(Services)
        /\ Len(StopOrder(config)) = Len(Order)
    BY OrderType DEF NodeInv, TypeOK, StartTypeOK, ShutdownTypeOK, Order
  <1>2. config' = config /\ Order' = Order BY StartChanges DEF Order
  <1>3. loaded \subseteq loaded'
    BY StartChanges DEF StartKept, StartNext, StartsNext
  <1>4. ASSUME stopped \subseteq stopped', NEW m, NEW had, Past(m, had) PROVE Past(m, had)'
    BY <1>2, <1>4 DEF Past
  <1>5. CASE BeginStop /\ UNCHANGED stopped
    <2>1. /\ runs' \in Seq(Run) /\ Len(runs') = Len(runs) + 1
          /\ \A i \in 1..Len(runs) : runs'[i] = runs[i]
          /\ runs'[Len(runs) + 1].left = StopOrder(config)
          /\ runs'[Len(runs) + 1].had = loaded
      BY <1>1, <1>5, BeginStopRuns
    <2>2. StopOrder(config) = SubSeq(StopOrder(config), 0 + 1, Len(Order)) BY <1>1
    <2>3. \A had : Past(0, had)' BY DEF Past
    <2> SUFFICES ASSUME NEW i \in DOMAIN runs'
                 PROVE  /\ runs'[i].had \subseteq loaded'
                        /\ \E m \in 0..Len(Order) :
                              /\ runs'[i].left = SubSeq(StopOrder(config), m + 1, Len(Order))
                              /\ Past(m, runs[i].had)'
      BY <1>2 DEF StopInv
    <2>4. CASE i \in DOMAIN runs
      <3>1. runs'[i] = runs[i] BY <1>1, <2>1, <2>4
      <3>2. PICK m \in 0..Len(Order) :
               /\ runs[i].left = SubSeq(StopOrder(config), m + 1, Len(Order))
               /\ Past(m, runs[i].had)
        BY <2>4 DEF StopInv
      <3>3. Past(m, runs[i].had)' BY <1>2, <1>5, <3>1, <3>2 DEF Past
      <3> QED BY <1>3, <2>4, <3>1, <3>2, <3>3 DEF StopInv
    <2>5. CASE i = Len(runs) + 1
      <3>1. 0 \in 0..Len(Order) BY <1>1
      <3> QED BY <1>3, <2>1, <2>2, <2>3, <2>5, <3>1
    <2> QED BY <1>1, <2>1, <2>4, <2>5
  <1>6. ASSUME NEW i \in DOMAIN runs, StopService(i) \/ ChildExited(i) \/ ShutdownTimesOut(i)
        PROVE  StopInv'
    <2>1. CASE End BY <2>1, EndFacts DEF StopInv
    <2>2. ASSUME NEW left \in Seq(Services), Stops(i, left),
                 \/ left = runs[i].left
                 \/ runs[i].pc = "exited" /\ left = Tail(runs[i].left)
          PROVE  StopInv'
      <3>1. /\ DOMAIN runs' = DOMAIN runs /\ runs'[i].had = runs[i].had
            /\ \A j \in DOMAIN runs : j # i => runs'[j] = runs[j]
            /\ stopped \subseteq stopped'
        BY <2>2 DEF Stops
      <3>2. \E k \in 0..Len(Order) :
               /\ runs'[i].left = SubSeq(StopOrder(config), k + 1, Len(Order))
               /\ Past(k, runs[i].had)'
        <4>1. PICK m \in 0..Len(Order) :
                 /\ m + 1 \in 1..Len(Order) /\ Past(m, runs[i].had)
                 /\ stopped' = stopped \union (loaded \intersect {StopOrder(config)[m + 1]})
                 /\ \/ runs'[i].left = SubSeq(StopOrder(config), m + 1, Len(Order))
                    \/ runs'[i].left = SubSeq(StopOrder(config), (m + 1) + 1, Len(Order))
          BY <2>2, StopsInOrder
        <4>2. Past(m, runs[i].had)' BY <1>2, <3>1, <4>1 DEF Past
        <4>3. Past(m + 1, runs[i].had)'
          <5>1. \A j \in 1..(m + 1) : j \in 1..m \/ j = m + 1 OBVIOUS
          <5>2. runs[i].had \subseteq loaded BY DEF StopInv
          <5> QED BY <1>2, <3>1, <4>1, <5>1, <5>2 DEF Past
        <4>4. m \in 0..Len(Order) /\ m + 1 \in 0..Len(Order) BY <1>1, <4>1
        <4>5. CASE runs'[i].left = SubSeq(StopOrder(config), m + 1, Len(Order))
          BY <4>2, <4>4, <4>5
        <4>6. CASE runs'[i].left = SubSeq(StopOrder(config), (m + 1) + 1, Len(Order))
          BY <4>3, <4>4, <4>6
        <4> QED BY <4>1, <4>5, <4>6
      <3> SUFFICES ASSUME NEW j \in DOMAIN runs
                   PROVE  /\ runs'[j].had \subseteq loaded'
                          /\ \E k \in 0..Len(Order) :
                                /\ runs'[j].left = SubSeq(StopOrder(config), k + 1, Len(Order))
                                /\ Past(k, runs[j].had)'
        BY <1>2, <3>1 DEF StopInv
      <3>3. CASE j = i BY <1>3, <3>1, <3>2, <3>3 DEF StopInv
      <3>4. CASE j # i
        <4>1. PICK k \in 0..Len(Order) :
                 /\ runs[j].left = SubSeq(StopOrder(config), k + 1, Len(Order))
                 /\ Past(k, runs[j].had)
          BY DEF StopInv
        <4>2. Past(k, runs[j].had)' BY <1>2, <3>1, <3>4, <4>1 DEF Past
        <4> QED BY <1>3, <3>1, <3>4, <4>1, <4>2 DEF StopInv
      <3> QED BY <3>3, <3>4
    <2> QED BY <1>6, <2>1, <2>2, StoppingStep
  <1>7. CASE RunsKept
    <2> SUFFICES ASSUME NEW i \in DOMAIN runs
                 PROVE  /\ runs'[i].had \subseteq loaded'
                        /\ \E m \in 0..Len(Order) :
                              /\ runs'[i].left = SubSeq(StopOrder(config), m + 1, Len(Order))
                              /\ Past(m, runs[i].had)'
      BY <1>2, <1>7 DEF StopInv, RunsKept
    <2>1. PICK m \in 0..Len(Order) :
             /\ runs[i].left = SubSeq(StopOrder(config), m + 1, Len(Order))
             /\ Past(m, runs[i].had)
      BY DEF StopInv
    <2>2. Past(m, runs[i].had)' BY <1>2, <1>7, <2>1 DEF Past, RunsKept
    <2> QED BY <1>3, <1>7, <2>1, <2>2 DEF StopInv, RunsKept
  <1> QED BY <1>5, <1>6, <1>7, RunsChanges

\* A step that stops a service finds stopped those that use it and were loaded when
\* the calls under way began.
LEMMA StopsAfterDependents ==
    NodeInv /\ StopInv /\ [Next]_vars =>
        \A s \in stopped' \ stopped : \A t \in started :
            s \in DependsOn(config, t) /\ (\A i \in DOMAIN runs : t \in runs[i].had)
                => t \in stopped
PROOF
  <1> SUFFICES ASSUME NodeInv, StopInv, [Next]_vars,
                      NEW s \in stopped' \ stopped, NEW t \in started,
                      s \in DependsOn(config, t), \A i \in DOMAIN runs : t \in runs[i].had
               PROVE  t \in stopped
    OBVIOUS
  <1>1. PICK i \in DOMAIN runs : StopService(i) \/ ChildExited(i) \/ ShutdownTimesOut(i)
    BY RunsChanges DEF RunsKept
  <1>2. PICK left \in Seq(Services) :
           /\ Stops(i, left)
           /\ \/ left = runs[i].left
              \/ runs[i].pc = "exited" /\ left = Tail(runs[i].left)
    BY <1>1, StoppingStep, EndFacts
  <1>3. PICK m \in 0..Len(Order) :
           /\ m + 1 \in 1..Len(Order) /\ Past(m, runs[i].had)
           /\ stopped' = stopped \union (loaded \intersect {StopOrder(config)[m + 1]})
    BY <1>2, StopsInOrder
  <1>4. s = StopOrder(config)[m + 1] BY <1>3
  <1>5. /\ Order \in Seq(Services) /\ Sound(config, Order) /\ Len(Order) \in Nat
        /\ \A j \in 1..Len(Order) : StopOrder(config)[j] = Order[Len(Order) + 1 - j]
    BY OrderType, OrderSound DEF NodeInv, TypeOK, StartTypeOK, Order
  <1>6. t \in loaded BY DEF NodeInv, StartInv
  <1>7. PICK a \in 1..Len(Order) : Order[a] = t BY <1>6, LoadedInOrder
  <1>8. PICK b \in 1..(a - 1) : Order[b] = s BY <1>5, <1>7 DEF Sound
  <1>9. b = Len(Order) + 1 - (m + 1)
    <2>1. /\ Len(Order) + 1 - (m + 1) \in 1..Len(Order) /\ b \in 1..Len(Order)
      BY <1>3, <1>5, <1>7, <1>8
    <2>2. Order[Len(Order) + 1 - (m + 1)] = Order[b] BY <1>3, <1>4, <1>5, <1>8, <2>1
    <2> QED BY <1>5, <2>1, <2>2 DEF Sound
  <1> DEFINE j == Len(Order) + 1 - a
  <1>10. j \in 1..Len(Order) /\ j \in 1..m /\ Len(Order) + 1 - j = a
    BY <1>3, <1>5, <1>7, <1>8, <1>9
  <1>11. StopOrder(config)[j] = t BY <1>5, <1>7, <1>10
  <1> QED BY <1>3, <1>10, <1>11 DEF Past

\* A stop reaches a service only after those that use it, whatever calls of stop are
\* under way and whenever they began, unless a service was created after that.
THEOREM DependentsAreStoppedFirst == Spec => DependentsStopFirst
PROOF
  <1>1. Init => StopInv BY DEF Init, StopInv
  <1>2. Spec => [](NodeInv /\ StopInv)
    BY <1>1, NodeInit, NodeStep, StopStep, PTL DEF Spec
  <1>3. NodeInv /\ StopInv /\ [Next]_vars =>
           [\A s \in stopped' \ stopped : \A t \in started :
               s \in DependsOn(config, t) /\ (\A i \in DOMAIN runs : t \in runs[i].had)
                   => t \in stopped]_vars
    BY StopsAfterDependents
  <1> QED BY <1>2, <1>3, PTL DEF Spec, DependentsStopFirst

=============================================================================
