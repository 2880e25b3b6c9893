-------------------------- MODULE Allocator_proofs --------------------------
(***************************************************************************)
(* The heap of smolos: the blocks tile it, the free list is linked both    *)
(* ways, and memory that was handed out is disjoint.                       *)
(*                                                                         *)
(* Link walks the list and is awkward to reason about while the list       *)
(* changes.  The invariant names the list instead: a function f on         *)
(* 0 .. n - 1 whose values are its blocks.  That Link is this function     *)
(* (LinkIsChain) is all that has to be shown by induction.                 *)
(***************************************************************************)
EXTENDS Allocator, FiniteSetTheorems, TLAPS

(* The free list has n blocks, and f[i] is the i-th of them.               *)
Chained(n, f, i) == IF i \in 0 .. n - 1 THEN f[i] ELSE 0

IsChain(n, f) ==
  /\ f \in [0 .. n - 1 -> Address]
  /\ \A i, j \in 0 .. n - 1 : f[i] = f[j] => i = j
  /\ free_list_head = Chained(n, f, 0)
  /\ \A i \in 0 .. n - 1 : /\ next[f[i]] = Chained(n, f, i + 1)
                           /\ prev[f[i]] = Chained(n, f, i - 1)

Listed(n, f) == {f[i] : i \in 0 .. n - 1}

TypeInv ==
  /\ size \in [Address -> Nat]
  /\ prev \in [Address -> Address \cup {0}]
  /\ next \in [Address -> Address \cup {0}]
  /\ free_list_head \in Address \cup {0}
  /\ given \subseteq Address \X Request

(* A block that was handed out holds its header and what was asked for,    *)
(* and was handed out once.                                                *)
GivenInv ==
  /\ \A g \in given : /\ HeaderOf(g[1]) \in Address
                      /\ size[HeaderOf(g[1])] >= g[2] + Header
  /\ \A g, h \in given : g[1] = h[1] => g = h

(* The blocks of F and those handed out are all there is.                  *)
Tiling(F) ==
  /\ F \cap LiveBlocks = {}
  /\ \A b \in F \cup LiveBlocks : /\ b \in Address
                                  /\ Extent(b) \subseteq Address
                                  /\ size[b] >= Header
  /\ \A a \in Address : \E b \in F \cup LiveBlocks : a \in Extent(b)
  /\ \A b, c \in F \cup LiveBlocks : b # c => Extent(b) \cap Extent(c) = {}

HeapIs(n, f) == IsChain(n, f) /\ Tiling(Listed(n, f))

IInv ==
  /\ TypeInv
  /\ GivenInv
  /\ \E n \in Nat : \E f : HeapIs(n, f)

-----------------------------------------------------------------------------
LEMMA AddressType ==
  /\ Address \subseteq Nat \ {0}
  /\ IsFiniteSet(Address)
  /\ Cardinality(Address) \in Nat
  /\ LowStart \in Address /\ HighStart \in Address
<1> USE AllocatorAssumption DEF Address, Low, High
<1>1. Address \subseteq Nat \ {0}
  OBVIOUS
<1>2. IsFiniteSet(Low) /\ IsFiniteSet(High)
  <2>1. /\ LowStart \in Int /\ LowStart + LowSize - 1 \in Int
        /\ HighStart \in Int /\ HighStart + HighSize - 1 \in Int
    OBVIOUS
  <2>2. /\ IsFiniteSet(LowStart .. LowStart + LowSize - 1)
        /\ IsFiniteSet(HighStart .. HighStart + HighSize - 1)
    BY <2>1, FS_Interval
  <2> QED
    BY <2>2
<1>3. IsFiniteSet(Address)
  <2>1. IsFiniteSet(Low \cup High)
    BY <1>2, FS_Union
  <2> QED
    BY <2>1
<1>4. Cardinality(Address) \in Nat
  BY <1>3, FS_CardinalityType
<1>5. LowStart \in Address /\ HighStart \in Address
  OBVIOUS
<1> QED
  BY <1>1, <1>3, <1>4, <1>5

(* Induction over the numbers, about a set instead of a predicate.         *)
LEMMA LeastExists ==
  ASSUME NEW S \in SUBSET Nat, S # {}
  PROVE  \E n \in S : \A o \in S : n <= o
<1>1. PICK n \in S : \A o \in S : <<o, n>> \notin OpToRel(<, Nat)
  BY NatLessThanWellFounded, WFMin
<1>2. ASSUME NEW l \in Nat, NEW k \in Nat, l < k
      PROVE  <<l, k>> \in OpToRel(<, Nat)
  BY <1>2, Zenon DEF OpToRel
<1>3. \A o \in S : ~ (o < n)
  BY <1>1, <1>2, Zenon
<1> QED
  BY <1>3

LEMMA SetInduction ==
  ASSUME NEW S, 0 \in S, \A n \in Nat : n \in S => n + 1 \in S
  PROVE  Nat \subseteq S
<1> SUFFICES ASSUME Nat \ S # {}
             PROVE  FALSE
  OBVIOUS
<1>1. PICK n \in Nat \ S : \A o \in Nat \ S : n <= o
  <2>1. Nat \ S \in SUBSET Nat
    OBVIOUS
  <2> QED
    BY <2>1, LeastExists
<1>2. n - 1 \in Nat
  BY <1>1
<1>3. n - 1 \in S
  BY <1>1, <1>2
<1>4. (n - 1) + 1 \in S
  BY <1>2, <1>3
<1> QED
  BY <1>1, <1>4

(* A list without repetitions is no longer than there are addresses.       *)
LEMMA ChainIsShort ==
  ASSUME NEW n \in Nat, NEW f, IsChain(n, f)
  PROVE  n <= Cardinality(Address)
<1> SUFFICES ASSUME Cardinality(Address) < n
             PROVE  FALSE
  BY AddressType
<1>1. IsFiniteSet(0 .. n - 1) /\ Cardinality(0 .. n - 1) = n
  <2>1. 0 \in Int /\ n - 1 \in Int
    OBVIOUS
  <2> QED
    BY <2>1, FS_Interval
<1>2. \E i, j \in 0 .. n - 1 : i # j /\ f[i] = f[j]
  <2>1. f \in [0 .. n - 1 -> Address] /\ IsFiniteSet(Address)
    BY AddressType DEF IsChain
  <2>2. Cardinality(Address) < Cardinality(0 .. n - 1)
    BY <1>1
  <2> QED
    BY <1>1, <2>1, <2>2, FS_PigeonHole
<1> QED
  BY <1>2 DEF IsChain

(* Walking the list from its head meets the blocks of f and then zero.     *)
LEMMA LinkIsChain ==
  ASSUME TypeInv, NEW n \in Nat, NEW f, IsChain(n, f)
  PROVE  /\ n \in 0 .. Cardinality(Address)
         /\ DOMAIN Link = 0 .. Cardinality(Address)
         /\ \A k \in DOMAIN Link : Link[k] = Chained(n, f, k)
<1> DEFINE D == 0 .. Cardinality(Address)
           Walk(g) == [k \in D |-> IF k = 0 THEN free_list_head
                                   ELSE LET b == g[k - 1] IN IF b = 0 THEN 0 ELSE next[b]]
           chain == [k \in D |-> Chained(n, f, k)]
<1>1. n \in D
  BY ChainIsShort, AddressType
<1>2. chain = Walk(chain)
  <2>1. ASSUME NEW k \in D, k # 0
        PROVE  Chained(n, f, k) =
                 IF chain[k - 1] = 0 THEN 0 ELSE next[chain[k - 1]]
    <3>1. k - 1 \in D /\ chain[k - 1] = Chained(n, f, k - 1) /\ (k - 1) + 1 = k
      BY <2>1, AddressType
    <3>2. CASE k - 1 < n
      <4>1. k - 1 \in 0 .. n - 1
        BY <2>1, <3>2, AddressType
      <4>2. chain[k - 1] = f[k - 1] /\ f[k - 1] \in Address
        BY <3>1, <4>1 DEF Chained, IsChain
      <4>3. chain[k - 1] # 0
        BY <4>2, AddressType
      <4> QED
        BY <3>1, <4>1, <4>2, <4>3 DEF IsChain
    <3>3. CASE ~ (k - 1 < n)
      BY <2>1, <3>1, <3>3, AddressType DEF Chained
    <3> QED
      BY <3>2, <3>3
  <2>2. Chained(n, f, 0) = free_list_head
    BY DEF IsChain
  <2> QED
    BY <2>1, <2>2
<1>3. Link = Walk(Link)
  <2>1. \E g : g = Walk(g)
    BY <1>2
  <2> QED
    BY <2>1, Zenon DEF Link
<1>4. DOMAIN Link = D
  BY <1>3
<1>5. \A k \in D : Link[k] = chain[k]
  <2> DEFINE S == {k \in Nat : k \in D => Link[k] = chain[k]}
  <2>1. 0 \in S
    BY <1>2, <1>3, AddressType
  <2>2. ASSUME NEW k \in Nat, k \in S
        PROVE  k + 1 \in S
    <3>1. CASE k + 1 \in D
      <4>1. k \in D /\ k + 1 # 0 /\ (k + 1) - 1 = k
        BY <3>1, AddressType
      <4>2. Link[k] = chain[k]
        BY <2>2, <4>1
      <4>3. Link[k + 1] = IF Link[k] = 0 THEN 0 ELSE next[Link[k]]
        BY <1>3, <3>1, <4>1
      <4>4. chain[k + 1] = IF chain[k] = 0 THEN 0 ELSE next[chain[k]]
        BY <1>2, <3>1, <4>1
      <4> QED
        BY <4>2, <4>3, <4>4
    <3> QED
      BY <3>1
  <2>3. Nat \subseteq S
    <3> HIDE DEF S
    <3> QED
      BY <2>1, <2>2, SetInduction
  <2>4. ASSUME NEW k \in D
        PROVE  k \in S
    <3>1. k \in Nat
      BY AddressType
    <3> HIDE DEF S
    <3> QED
      BY <2>3, <3>1
  <2> QED
    BY <2>4
<1> QED
  BY <1>1, <1>4, <1>5

(* What a search that starts at the head finds.                            *)
LEMMA FirstFitIsListed ==
  ASSUME TypeInv, NEW n \in Nat, NEW f, IsChain(n, f), NEW r \in Nat, FirstFit(r) # 0
  PROVE  \E i \in 0 .. n - 1 : FirstFit(r) = f[i] /\ Fits(f[i], r)
<1> DEFINE S == {k \in DOMAIN Link : Link[k] = 0 \/ Fits(Link[k], r)}
<1>1. n \in S
  <2>1. n \in DOMAIN Link /\ Link[n] = Chained(n, f, n)
    BY LinkIsChain
  <2>2. Chained(n, f, n) = 0
    BY DEF Chained
  <2> QED
    BY <2>1, <2>2
<1>2. S \subseteq Nat
  BY LinkIsChain, AddressType
<1>3. \E k \in S : \A o \in S : k <= o
  <2> HIDE DEF S
  <2> QED
    BY <1>1, <1>2, LeastExists
<1>4. Min(S) \in S
  <2> HIDE DEF S
  <2> QED
    BY <1>3, Zenon DEF Min
<1>5. FirstFit(r) = Link[Min(S)]
  BY DEF FirstFit
<1>6. Fits(Link[Min(S)], r) /\ Min(S) \in DOMAIN Link
  BY <1>4, <1>5
<1>7. Link[Min(S)] = Chained(n, f, Min(S)) /\ Link[Min(S)] # 0
  <2> HIDE DEF S
  <2> QED
    BY <1>5, <1>6, LinkIsChain
<1>8. Min(S) \in 0 .. n - 1 /\ Link[Min(S)] = f[Min(S)]
  <2> HIDE DEF S
  <2> QED
    BY <1>7 DEF Chained
<1> HIDE DEF S
<1> QED
  BY <1>5, <1>6, <1>8

LEMMA AtTheStart == Init => IInv
<1> SUFFICES ASSUME Init
             PROVE  IInv
  OBVIOUS
<1> USE AllocatorAssumption, AddressType
<1>1. TypeInv
  BY DEF Init, TypeInv
<1>2. GivenInv
  BY DEF Init, GivenInv
<1> DEFINE f == [i \in 0 .. 1 |-> IF i = 0 THEN LowStart ELSE HighStart]
<1>3. LowStart # HighStart /\ LowStart # 0 /\ HighStart # 0
  OBVIOUS
<1>4. IsChain(2, f)
  BY <1>3 DEF IsChain, Chained, Init
<1>5. Listed(2, f) = {LowStart, HighStart} /\ LiveBlocks = {}
  BY DEF Listed, LiveBlocks, Init
<1>6. Extent(LowStart) = Low /\ Extent(HighStart) = High
  BY <1>3 DEF Extent, Init, Low, High
<1>7. size[LowStart] = LowSize /\ size[HighStart] = HighSize
  BY <1>3 DEF Init
<1>8. Low \cap High = {}
  BY DEF Low, High
<1>9. Tiling(Listed(2, f))
  <2> HIDE DEF f
  <2> QED
    BY <1>5, <1>6, <1>7, <1>8 DEF Tiling, Address
<1> HIDE DEF f
<1> QED
  BY <1>1, <1>2, <1>4, <1>9 DEF IInv, HeapIs

-----------------------------------------------------------------------------
LEMMA HandedOut ==
  ASSUME NEW p, NEW r, given' = given \cup {<<p, r>>}
  PROVE  LiveBlocks' = LiveBlocks \cup {HeaderOf(p)}
<1>1. <<p, r>>[1] = p
  OBVIOUS
<1>2. LiveBlocks' = {HeaderOf(g[1]) : g \in given \cup {<<p, r>>}}
  BY DEF LiveBlocks
<1>3. ASSUME NEW x
      PROVE  x \in LiveBlocks' <=> x \in LiveBlocks \cup {HeaderOf(p)}
  BY <1>1, <1>2, Zenon DEF LiveBlocks
<1> QED
  BY <1>3

(* No request is so large that adding the headers to it wraps around.      *)
LEMMA NothingWraps ==
  ASSUME NEW r \in Request
  PROVE  /\ RealSize(r) = r + Header
         /\ \A b : Fits(b, r) <=> size[b] >= r + Header
         /\ \A b : MayCarve(b, r) <=> size[b] > r + Header + Header + Slack
<1>1. /\ r + Header \in Nat /\ r + Header + Header + Slack \in Nat
      /\ r + Header < Word /\ r + Header + Header + Slack < Word
      /\ Word \in Nat \ {0}
  BY AllocatorAssumption
<1>2. RealSize(r) = r + Header
  BY <1>1 DEF RealSize
<1>3. (RealSize(r) + Header + Slack) % Word = r + Header + Header + Slack
  BY <1>1, <1>2
<1> QED
  BY <1>2, <1>3 DEF Fits, MayCarve

(* The end of a block of the list is cut off: the list stays what it is,   *)
(* and two extents take the place of one.                                  *)
LEMMA CarveStep ==
  ASSUME TypeInv, GivenInv, NEW n \in Nat, NEW f, HeapIs(n, f),
         NEW i \in 0 .. n - 1, NEW r \in Request, MayCarve(f[i], r), Carve(f[i], r)
  PROVE  TypeInv' /\ GivenInv' /\ HeapIs(n, f)'
<1> DEFINE F == Listed(n, f)
<1> USE AllocatorAssumption
<1>1. PICK b \in Address : b = f[i]
  BY DEF HeapIs, IsChain
<1>2. /\ b \in F /\ b \in Nat \ {0}
      /\ size[b] \in Nat /\ r \in Nat \ {0} /\ Header \in Nat \ {0}
      /\ Extent(b) \subseteq Address
  <2>1. b \in F
    BY <1>1 DEF Listed
  <2>2. Extent(b) \subseteq Address
    BY <2>1 DEF HeapIs, Tiling
  <2>3. size[b] \in Nat
    BY DEF TypeInv
  <2> QED
    BY <2>1, <2>2, <2>3, AddressType
<1>3. PICK rest \in Nat : /\ rest >= Header /\ rest < size[b]
                         /\ size[b] = rest + (r + Header)
                         /\ rest = size[b] - (r + Header)
  BY <1>1, <1>2, NothingWraps
<1>4. PICK c \in Nat : c = b + rest
  BY <1>2
<1>5. c # b /\ c \in Extent(b) /\ c \in Address
  BY <1>2, <1>3, <1>4 DEF Extent
<1>6. c \notin F \cup LiveBlocks
  <2> SUFFICES ASSUME c \in F \cup LiveBlocks
               PROVE  FALSE
    OBVIOUS
  <2>1. c \in Extent(c)
    BY <1>5 DEF Tiling, HeapIs, Extent, TypeInv
  <2> QED
    BY <1>2, <1>5, <2>1 DEF Tiling, HeapIs
<1>7. size' = [a \in Address |-> IF a = b THEN rest ELSE IF a = c THEN r + Header ELSE size[a]]
  <2>1. f[i] + size[f[i]] - (r + Header) = c /\ size[b] - (r + Header) = rest
    BY <1>1, <1>2, <1>3, <1>4
  <2>2. size' = [size EXCEPT ![b] = @ - (r + Header), ![c] = r + Header]
    BY <1>1, <1>3, <2>1, NothingWraps DEF Carve
  <2> QED
    BY <1>2, <1>5, <2>1, <2>2 DEF TypeInv
<1>8. given' = given \cup {<<c + Header, r>>}
  BY <1>1, <1>2, <1>3, <1>4, NothingWraps DEF Carve
<1>9. HeaderOf(c + Header) = c
  BY <1>2, <1>4 DEF HeaderOf
<1>10. c + Header \in Extent(b) /\ c + Header \in Address
  BY <1>2, <1>3, <1>4 DEF Extent
<1>11. LiveBlocks' = LiveBlocks \cup {c}
  BY <1>8, <1>9, HandedOut
<1>12. TypeInv'
  <2>1. size' \in [Address -> Nat]
    BY <1>2, <1>7 DEF TypeInv
  <2>2. given' \subseteq Address \X Request
    BY <1>8, <1>10 DEF TypeInv
  <2> QED
    BY <2>1, <2>2 DEF TypeInv, Carve
<1>13. \A g \in given : HeaderOf(g[1]) \in LiveBlocks /\ HeaderOf(g[1]) # b /\ HeaderOf(g[1]) # c
  BY <1>2, <1>6 DEF LiveBlocks, HeapIs, Tiling
<1>14. GivenInv'
  <2>1. ASSUME NEW g \in given
        PROVE  HeaderOf(g[1]) \in Address /\ size'[HeaderOf(g[1])] >= g[2] + Header
    BY <1>7, <1>13 DEF GivenInv
  <2>2. size'[c] >= r + Header
    BY <1>2, <1>5, <1>7
  <2>3. \A g \in given : g[1] # c + Header
    BY <1>9, <1>13
  <2> QED
    BY <1>5, <1>8, <1>9, <2>1, <2>2, <2>3 DEF GivenInv
<1>15. IsChain(n, f)'
  BY DEF IsChain, Chained, HeapIs, Carve
<1>16. Tiling(F)'
  <2>1. ASSUME NEW d \in F \cup LiveBlocks, d # b
        PROVE  d \in Address /\ d # c /\ size'[d] = size[d] /\ Extent(d)' = Extent(d)
    BY <1>6, <1>7, <2>1 DEF HeapIs, Tiling, Extent
  <2>2. size'[b] = rest /\ size'[c] = r + Header
    BY <1>2, <1>5, <1>7
  <2>3. Extent(b)' \cup Extent(c)' = Extent(b) /\ Extent(b)' \cap Extent(c)' = {}
    BY <1>2, <1>3, <1>4, <2>2 DEF Extent
  <2>4. F \cap LiveBlocks' = {}
    BY <1>6, <1>11 DEF HeapIs, Tiling
  <2>5. \A d \in F \cup LiveBlocks' : /\ d \in Address
                                     /\ Extent(d)' \subseteq Address
                                     /\ size'[d] >= Header
    BY <1>2, <1>3, <1>5, <1>11, <2>1, <2>2, <2>3 DEF HeapIs, Tiling
  <2>6. \A a \in Address : \E d \in F \cup LiveBlocks' : a \in Extent(d)'
    BY <1>2, <1>11, <2>1, <2>3 DEF HeapIs, Tiling
  <2>7. \A d, e \in F \cup LiveBlocks' : d # e => Extent(d)' \cap Extent(e)' = {}
    BY <1>2, <1>11, <2>1, <2>3 DEF HeapIs, Tiling
  <2> QED
    BY <2>4, <2>5, <2>6, <2>7 DEF Tiling
<1> QED
  BY <1>12, <1>14, <1>15, <1>16 DEF HeapIs, Listed

(* A block leaves the list: the chain without its i-th block.              *)
Without(n, f, i) == [k \in 0 .. n - 2 |-> IF k < i THEN f[k] ELSE f[k + 1]]

LEMMA UnlinkStep ==
  ASSUME TypeInv, NEW n \in Nat, NEW f, IsChain(n, f), NEW i \in 0 .. n - 1, Unlink(f[i])
  PROVE  /\ IsChain(n - 1, Without(n, f, i))'
         /\ Listed(n - 1, Without(n, f, i)) = Listed(n, f) \ {f[i]}
         /\ prev' \in [Address -> Address \cup {0}]
         /\ next' \in [Address -> Address \cup {0}]
         /\ free_list_head' \in Address \cup {0}
<1> DEFINE g == [k \in 0 .. n - 2 |-> IF k < i THEN f[k] ELSE f[k + 1]]
<1>1. g = Without(n, f, i)
  BY DEF Without
<1>2. /\ f \in [0 .. n - 1 -> Address]
      /\ \A j, k \in 0 .. n - 1 : f[j] = f[k] => j = k
      /\ free_list_head = Chained(n, f, 0)
      /\ \A k \in 0 .. n - 1 : next[f[k]] = Chained(n, f, k + 1) /\ prev[f[k]] = Chained(n, f, k - 1)
      /\ 0 \notin Address
  BY AddressType DEF IsChain
<1>3. \A k \in Int : Chained(n, f, k) \in Address \cup {0}
  BY <1>2 DEF Chained
<1>4. /\ prev' \in [Address -> Address \cup {0}]
      /\ next' \in [Address -> Address \cup {0}]
      /\ free_list_head' \in Address \cup {0}
  BY <1>2, <1>3 DEF TypeInv, Unlink
<1>5. g \in [0 .. (n - 1) - 1 -> Address]
  BY <1>2
<1>6. \A j, k \in 0 .. (n - 1) - 1 : g[j] = g[k] => j = k
  <2> SUFFICES ASSUME NEW j \in 0 .. (n - 1) - 1, NEW k \in 0 .. (n - 1) - 1, g[j] = g[k]
               PROVE  j = k
    OBVIOUS
  <2>1. PICK p \in 0 .. n - 1 : g[j] = f[p] /\ p = IF j < i THEN j ELSE j + 1
    OBVIOUS
  <2>2. PICK q \in 0 .. n - 1 : g[k] = f[q] /\ q = IF k < i THEN k ELSE k + 1
    OBVIOUS
  <2>3. p = q
    BY <1>2, <2>1, <2>2
  <2> QED
    BY <2>1, <2>2, <2>3
<1>7. Listed(n - 1, g) = Listed(n, f) \ {f[i]}
  <2>1. ASSUME NEW k \in 0 .. (n - 1) - 1
        PROVE  g[k] \in Listed(n, f) \ {f[i]}
    BY <1>2 DEF Listed
  <2>2. ASSUME NEW k \in 0 .. n - 1, k # i
        PROVE  \E j \in 0 .. (n - 1) - 1 : g[j] = f[k]
    <3>1. CASE k < i
      BY <3>1
    <3>2. CASE k > i
      BY <3>2
    <3> QED
      BY <2>2, <3>1, <3>2
  <2>3. ASSUME NEW x \in Listed(n, f) \ {f[i]}
        PROVE  x \in Listed(n - 1, g)
    <3>1. PICK k \in 0 .. n - 1 : x = f[k] /\ k # i
      BY DEF Listed
    <3>2. PICK j \in 0 .. (n - 1) - 1 : g[j] = x
      BY <2>2, <3>1
    <3> HIDE DEF g
    <3> QED
      BY <3>2 DEF Listed
  <2>4. ASSUME NEW x \in Listed(n - 1, g)
        PROVE  x \in Listed(n, f) \ {f[i]}
    <3>1. PICK k \in 0 .. (n - 1) - 1 : x = g[k]
      BY DEF Listed
    <3> QED
      BY <2>1, <3>1
  <2> QED
    BY <2>3, <2>4
(* Chained of the shorter list, and the neighbours of the block.           *)
<1>8. /\ \A k \in Int : k < i => Chained(n - 1, g, k) = Chained(n, f, k)
      /\ \A k \in Int : k >= i => Chained(n - 1, g, k) = Chained(n, f, k + 1)
  BY <1>2 DEF Chained
<1>9. free_list_head' = Chained(n - 1, g, 0)
  BY <1>2, <1>8 DEF Unlink, Chained
<1>10. ASSUME NEW k \in 0 .. (n - 1) - 1
      PROVE  /\ next'[g[k]] = Chained(n - 1, g, k + 1)
             /\ prev'[g[k]] = Chained(n - 1, g, k - 1)
  <2>1. CASE k < i
    <3>1. g[k] = f[k] /\ f[k] \in Address /\ k \in 0 .. n - 1
      BY <1>2, <2>1
    <3>2. prev[f[k]] = Chained(n - 1, g, k - 1) /\ next[f[k]] = Chained(n, f, k + 1)
      <4>1. prev[f[k]] = Chained(n, f, k - 1) /\ next[f[k]] = Chained(n, f, k + 1)
        BY <1>2, <3>1
      <4>2. Chained(n - 1, g, k - 1) = Chained(n, f, k - 1)
        <5>1. k - 1 \in Int /\ k - 1 < i
          BY <2>1
        <5> HIDE DEF g
        <5> QED
          BY <1>8, <5>1
      <4> QED
        BY <4>1, <4>2
    <3>3. f[k] # next[f[i]]
      BY <1>2, <2>1, <3>1 DEF Chained
    <3>4. f[k] = prev[f[i]] <=> k = i - 1
      BY <1>2, <2>1, <3>1 DEF Chained
    <3>5. CASE k = i - 1
      BY <1>2, <1>8, <3>1, <3>2, <3>3, <3>4, <3>5 DEF Unlink
    <3>6. CASE k # i - 1
      BY <1>8, <2>1, <3>1, <3>2, <3>3, <3>4, <3>6 DEF Unlink
    <3> QED
      BY <3>5, <3>6
  <2>2. CASE k >= i
    <3>1. g[k] = f[k + 1] /\ f[k + 1] \in Address /\ k + 1 \in 0 .. n - 1
      BY <1>2, <2>2
    <3>2. prev[f[k + 1]] = f[k] /\ next[f[k + 1]] = Chained(n - 1, g, k + 1)
      BY <1>2, <1>8, <2>2, <3>1 DEF Chained
    <3>3. f[k + 1] # prev[f[i]]
      BY <1>2, <2>2, <3>1 DEF Chained
    <3>4. f[k + 1] = next[f[i]] <=> k = i
      BY <1>2, <2>2, <3>1 DEF Chained
    <3>5. CASE k = i
      <4>1. next'[g[k]] = next[f[k + 1]] /\ prev'[g[k]] = prev[f[i]]
        <5> HIDE DEF g
        <5> QED
          BY <3>1, <3>3, <3>4, <3>5 DEF Unlink
      <4>2. Chained(n - 1, g, k - 1) = Chained(n, f, i - 1)
        <5>1. k - 1 \in Int /\ k - 1 < i
          BY <3>5
        <5> HIDE DEF g
        <5> QED
          BY <1>8, <3>5, <5>1
      <4> QED
        BY <1>2, <3>2, <4>1, <4>2
    <3>6. CASE k # i
      BY <1>2, <1>8, <2>2, <3>1, <3>2, <3>3, <3>4, <3>6 DEF Unlink, Chained
    <3> QED
      BY <3>5, <3>6
  <2> QED
    BY <2>1, <2>2
<1>11. IsChain(n - 1, g)'
  <2> HIDE DEF g
  <2> QED
    BY <1>5, <1>6, <1>9, <1>10 DEF IsChain, Chained
<1> HIDE DEF g
<1> QED
  BY <1>1, <1>4, <1>7, <1>11

(* When the same blocks stay where they were, going from the list to those *)
(* that are handed out or back, they tile the heap as before.              *)
LEMMA SameTiling ==
  ASSUME NEW F, NEW G, Tiling(F), size' = size,
         G \cap LiveBlocks' = {}, G \cup LiveBlocks' = F \cup LiveBlocks
  PROVE  Tiling(G)'
BY DEF Tiling, Extent

LEMMA TakeWholeStep ==
  ASSUME TypeInv, GivenInv, NEW n \in Nat, NEW f, HeapIs(n, f),
         NEW i \in 0 .. n - 1, NEW r \in Request, Fits(f[i], r), TakeWhole(f[i], r)
  PROVE  IInv'
<1> DEFINE g == Without(n, f, i)
<1> USE AllocatorAssumption
<1>1. PICK b \in Address : b = f[i]
  BY DEF HeapIs, IsChain
<1>2. /\ b \in Listed(n, f) /\ b \in Nat \ {0} /\ size[b] \in Nat
      /\ r \in Nat \ {0} /\ Header \in Nat \ {0}
  BY <1>1, AddressType DEF Listed, TypeInv
<1>3. size[b] >= r + Header /\ given' = given \cup {<<b + Header, r>>} /\ size' = size
  BY <1>1, NothingWraps DEF TakeWhole
<1>4. HeaderOf(b + Header) = b
  BY <1>2 DEF HeaderOf
<1>5. b + Header \in Address
  <2>1. b + Header \in Extent(b)
    BY <1>2, <1>3 DEF Extent
  <2> QED
    BY <1>2, <2>1 DEF HeapIs, Tiling
<1>6. LiveBlocks' = LiveBlocks \cup {b}
  BY <1>3, <1>4, HandedOut
<1>7. /\ IsChain(n - 1, g)'
      /\ Listed(n - 1, g) = Listed(n, f) \ {b}
      /\ prev' \in [Address -> Address \cup {0}]
      /\ next' \in [Address -> Address \cup {0}]
      /\ free_list_head' \in Address \cup {0}
  <2>1. IsChain(n, f) /\ Unlink(f[i])
    BY DEF HeapIs, TakeWhole
  <2> QED
    BY <1>1, <2>1, UnlinkStep
<1>8. TypeInv'
  <2>1. given' \subseteq Address \X Request
    BY <1>3, <1>5 DEF TypeInv
  <2> QED
    BY <1>3, <1>7, <2>1 DEF TypeInv
<1>9. GivenInv'
  <2>1. b \notin LiveBlocks
    BY <1>2 DEF HeapIs, Tiling
  <2>2. \A h \in given : h[1] # b + Header
    BY <1>4, <2>1 DEF LiveBlocks
  <2> QED
    BY <1>3, <1>4, <2>2 DEF GivenInv
<1> HIDE DEF g
<1>10. Tiling(Listed(n - 1, g))'
  <2>1. /\ Listed(n - 1, g) \cap LiveBlocks' = {}
        /\ Listed(n - 1, g) \cup LiveBlocks' = Listed(n, f) \cup LiveBlocks
    BY <1>2, <1>6, <1>7 DEF HeapIs, Tiling
  <2>2. Tiling(Listed(n, f))
    BY DEF HeapIs
  <2> QED
    BY <1>3, <2>1, <2>2, SameTiling
<1>11. n - 1 \in Nat
  OBVIOUS
<1> QED
  BY <1>7, <1>8, <1>9, <1>10, <1>11 DEF IInv, HeapIs

LEMMA Stutter ==
  ASSUME IInv, UNCHANGED vars
  PROVE  IInv'
<1>1. PICK n \in Nat : \E f : HeapIs(n, f)
  BY DEF IInv
<1>2. PICK f : HeapIs(n, f)
  BY <1>1
<1>3. HeapIs(n, f)'
  BY <1>2 DEF vars, headerVars, HeapIs, IsChain, Tiling, LiveBlocks, Extent
<1>4. TypeInv' /\ GivenInv'
  BY DEF IInv, TypeInv, GivenInv, vars, headerVars
<1> QED
  BY <1>3, <1>4 DEF IInv

LEMMA AllocateStep ==
  ASSUME IInv, NEW r \in Request, Allocate(r)
  PROVE  IInv'
<1>1. TypeInv /\ GivenInv
  BY DEF IInv
<1>2. PICK n \in Nat : \E f : HeapIs(n, f)
  BY DEF IInv
<1>3. PICK f : HeapIs(n, f)
  BY <1>2
<1>4. CASE FirstFit(r) = 0
  <2>1. UNCHANGED vars
    BY <1>4 DEF Allocate
  <2> QED
    BY <2>1, Stutter
<1>5. CASE FirstFit(r) # 0
  <2>1. r \in Nat
    BY AllocatorAssumption
  <2>2. PICK i \in 0 .. n - 1 : FirstFit(r) = f[i] /\ Fits(f[i], r)
    BY <1>1, <1>3, <1>5, <2>1, FirstFitIsListed DEF HeapIs
  <2>3. CASE MayCarve(f[i], r)
    <3>1. Carve(f[i], r)
      BY <1>5, <2>2, <2>3 DEF Allocate
    <3>2. TypeInv' /\ GivenInv' /\ HeapIs(n, f)'
      BY <1>1, <1>3, <2>3, <3>1, CarveStep
    <3> QED
      BY <3>2 DEF IInv
  <2>4. CASE ~ MayCarve(f[i], r)
    <3>1. TakeWhole(f[i], r)
      BY <1>5, <2>2, <2>4 DEF Allocate
    <3> QED
      BY <1>1, <1>3, <2>2, <3>1, TakeWholeStep
  <2> QED
    BY <2>3, <2>4
<1> QED
  BY <1>4, <1>5

(* A block comes back and becomes the first of the list.                   *)
LEMMA FreeStep ==
  ASSUME IInv, NEW h \in given, Free(h)
  PROVE  IInv'
<1>1. TypeInv /\ GivenInv
  BY DEF IInv
<1>2. PICK n \in Nat : \E f : HeapIs(n, f)
  BY DEF IInv
<1>3. PICK f : HeapIs(n, f)
  BY <1>2
<1>4. PICK b \in Address : b = HeaderOf(h[1])
  BY <1>1 DEF GivenInv
<1>5. b \in LiveBlocks /\ b \notin Listed(n, f) /\ 0 \notin Address
  BY <1>3, <1>4, AddressType DEF LiveBlocks, HeapIs, Tiling
<1>6. /\ prev' = [a \in Address |-> IF a = b THEN 0
                                    ELSE IF a = free_list_head THEN b ELSE prev[a]]
      /\ next' = [next EXCEPT ![b] = free_list_head]
      /\ free_list_head' = b
      /\ given' = given \ {h}
      /\ size' = size
  BY <1>4 DEF Free
<1>7. LiveBlocks' = LiveBlocks \ {b}
  <2>1. \A g \in given : HeaderOf(g[1]) = HeaderOf(h[1]) => g = h
    <3>1. \A g \in given : g[1] \in Nat
      BY <1>1, AddressType DEF TypeInv
    <3> QED
      BY <1>1, <3>1, AllocatorAssumption DEF GivenInv, HeaderOf
  <2>2. LiveBlocks' = {HeaderOf(g[1]) : g \in given \ {h}}
    BY <1>6 DEF LiveBlocks
  <2>3. ASSUME NEW x
        PROVE  x \in LiveBlocks' <=> x \in LiveBlocks \ {b}
    BY <1>4, <2>1, <2>2, Zenon DEF LiveBlocks
  <2> QED
    BY <2>3
<1> DEFINE g == [k \in 0 .. n |-> IF k = 0 THEN b ELSE f[k - 1]]
<1>8. /\ f \in [0 .. n - 1 -> Address]
      /\ \A j, k \in 0 .. n - 1 : f[j] = f[k] => j = k
      /\ free_list_head = Chained(n, f, 0)
      /\ \A k \in 0 .. n - 1 : next[f[k]] = Chained(n, f, k + 1) /\ prev[f[k]] = Chained(n, f, k - 1)
      /\ \A k \in 0 .. n - 1 : f[k] # b
  BY <1>3, <1>5 DEF HeapIs, IsChain, Listed
<1>9. g \in [0 .. (n + 1) - 1 -> Address]
  BY <1>8
<1>10. Listed(n + 1, g) = Listed(n, f) \cup {b}
  <2>1. ASSUME NEW k \in 0 .. n - 1
        PROVE  \E j \in 0 .. (n + 1) - 1 : g[j] = f[k]
    <3>1. k + 1 \in 0 .. (n + 1) - 1 /\ g[k + 1] = f[k]
      OBVIOUS
    <3> QED
      BY <3>1
  <2>2. ASSUME NEW k \in 0 .. (n + 1) - 1
        PROVE  g[k] = b \/ \E j \in 0 .. n - 1 : g[k] = f[j]
    OBVIOUS
  <2>3. 0 \in 0 .. (n + 1) - 1 /\ g[0] = b
    OBVIOUS
  <2> HIDE DEF g
  <2> QED
    BY <2>1, <2>2, <2>3 DEF Listed
<1>11. IsChain(n + 1, g)'
  <2>1. \A j, k \in 0 .. (n + 1) - 1 : g[j] = g[k] => j = k
    <3> SUFFICES ASSUME NEW j \in 0 .. n, NEW k \in 0 .. n, g[j] = g[k]
                 PROVE  j = k
      OBVIOUS
    <3>1. j = 0 \/ (j - 1 \in 0 .. n - 1 /\ g[j] = f[j - 1])
      OBVIOUS
    <3>2. k = 0 \/ (k - 1 \in 0 .. n - 1 /\ g[k] = f[k - 1])
      OBVIOUS
    <3>3. g[0] = b
      OBVIOUS
    <3> HIDE DEF g
    <3> QED
      BY <1>8, <3>1, <3>2, <3>3
  <2>2. /\ Chained(n + 1, g, -1) = 0 /\ Chained(n + 1, g, 0) = b
        /\ \A k \in Int : k > 0 => Chained(n + 1, g, k) = Chained(n, f, k - 1)
    BY <1>8 DEF Chained
  <2>3. next'[b] = Chained(n + 1, g, 1) /\ prev'[b] = Chained(n + 1, g, -1)
    <3>1. Chained(n + 1, g, 1) = Chained(n, f, 0)
      <4>1. 1 \in Int /\ 1 > 0 /\ 1 - 1 = 0
        OBVIOUS
      <4> HIDE DEF g
      <4> QED
        BY <2>2, <4>1
    <3> HIDE DEF g
    <3> QED
      BY <1>1, <1>6, <1>8, <2>2, <3>1 DEF TypeInv
  <2>4. ASSUME NEW k \in 1 .. n
        PROVE  /\ next'[g[k]] = Chained(n + 1, g, k + 1)
               /\ prev'[g[k]] = Chained(n + 1, g, k - 1)
    <3>1. /\ g[k] = f[k - 1] /\ k - 1 \in 0 .. n - 1 /\ f[k - 1] \in Address
          /\ f[k - 1] # b /\ (k - 1) + 1 = k /\ (k + 1) - 1 = k
      BY <1>8
    <3>2. next'[g[k]] = Chained(n, f, k)
      <4>1. next[f[k - 1]] = Chained(n, f, k)
        BY <1>8, <3>1
      <4> QED
        BY <1>1, <1>6, <3>1, <4>1 DEF TypeInv
    <3>3. Chained(n + 1, g, k + 1) = Chained(n, f, k)
      <4>1. k + 1 \in Int /\ k + 1 > 0
        OBVIOUS
      <4> HIDE DEF g
      <4> QED
        BY <2>2, <3>1, <4>1
    <3>4. prev[f[k - 1]] = Chained(n, f, k - 2)
      <4>1. (k - 1) - 1 = k - 2
        OBVIOUS
      <4> QED
        BY <1>8, <3>1, <4>1
    <3>5. CASE k = 1
      BY <1>6, <1>8, <2>2, <3>1, <3>5 DEF Chained
    <3>6. CASE k # 1
      <4>1. f[k - 1] # free_list_head
        BY <1>5, <1>8, <3>1, <3>6 DEF Chained
      <4>2. prev'[g[k]] = Chained(n, f, k - 2)
        BY <1>6, <3>1, <3>4, <4>1
      <4>3. k - 1 \in Int /\ k - 1 > 0 /\ (k - 1) - 1 = k - 2
        BY <3>6
      <4>4. Chained(n + 1, g, k - 1) = Chained(n, f, k - 2)
        <5> HIDE DEF g
        <5> QED
          BY <2>2, <4>3
      <4> QED
        BY <3>2, <3>3, <4>2, <4>4
    <3> QED
      BY <3>2, <3>3, <3>5, <3>6
  <2>5. g[0] = b /\ \A k \in 0 .. (n + 1) - 1 : k = 0 \/ k \in 1 .. n
    OBVIOUS
  <2> HIDE DEF g
  <2>6. \A k \in 0 .. (n + 1) - 1 : /\ next'[g[k]] = Chained(n + 1, g, k + 1)
                                   /\ prev'[g[k]] = Chained(n + 1, g, k - 1)
    BY <2>3, <2>4, <2>5
  <2> QED
    BY <1>6, <1>9, <2>1, <2>2, <2>6 DEF IsChain, Chained
<1>12. TypeInv'
  <2>1. /\ prev' \in [Address -> Address \cup {0}]
        /\ next' \in [Address -> Address \cup {0}]
    BY <1>1, <1>6 DEF TypeInv
  <2> QED
    BY <1>1, <1>6, <2>1 DEF TypeInv
<1>13. GivenInv'
  BY <1>1, <1>6 DEF GivenInv
<1> HIDE DEF g
<1>14. Tiling(Listed(n + 1, g))'
  <2>1. /\ Listed(n + 1, g) \cap LiveBlocks' = {}
        /\ Listed(n + 1, g) \cup LiveBlocks' = Listed(n, f) \cup LiveBlocks
    BY <1>3, <1>5, <1>7, <1>10 DEF HeapIs, Tiling
  <2>2. Tiling(Listed(n, f))
    BY <1>3 DEF HeapIs
  <2> QED
    BY <1>6, <2>1, <2>2, SameTiling
<1>15. n + 1 \in Nat
  OBVIOUS
<1> QED
  BY <1>9, <1>11, <1>12, <1>13, <1>14, <1>15 DEF IInv, HeapIs

LEMMA Inductive == IInv /\ [Next]_vars => IInv'
<1> SUFFICES ASSUME IInv, [Next]_vars
             PROVE  IInv'
  OBVIOUS
<1>1. ASSUME NEW r \in Request, Allocate(r)
      PROVE  IInv'
  BY <1>1, AllocateStep
<1>2. ASSUME NEW g \in given, Free(g)
      PROVE  IInv'
  BY <1>2, FreeStep
<1>3. CASE UNCHANGED vars
  BY <1>3, Stutter
<1> QED
  BY <1>1, <1>2, <1>3 DEF Next

LEMMA Invariance == Spec => []IInv
BY AtTheStart, Inductive, PTL DEF Spec

-----------------------------------------------------------------------------
(* What Link finds are the blocks of the chain.                            *)
LEMMA FreeBlocksAreListed ==
  ASSUME TypeInv, NEW n \in Nat, NEW f, IsChain(n, f)
  PROVE  FreeBlocks = Listed(n, f)
<1>1. /\ n \in 0 .. Cardinality(Address)
      /\ DOMAIN Link = 0 .. Cardinality(Address)
      /\ \A k \in DOMAIN Link : Link[k] = Chained(n, f, k)
  BY LinkIsChain
<1>2. ASSUME NEW x \in FreeBlocks
      PROVE  x \in Listed(n, f)
  BY <1>1 DEF FreeBlocks, Chained, Listed
<1>3. ASSUME NEW x \in Listed(n, f)
      PROVE  x \in FreeBlocks
  <2>1. PICK k \in 0 .. n - 1 : x = f[k]
    BY DEF Listed
  <2>2. k \in DOMAIN Link /\ Link[k] = x
    BY <1>1, <2>1, AddressType DEF Chained
  <2>3. x # 0
    BY <2>1, AddressType DEF IsChain
  <2> QED
    BY <2>2, <2>3 DEF FreeBlocks
<1> QED
  BY <1>2, <1>3

(* Whatever is asked for and freed in whatever order, the blocks of the    *)
(* free list and those handed out tile the heap, for every heap, header    *)
(* and set of requests: no byte is lost and none belongs to two blocks.    *)
THEOREM BlocksTileTheHeap == Spec => []Tiled
<1>1. IInv => Tiled
  <2> SUFFICES ASSUME IInv
               PROVE  Tiled
    OBVIOUS
  <2>1. PICK n \in Nat : \E f : HeapIs(n, f)
    BY DEF IInv
  <2>2. PICK f : HeapIs(n, f)
    BY <2>1
  <2>3. FreeBlocks = Listed(n, f)
    BY <2>2, FreeBlocksAreListed DEF IInv, HeapIs
  <2> DEFINE blocks == FreeBlocks \cup LiveBlocks
  <2>4. Tiling(FreeBlocks)
    BY <2>2, <2>3 DEF HeapIs
  <2>5. UNION {Extent(b) : b \in blocks} = Address
    <3>1. ASSUME NEW b \in blocks
          PROVE  Extent(b) \subseteq Address
      BY <2>4 DEF Tiling
    <3>2. ASSUME NEW a \in Address
          PROVE  \E b \in blocks : a \in Extent(b)
      BY <2>4 DEF Tiling
    <3> HIDE DEF blocks
    <3> QED
      BY <3>1, <3>2
  <2> QED
    BY <2>4, <2>5 DEF Tiled, Tiling
<1> QED
  BY <1>1, Invariance, PTL

(* The list of the allocator ends, and each block points back at the one   *)
(* before it, so that allocate_memory unlinks the right ones.              *)
THEOREM ListIsLinkedBothWays == Spec => []ListLinked
<1>1. IInv => ListLinked
  <2> SUFFICES ASSUME IInv
               PROVE  ListLinked
    OBVIOUS
  <2>1. PICK n \in Nat : \E f : HeapIs(n, f)
    BY DEF IInv
  <2>2. PICK f : HeapIs(n, f)
    BY <2>1
  <2>3. /\ n \in DOMAIN Link
        /\ DOMAIN Link \subseteq Nat
        /\ \A k \in DOMAIN Link : k - 1 \in Nat => k - 1 \in DOMAIN Link
        /\ \A k \in DOMAIN Link : Link[k] = Chained(n, f, k)
    BY <2>2, LinkIsChain, AddressType DEF IInv, HeapIs
  <2>4. Link[n] = 0
    BY <2>3 DEF Chained
  <2>5. ASSUME NEW k \in DOMAIN Link, Link[k] # 0
        PROVE  prev[Link[k]] = IF k = 0 THEN 0 ELSE Link[k - 1]
    <3>1. k \in 0 .. n - 1 /\ Link[k] = f[k]
      BY <2>3, <2>5 DEF Chained
    <3>2. prev[f[k]] = Chained(n, f, k - 1)
      BY <2>2, <3>1 DEF HeapIs, IsChain
    <3>3. CASE k = 0
      BY <3>1, <3>2, <3>3 DEF Chained
    <3>4. CASE k # 0
      BY <2>3, <3>1, <3>2, <3>4
    <3> QED
      BY <3>3, <3>4
  <2> QED
    BY <2>3, <2>4, <2>5 DEF ListLinked
<1> QED
  BY <1>1, Invariance, PTL

-----------------------------------------------------------------------------
(* The bytes a program got lie in the block with its header.               *)
LEMMA BytesInBlock ==
  ASSUME NEW p \in Address, NEW r \in Request, HeaderOf(p) \in Address,
         NEW s \in Nat, s >= r + Header
  PROVE  Promise!Bytes(<<p, r>>) \subseteq HeaderOf(p) .. HeaderOf(p) + s - 1
BY AddressType, AllocatorAssumption DEF Promise!Bytes, HeaderOf

(* A step of the allocator is one of Heap, or changes nothing given.       *)
LEMMA StepIsHeapStep ==
  ASSUME IInv, IInv', [Next]_vars
  PROVE  [Promise!Next]_given
<1>1. ASSUME NEW r \in Request, Allocate(r)
      PROVE  [Promise!Next]_given
  <2>1. CASE given' = given
    BY <2>1
  <2>2. CASE given' # given
    <3>1. PICK p : given' = given \cup {<<p, r>>}
      BY <1>1, <2>2 DEF Allocate, Carve, TakeWhole, vars
    <3>2. <<p, r>> \in given' /\ <<p, r>> \notin given /\ <<p, r>>[1] = p /\ <<p, r>>[2] = r
      BY <2>2, <3>1
    <3>3. /\ TypeInv' /\ GivenInv' /\ p \in Address
          /\ HeaderOf(p) \in Address /\ size'[HeaderOf(p)] >= r + Header
      BY <3>2 DEF IInv, TypeInv, GivenInv
    <3>4. PICK n \in Nat : \E f : HeapIs(n, f)'
      BY DEF IInv
    <3>5. PICK f : HeapIs(n, f)'
      BY <3>4
    <3>6. HeaderOf(p) \in LiveBlocks'
      BY <3>2, Zenon DEF LiveBlocks
    <3>7. Promise!Bytes(<<p, r>>) \subseteq Extent(HeaderOf(p))'
      BY <3>3, BytesInBlock DEF Extent, TypeInv
    <3>8. Extent(HeaderOf(p))' \subseteq Address
      BY <3>5, <3>6 DEF HeapIs, Tiling
    <3>9. ASSUME NEW g \in given
          PROVE  Promise!Bytes(g) \cap Promise!Bytes(<<p, r>>) = {}
      <4>1. g \in given' /\ g # <<p, r>>
        BY <3>1, <3>2
      <4>2. g[1] # p /\ g[1] \in Address /\ g[2] \in Request /\ HeaderOf(g[1]) \in Address
            /\ size'[HeaderOf(g[1])] >= g[2] + Header
        BY <3>2, <3>3, <4>1 DEF GivenInv, TypeInv
      <4>3. HeaderOf(g[1]) \in LiveBlocks'
        BY <4>1, Zenon DEF LiveBlocks
      <4>4. HeaderOf(g[1]) # HeaderOf(p)
        <5>1. g[1] \in Nat /\ p \in Nat
          BY <3>3, <4>2, AddressType
        <5> QED
          BY <4>2, <5>1, AllocatorAssumption DEF HeaderOf
      <4>5. Extent(HeaderOf(g[1]))' \cap Extent(HeaderOf(p))' = {}
        BY <3>5, <3>6, <4>3, <4>4 DEF HeapIs, Tiling
      <4>6. Promise!Bytes(g) \subseteq Extent(HeaderOf(g[1]))'
        <5>1. Promise!Bytes(<<g[1], g[2]>>) \subseteq Extent(HeaderOf(g[1]))'
          BY <3>3, <4>2, BytesInBlock DEF Extent, TypeInv
        <5> QED
          BY <5>1 DEF Promise!Bytes
      <4> QED
        BY <3>7, <4>5, <4>6
    <3>10. Promise!Allocate(r)
      BY <3>1, <3>3, <3>7, <3>8, <3>9 DEF Promise!Allocate
    <3> QED
      BY <3>10 DEF Promise!Next
  <2> QED
    BY <2>1, <2>2
<1>2. ASSUME NEW g \in given, Free(g)
      PROVE  [Promise!Next]_given
  BY <1>2 DEF Free, Promise!Next, Promise!Free
<1> QED
  BY <1>1, <1>2 DEF Next, vars

(* What was handed out lies in the heap and is disjoint, although a block  *)
(* is taken whole when it is too small to be carved, and what is freed is  *)
(* handed out again in other sizes.                                        *)
THEOREM MemoryIsDisjoint == Spec => HeapKept
<1>1. Init => Promise!Init
  BY DEF Init, Promise!Init
<1> QED
  BY <1>1, Invariance, StepIsHeapStep, PTL DEF Spec, HeapKept, Promise!Spec
=============================================================================
