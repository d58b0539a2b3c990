-------------------------- MODULE BlockchainProofs --------------------------
(***************************************************************************)
(* Facts about the operators of Blockchain on a `blocks` table whose       *)
(* numbers are bounded, as those of any table are.                         *)
(***************************************************************************)
EXTENDS Blockchain, WellFoundedInduction, TLAPS

\* The block numbers of a table have an upper bound.
Bounded(B) == \E m \in Nat : \A b \in B : b.number <= m

(* A non-empty bounded set of numbers has a greatest element.               *)
LEMMA GreatestNumber ==
    ASSUME NEW S \in SUBSET Nat, S # {}, NEW m \in Nat, \A x \in S : x <= m
    PROVE  \E x \in S : \A y \in S : y <= x
<1> DEFINE T == {k \in Nat : \A x \in S : x <= k}
<1>1. T # {} /\ T \subseteq Nat
  OBVIOUS
<1>2. PICK k \in T : \A y \in T : ~ (<<y, k>> \in OpToRel(<, Nat))
  BY <1>1, WFMin, NatLessThanWellFounded
<1>3. \A y \in T : ~ (y < k)
  BY <1>2 DEF OpToRel
<1>4. k \in S
  <2>1. SUFFICES ASSUME k \notin S PROVE FALSE
    OBVIOUS
  <2>2. PICK s \in S : s <= k
    OBVIOUS
  <2>3. k # 0
    BY <2>1, <2>2
  <2>4. \A x \in S : x <= k - 1
    BY <2>1
  <2>5. k - 1 \in T
    BY <2>3, <2>4
  <2>. QED BY <1>3, <2>5
<1>. QED BY <1>4

(* COALESCE(MAX(block_number), 0) is the number of a block of the table, or *)
(* 0, and no block is above it.                                             *)
LEMMA TipIsGreatest ==
    ASSUME NEW B \in SUBSET Block, Bounded(B)
    PROVE  /\ Tip(B) \in Nat
           /\ Tip(B) \in Numbers(B) \cup {0}
           /\ \A b \in B : b.number <= Tip(B)
<1>1. PICK m \in Nat : \A b \in B : b.number <= m
  BY DEF Bounded
<1>2. Numbers(B) \cup {0} \in SUBSET Nat
  BY DEF Numbers, Block
<1>3. \A x \in Numbers(B) \cup {0} : x <= m
  BY <1>1, <1>2 DEF Numbers
<1>4. \E x \in Numbers(B) \cup {0} : \A y \in Numbers(B) \cup {0} : y <= x
  BY <1>2, <1>3, GreatestNumber
<1>5. /\ Tip(B) \in Numbers(B) \cup {0}
      /\ \A k \in Numbers(B) : k <= Tip(B)
  BY <1>4 DEF Tip
<1>. QED BY <1>2, <1>5 DEF Numbers

(* A number that is taken is the number of the block found there.           *)
LEMMA BlockAtNumber ==
    ASSUME NEW B, NEW k \in Numbers(B)
    PROVE  BlockAt(B, k) \in B /\ BlockAt(B, k).number = k
BY DEF BlockAt, Numbers

(* The hash of a block is one of the hashes of the type.                    *)
LEMMA HashType ==
    ASSUME NEW k \in Nat, NEW s \in Stamp, NEW h \in Hash, NEW E \in SUBSET Event
    PROVE  compute_block_hash(k, s, h, E) \in Hash
BY DEF compute_block_hash, Hash, Body

(* No block's hash is the previous_hash of a first block.                   *)
LEMMA HashNotGenesis ==
    ASSUME NEW k \in Nat, NEW s \in Stamp, NEW h \in Hash, NEW E \in SUBSET Event
    PROVE  compute_block_hash(k, s, h, E) # Genesis
BY DEF compute_block_hash, Hash, Body, Genesis

LEMMA NewBlockType ==
    ASSUME NEW k \in Nat, NEW s \in Stamp, NEW h \in Hash, NEW E \in SUBSET Event
    PROVE  NewBlock(k, s, h, E) \in Block /\ HashOK(NewBlock(k, s, h, E))
BY HashType DEF NewBlock, Block, HashOK

(* The previous_hash the next block has to name.                            *)
LEMMA TipHashType ==
    ASSUME NEW B \in SUBSET Block, Bounded(B)
    PROVE  TipHash(B) \in Hash
<1>1. CASE B = {}
  BY <1>1 DEF TipHash, Genesis, Hash
<1>2. CASE B # {}
  <2>1. Tip(B) \in Numbers(B)
    <3>1. PICK b \in B : TRUE
      BY <1>2
    <3>2. b.number \in Nat /\ b.number <= Tip(B) /\ b.number \in Numbers(B)
      BY TipIsGreatest DEF Block, Numbers
    <3>. QED BY <3>2, TipIsGreatest
  <2>2. BlockAt(B, Tip(B)) \in Block
    BY <2>1, BlockAtNumber
  <2>. QED BY <1>2, <2>2 DEF TipHash, Block
<1>. QED BY <1>1, <1>2

(* A block more, or some blocks less, and the numbers are still bounded.    *)
LEMMA BoundedInsert ==
    ASSUME NEW B \in SUBSET Block, Bounded(B), NEW b \in Block
    PROVE  Bounded(B \cup {b})
<1>1. PICK m \in Nat : \A c \in B : c.number <= m
  BY DEF Bounded
<1>2. b.number \in Nat /\ \A c \in B : c.number \in Nat
  BY DEF Block
<1>3. CASE b.number <= m
  BY <1>1, <1>3 DEF Bounded
<1>4. CASE m <= b.number
  <2>1. \A c \in B \cup {b} : c.number <= b.number
    BY <1>1, <1>2, <1>4
  <2>. QED BY <1>2, <2>1 DEF Bounded
<1>. QED BY <1>2, <1>3, <1>4

LEMMA BoundedSubset ==
    ASSUME NEW B, Bounded(B), NEW C \in SUBSET B
    PROVE  Bounded(C)
BY DEF Bounded

-----------------------------------------------------------------------------
\* No two blocks of a table have the same number.
Unique(B) == \A b, c \in B : b.number = c.number => b = c

(* A linked table is unique, bounded, and ends at the highest of 1..k.      *)
LEMMA TipOfInterval ==
    ASSUME NEW B \in SUBSET Block, NEW k \in Nat, Numbers(B) = 1 .. k
    PROVE  Tip(B) = k /\ Bounded(B)
<1>1. \A b \in B : b.number <= k
  BY DEF Numbers
<1>2. Bounded(B)
  BY <1>1 DEF Bounded
<1>3. Tip(B) \in (1 .. k) \cup {0} /\ \A x \in 1 .. k : x <= Tip(B)
  <2>1. Tip(B) \in Numbers(B) \cup {0} /\ \A b \in B : b.number <= Tip(B)
    BY <1>2, TipIsGreatest
  <2>. QED BY <2>1 DEF Numbers
<1>. QED BY <1>2, <1>3

LEMMA LinkedFacts ==
    ASSUME NEW B \in SUBSET Block, Bounded(B), Linked(B)
    PROVE  /\ Unique(B)
           /\ Tip(B) \in Nat
           /\ Numbers(B) = 1 .. Tip(B)
           /\ \A b \in B : b.number \in 1 .. Tip(B)
           /\ B = {} => Tip(B) = 0
           /\ B # {} => Tip(B) \in Numbers(B) /\ TipHash(B) = BlockAt(B, Tip(B)).hash
           /\ Tip(B) = 0 => B = {} /\ TipHash(B) = Genesis
<1>1. Tip(B) \in Nat /\ Numbers(B) = 1 .. Tip(B) /\ Unique(B)
  BY TipIsGreatest DEF Linked, Contiguous, Unique
<1>2. \A b \in B : b.number \in 1 .. Tip(B)
  BY <1>1 DEF Numbers
<1>3. B = {} => Numbers(B) = {}
  BY DEF Numbers
<1>4. B = {} => Tip(B) = 0
  BY <1>1, <1>3
<1>. QED BY <1>1, <1>2, <1>4 DEF TipHash

LEMMA EmptyLinked == Linked({}) /\ Bounded({})
<1>1. Numbers({}) = 1 .. 0
  BY DEF Numbers
<1>2. Tip({}) = 0 /\ Bounded({})
  BY <1>1, TipOfInterval
<1>. QED BY <1>1, <1>2 DEF Linked, Contiguous

(* A block that names the hash of the highest one may be added on top.      *)
LEMMA LinkedAppend ==
    ASSUME NEW B \in SUBSET Block, Bounded(B), Linked(B), NEW b \in Block,
           HashOK(b), b.number = Tip(B) + 1, b.prev = TipHash(B)
    PROVE  Linked(B \cup {b})
<1>. DEFINE C == B \cup {b}
<1>1. /\ Tip(B) \in Nat
      /\ Numbers(B) = 1 .. Tip(B)
      /\ \A c \in B : c.number \in 1 .. Tip(B)
      /\ Unique(B)
  BY LinkedFacts
<1>2. Numbers(C) = 1 .. (Tip(B) + 1)
  <2>1. Numbers(C) = Numbers(B) \cup {Tip(B) + 1}
    BY DEF Numbers
  <2>2. \A t \in Nat : (1 .. t) \cup {t + 1} = 1 .. (t + 1)
    OBVIOUS
  <2>. HIDE DEF C
  <2>. QED BY <1>1, <2>1, <2>2
<1>3. Tip(C) = Tip(B) + 1
  BY <1>1, <1>2, TipOfInterval
<1>4. \A c, d \in C : c.number = d.number => c = d
  BY <1>1 DEF Unique
<1>5. \A c \in C : HashOK(c)
  BY DEF Linked
<1>6. ASSUME NEW c \in C, c.number = 1 PROVE c.prev = Genesis
  <2>1. CASE c \in B
    BY <1>6, <2>1 DEF Linked
  <2>2. CASE c = b
    BY <1>1, <1>6, <2>2, LinkedFacts
  <2>. QED BY <2>1, <2>2
<1>7. ASSUME NEW c \in C, NEW d \in C, d.number = c.number + 1 PROVE d.prev = c.hash
  <2>1. CASE c \in B /\ d \in B
    BY <1>7, <2>1 DEF Linked
  <2>2. CASE c = b
    BY <1>1, <1>7, <2>2
  <2>3. CASE c \in B /\ d = b
    <3>1. c.number = Tip(B) /\ B # {}
      BY <1>1, <1>7, <2>3
    <3>2. BlockAt(B, Tip(B)) = c
      BY <1>1, <2>3, <3>1, BlockAtNumber, LinkedFacts DEF Unique
    <3>. QED BY <2>3, <3>1, <3>2 DEF TipHash
  <2>. QED BY <2>1, <2>2, <2>3
<1>. QED BY <1>2, <1>3, <1>4, <1>5, <1>6, <1>7 DEF Linked, Contiguous

(* What is left of a linked table below some number is linked.              *)
LEMMA LinkedPrefix ==
    ASSUME NEW B \in SUBSET Block, Bounded(B), Linked(B), NEW k \in Nat
    PROVE  Linked({c \in B : c.number < k})
<1>. DEFINE C == {c \in B : c.number < k}
            m == IF k = 0 THEN 0 ELSE IF k - 1 <= Tip(B) THEN k - 1 ELSE Tip(B)
<1>1. /\ Tip(B) \in Nat
      /\ Numbers(B) = 1 .. Tip(B)
      /\ \A c \in B : c.number \in 1 .. Tip(B)
  BY LinkedFacts
<1>2. m \in Nat
  BY <1>1
<1>3. Numbers(C) = 1 .. m
  <2>1. Numbers(C) = {x \in Numbers(B) : x < k}
    BY DEF Numbers
  <2>2. {x \in 1 .. Tip(B) : x < k} = 1 .. m
    BY <1>1
  <2>. HIDE DEF C, m
  <2>. QED BY <1>1, <2>1, <2>2
<1>4. C \in SUBSET Block
  OBVIOUS
<1>. HIDE DEF m
<1>5. Tip(C) = m
  BY <1>2, <1>3, <1>4, TipOfInterval
<1>. QED BY <1>3, <1>5 DEF Linked, Contiguous

(* In a linked table only the first block names "0" as its previous hash.   *)
LEMMA GenesisIsFirst ==
    ASSUME NEW B \in SUBSET Block, Bounded(B), Linked(B), NEW b \in B, b.prev = Genesis
    PROVE  b.number = 1
<1>1. SUFFICES ASSUME b.number # 1 PROVE FALSE
  OBVIOUS
<1>2. b.number - 1 \in Numbers(B) /\ b.number \in Nat
  BY <1>1, LinkedFacts
<1>3. PICK c \in B : c.number = b.number - 1
  BY <1>2 DEF Numbers
<1>4. b.prev = c.hash /\ HashOK(c)
  BY <1>2, <1>3 DEF Linked
<1>. QED BY <1>4, HashNotGenesis DEF HashOK, Block

(* Equal hashes commit to equal blocks.                                     *)
LEMMA HashCommits ==
    ASSUME NEW b \in Block, NEW c \in Block, HashOK(b), HashOK(c), b.hash = c.hash
    PROVE  b = c
<1>. DEFINE x == [number |-> b.number, stamp |-> b.stamp, events |-> b.events]
            y == [number |-> c.number, stamp |-> c.stamp, events |-> c.events]
<1>1. b.prev \in Seq(Body) /\ c.prev \in Seq(Body) /\ x \in Body /\ y \in Body
  BY DEF Block, Hash, Body
<1>2. Append(b.prev, x) = Append(c.prev, y)
  BY DEF HashOK, compute_block_hash
<1>. HIDE DEF x, y
<1>3. b.prev = c.prev /\ x = y
  <2>1. Len(b.prev) = Len(c.prev)
    BY <1>1, <1>2
  <2>2. x = y
    BY <1>1, <1>2, <2>1
  <2>3. \A i \in 1 .. Len(b.prev) : b.prev[i] = c.prev[i]
    <3>1. TAKE i \in 1 .. Len(b.prev)
    <3>2. Append(b.prev, x)[i] = b.prev[i] /\ Append(c.prev, y)[i] = c.prev[i]
      BY <1>1, <2>1
    <3>. QED BY <1>2, <3>2
  <2>. QED BY <1>1, <2>1, <2>2, <2>3
<1>4. b.number = c.number /\ b.stamp = c.stamp /\ b.events = c.events
  BY <1>3 DEF x, y
<1>. QED BY <1>3, <1>4 DEF Block

(* Two linked tables that hold a common hash hold the same blocks below it: *)
(* by the least number at which they would differ.                          *)
LEMMA CommonHashCommonPrefix ==
    ASSUME NEW B \in SUBSET Block, Bounded(B), Linked(B),
           NEW C \in SUBSET Block, Bounded(C), Linked(C)
    PROVE  \A b \in B : b \in C => \A x \in B : x.number <= b.number => x \in C
<1>. DEFINE T == {k \in Nat : \E b \in B : /\ b.number = k /\ b \in C
                                         /\ \E x \in B : x.number <= k /\ x \notin C}
<1>1. SUFFICES ASSUME T # {} PROVE FALSE
  BY DEF Block
<1>2. PICK k \in T : \A j \in T : ~ (j < k)
  <2>1. PICK k \in T : \A j \in T : ~ (<<j, k>> \in OpToRel(<, Nat))
    BY <1>1, WFMin, NatLessThanWellFounded
  <2>. QED BY <2>1 DEF OpToRel
<1>3. PICK b \in B : b.number = k /\ b \in C /\ \E x \in B : x.number <= k /\ x \notin C
  OBVIOUS
<1>4. PICK x \in B : x.number <= k /\ x \notin C
  BY <1>3
<1>5. x.number \in 1 .. k - 1 /\ k \in Nat
  <2>1. x.number \in Nat /\ x.number >= 1 /\ k \in Nat
    BY LinkedFacts
  <2>2. x.number # k
    BY <1>3, <1>4, LinkedFacts DEF Unique
  <2>. QED BY <1>4, <2>1, <2>2
<1>6. k - 1 \in Numbers(B) /\ k - 1 \in Numbers(C)
  BY <1>3, <1>5, LinkedFacts
<1>7. PICK p \in B, q \in C : p.number = k - 1 /\ q.number = k - 1
  BY <1>6 DEF Numbers
<1>8. b.prev = p.hash /\ b.prev = q.hash /\ HashOK(p) /\ HashOK(q)
  BY <1>3, <1>5, <1>7 DEF Linked
<1>9. p = q
  BY <1>8, HashCommits
<1>10. k - 1 \in T
  BY <1>4, <1>5, <1>7, <1>9
<1>. QED BY <1>2, <1>5, <1>10

-----------------------------------------------------------------------------
(* A hash tells the whole chain below it: the blocks of a linked table are  *)
(* the entries of its highest hash.                                         *)
BodyOf(b) == [number |-> b.number, stamp |-> b.stamp, events |-> b.events]

LEMMA HashEntries ==
    ASSUME NEW b \in Block, HashOK(b)
    PROVE  /\ Len(b.hash) = Len(b.prev) + 1
           /\ Len(b.prev) \in Nat /\ DOMAIN b.prev = 1 .. Len(b.prev)
           /\ DOMAIN b.hash = 1 .. Len(b.hash)
           /\ b.hash[Len(b.hash)] = BodyOf(b)
           /\ \A i \in DOMAIN b.prev : b.hash[i] = b.prev[i]
<1>. DEFINE h == b.prev
            x == BodyOf(b)
<1>1. h \in Seq(Body) /\ x \in Body
  BY DEF Block, Hash, Body, BodyOf
<1>2. b.hash = Append(h, x)
  BY DEF HashOK, compute_block_hash, BodyOf
<1>. HIDE DEF h, x
<1>3. /\ Len(Append(h, x)) = Len(h) + 1
      /\ Append(h, x)[Len(h) + 1] = x
      /\ \A i \in 1 .. Len(h) : Append(h, x)[i] = h[i]
      /\ Len(h) \in Nat /\ DOMAIN h = 1 .. Len(h)
      /\ DOMAIN Append(h, x) = 1 .. Len(h) + 1
  BY <1>1
<1>. QED BY <1>2, <1>3 DEF h, x

LEMMA HashOfLinked ==
    ASSUME NEW B \in SUBSET Block, Bounded(B), Linked(B)
    PROVE  \A b \in B : /\ Len(b.hash) = b.number
                        /\ \A c \in B : c.number <= b.number => b.hash[c.number] = BodyOf(c)
<1>. DEFINE Told(b) == /\ Len(b.hash) = b.number
                       /\ \A c \in B : c.number <= b.number => b.hash[c.number] = BodyOf(c)
            T == {k \in Nat : \E b \in B : b.number = k /\ ~Told(b)}
<1>1. SUFFICES ASSUME T # {} PROVE FALSE
  BY DEF Block
<1>2. PICK k \in T : \A j \in T : ~ (j < k)
  <2>1. T \subseteq Nat
    OBVIOUS
  <2>2. \E k \in T : \A j \in T : ~ (<<j, k>> \in OpToRel(<, Nat))
    <3>. HIDE DEF T
    <3>. QED BY <1>1, <2>1, WFMin, NatLessThanWellFounded
  <2>3. PICK k \in T : \A j \in T : ~ (<<j, k>> \in OpToRel(<, Nat))
    BY <2>2
  <2>4. \A j \in T : ~ (j < k)
    BY <2>3 DEF OpToRel
  <2>. HIDE DEF T
  <2>. QED BY <2>4
<1>3. PICK b \in B : b.number = k /\ ~Told(b)
  OBVIOUS
<1>4. HashOK(b) /\ b \in Block /\ Unique(B) /\ k \in 1 .. Tip(B) /\ Tip(B) \in Nat
  BY <1>3, LinkedFacts DEF Linked
<1>5. CASE k = 1
  <2>1. Len(b.prev) = 0
    BY <1>3, <1>5 DEF Linked, Genesis
  <2>2. \A c \in B : c.number <= b.number => c = b
    BY <1>3, <1>4, <1>5, LinkedFacts DEF Unique
  <2>. QED BY <1>3, <1>4, <1>5, <2>1, <2>2, HashEntries
<1>6. CASE k # 1
  <2>1. k - 1 \in Numbers(B)
    BY <1>4, <1>6, LinkedFacts
  <2>2. PICK p \in B : p.number = k - 1
    BY <2>1 DEF Numbers
  <2>3. b.prev = p.hash
    BY <1>3, <1>4, <2>2 DEF Linked
  <2>4. Told(p)
    <3>1. k - 1 \in Nat /\ k - 1 < k
      BY <1>4
    <3>. QED BY <1>2, <2>2, <3>1
  <2>5. Len(b.prev) = k - 1
    BY <2>2, <2>3, <2>4
  <2>6. ASSUME NEW c \in B, c.number <= b.number PROVE b.hash[c.number] = BodyOf(c)
    <3>1. c.number \in 1 .. Tip(B)
      BY LinkedFacts
    <3>2. CASE c.number = k
      <4>1. c = b
        BY <1>3, <1>4, <3>2 DEF Unique
      <4>. QED BY <1>4, <2>5, <3>2, <4>1, HashEntries
    <3>3. CASE c.number # k
      <4>1. c.number <= p.number /\ c.number \in 1 .. k - 1
        BY <1>3, <1>4, <2>2, <2>6, <3>1, <3>3
      <4>. QED BY <1>4, <2>3, <2>4, <2>5, <4>1, HashEntries
    <3>. QED BY <3>2, <3>3
  <2>7. Len(b.hash) = k
    BY <1>4, <2>5, HashEntries
  <2>. QED BY <1>3, <2>6, <2>7
<1>. QED BY <1>5, <1>6

\* No event is in two entries of a hash.
Unrepeated(h) == \A i, j \in DOMAIN h : i # j => h[i].events \cap h[j].events = {}

(* Then it is in one block of a linked table at most.                       *)
LEMMA OneBlockEach ==
    ASSUME NEW B \in SUBSET Block, Bounded(B), Linked(B), \A b \in B : Unrepeated(b.hash)
    PROVE  \A b, c \in B : b # c => b.events \cap c.events = {}
<1>1. ASSUME NEW b \in B, NEW c \in B, c.number < b.number
      PROVE  b.events \cap c.events = {}
  <2>1. b.hash[c.number] = BodyOf(c) /\ b.hash[b.number] = BodyOf(b) /\ Len(b.hash) = b.number
    BY <1>1, HashOfLinked DEF Block
  <2>2. c.number \in 1 .. b.number /\ b.number \in 1 .. b.number
    BY <1>1, LinkedFacts
  <2>3. DOMAIN b.hash = 1 .. b.number
    BY <2>1, HashEntries DEF Linked
  <2>. QED BY <1>1, <2>1, <2>2, <2>3 DEF Unrepeated, BodyOf
<1>2. Unique(B) /\ \A b \in B : b.number \in Nat
  BY LinkedFacts DEF Block
<1>. QED BY <1>1, <1>2 DEF Unique

(* A block of new events on top of a linked table repeats none.             *)
LEMMA UnrepeatedOnTop ==
    ASSUME NEW B \in SUBSET Block, Bounded(B), Linked(B), \A c \in B : Unrepeated(c.hash),
           NEW b \in Block, HashOK(b), b.prev = TipHash(B), b.events \cap Events(B) = {}
    PROVE  Unrepeated(b.hash)
<1>1. CASE B = {}
  <2>1. Len(b.prev) = 0
    BY <1>1 DEF TipHash, Genesis
  <2>2. DOMAIN b.hash = {1}
    BY <2>1, HashEntries
  <2>. QED BY <2>2 DEF Unrepeated
<1>2. CASE B # {}
  <2>. DEFINE k == Tip(B)
  <2>1. PICK c \in B : c.number = k /\ b.prev = c.hash
    <3>1. k \in Numbers(B) /\ TipHash(B) = BlockAt(B, k).hash
      BY <1>2, LinkedFacts
    <3>. QED BY <3>1, BlockAtNumber
  <2>2. Len(b.prev) = k /\ k \in Nat
    BY <2>1, HashOfLinked, LinkedFacts
  <2>3. /\ DOMAIN b.hash = 1 .. k + 1 /\ b.hash[k + 1] = BodyOf(b) /\ DOMAIN b.prev = 1 .. k
        /\ \A i \in 1 .. k : b.hash[i] = b.prev[i]
    BY <2>2, HashEntries
  <2>4. ASSUME NEW i \in 1 .. k PROVE b.hash[i].events \subseteq Events(B)
    <3>1. i \in Numbers(B)
      BY LinkedFacts
    <3>2. PICK d \in B : d.number = i
      BY <3>1 DEF Numbers
    <3>3. c.hash[i] = BodyOf(d)
      BY <2>1, <2>2, <3>2, HashOfLinked
    <3>. QED BY <2>1, <2>3, <3>3 DEF BodyOf, Events
  <2>5. ASSUME NEW i \in 1 .. k PROVE b.hash[i].events \cap b.hash[k + 1].events = {}
    BY <2>3, <2>4 DEF BodyOf
  <2>6. Unrepeated(c.hash)
    OBVIOUS
  <2>. HIDE DEF k
  <2>7. ASSUME NEW i \in 1 .. k, NEW j \in 1 .. k, i # j
        PROVE  b.hash[i].events \cap b.hash[j].events = {}
    BY <2>1, <2>3, <2>6, <2>7 DEF Unrepeated
  <2>. QED BY <2>2, <2>3, <2>5, <2>7 DEF Unrepeated
<1>. QED BY <1>1, <1>2
=============================================================================
