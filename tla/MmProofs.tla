------------------------------ MODULE MmProofs ------------------------------
(***************************************************************************)
(* Proofs about Pmm and Mm, for every memory size and every MAX_ORDER: the *)
(* frame allocator under arbitrary callers, then its boot and the callers  *)
(* that free what they were given, for every memory map.                   *)
(***************************************************************************)
EXTENDS Mm, FiniteSetTheorems, WellFoundedInduction, TLAPS

\* Zenon proves the leaves that name no prover.
USE ZenonT(60)

(***************************************************************************)
(* Arithmetic of aligned blocks.                                           *)
(***************************************************************************)
\* A number is a multiple of P exactly when some quotient says so.
LEMMA Multiple ==
  ASSUME NEW f \in Nat, NEW P \in Nat \ {0}
  PROVE  f % P = 0 <=> \E q \in Nat : f = q * P
<1>1. ASSUME f % P = 0 PROVE \E q \in Nat : f = q * P
  <2>1. f = P * (f \div P) + (f % P)
    BY SMTT(60)
  <2>2. f \div P \in Nat
    BY SMTT(60)
  <2>3. f = (f \div P) * P
    BY SMTT(60), <1>1, <2>1, <2>2
  <2> QED BY <2>2, <2>3
<1>2. ASSUME NEW q \in Nat, f = q * P PROVE f % P = 0
  <2>1. (q * P) % P = 0
    BY SMTT(60)
  <2> QED BY <1>2, <2>1
<1> QED BY <1>1, <1>2

\* Two aligned blocks of one size that share a frame are the same block.
LEMMA SharedFrame ==
  ASSUME NEW P \in Nat \ {0}, NEW f \in Nat, NEW h \in Nat, NEW g \in Int,
         f % P = 0, h % P = 0,
         f <= g, g < f + P, h <= g, g < h + P
  PROVE  f = h
<1>1. PICK a \in Nat : f = a * P
  BY Multiple
<1>2. PICK b \in Nat : h = b * P
  BY Multiple
<1>3. ASSUME a < b PROVE FALSE
  <2>1. b * P >= (a + 1) * P
    BY SMTT(60), <1>3
  <2>2. (a + 1) * P = a * P + P
    BY SMTT(60)
  <2> QED BY SMTT(60), <1>1, <1>2, <2>1, <2>2
<1>4. ASSUME b < a PROVE FALSE
  <2>1. a * P >= (b + 1) * P
    BY SMTT(60), <1>4
  <2>2. (b + 1) * P = b * P + P
    BY SMTT(60)
  <2> QED BY SMTT(60), <1>1, <1>2, <2>1, <2>2
<1>5. a = b
  BY SMTT(60), <1>3, <1>4
<1> QED BY <1>1, <1>2, <1>5

\* The lower half of a block of size 2P, and where its upper half starts.
LEMMA LowerHalf ==
  ASSUME NEW P \in Nat \ {0}, NEW f \in Nat, f % (2 * P) = 0
  PROVE  f % P = 0 /\ (f + P) % P = 0 /\ (f + P) % (2 * P) # 0
<1>1. PICK q \in Nat : f = q * (2 * P)
  BY SMTT(60), Multiple, 2 * P \in Nat \ {0}
<1>2. f = (2 * q) * P /\ f + P = (2 * q + 1) * P
  BY SMTT(60), <1>1
<1>3. f % P = 0 /\ (f + P) % P = 0
  BY SMTT(60), <1>2, Multiple, 2 * q \in Nat, 2 * q + 1 \in Nat, f + P \in Nat
<1>4. ASSUME (f + P) % (2 * P) = 0 PROVE FALSE
  <2>1. 2 * P \in Nat \ {0} /\ f + P \in Nat
    BY SMTT(60)
  <2>2. f + P = f
    <3>1. f <= f + P /\ f + P < f + 2 * P /\ f + P <= f + P /\ f + P < f + P + 2 * P
      BY SMTT(60)
    <3> QED BY SMTT(60), <1>4, <2>1, <3>1, SharedFrame
  <2> QED BY SMTT(60), <2>2
<1> QED BY <1>3, <1>4

\* The upper half of a block of size 2P starts P above an aligned frame.
LEMMA UpperHalf ==
  ASSUME NEW P \in Nat \ {0}, NEW f \in Nat, f % P = 0, f % (2 * P) # 0
  PROVE  f >= P /\ (f - P) % (2 * P) = 0 /\ (f - P) % P = 0
<1>1. PICK q \in Nat : f = q * P
  BY Multiple
<1>2. q = 2 * (q \div 2) + (q % 2) /\ q \div 2 \in Nat /\ q % 2 \in {0, 1}
  BY SMTT(60)
<1> DEFINE r == q \div 2
<1> HIDE DEF r
<1>3. q % 2 # 0
  <2> SUFFICES ASSUME q % 2 = 0 PROVE FALSE
    OBVIOUS
  <2>1. q = 2 * r /\ r \in Nat
    BY SMTT(60), <1>2 DEF r
  <2>2. f = r * (2 * P)
    BY SMTT(60), <1>1, <2>1
  <2>3. f % (2 * P) = 0
    BY SMTT(60), <2>1, <2>2, Multiple, 2 * P \in Nat \ {0}
  <2> QED BY <2>3
<1>4. q = 2 * r + 1 /\ r \in Nat
  BY <1>2, <1>3 DEF r
<1>5. f - P = r * (2 * P) /\ f - P \in Nat /\ f >= P
  BY SMTT(60), <1>1, <1>4
<1>6. (f - P) % (2 * P) = 0
  BY SMTT(60), <1>4, <1>5, Multiple, 2 * P \in Nat \ {0}
<1>7. (f - P) % P = 0
  BY <1>5, <1>6, LowerHalf
<1> QED BY <1>5, <1>6, <1>7

-----------------------------------------------------------------------------
(***************************************************************************)
(* Blocks, buddies and halves.                                             *)
(***************************************************************************)
\* The sizes of the orders the allocator uses.
LEMMA Sizes ==
  /\ MAX_ORDER \in Nat /\ MAX_ORDER < ORDER_NONE /\ TotalFrames \in Nat
  /\ Orders \subseteq Nat /\ Frames \subseteq Nat
  /\ \A k \in Orders : 2^k \in Nat \ {0} /\ 2^(k + 1) = 2 * 2^k
BY SMTT(60), PmmAssumption, PowersOfTwo DEF Orders, Frames, ORDER_NONE

\* Two aligned blocks of the same order that share a frame are the same.
LEMMA SameBlock ==
  ASSUME NEW k \in Orders, NEW f \in Nat, NEW h \in Nat, NEW g,
         Aligned(f, k), Aligned(h, k), g \in Block(f, k), g \in Block(h, k)
  PROVE  f = h
<1>1. 2^k \in Nat \ {0}
  BY Sizes
<1>2. g \in Int /\ f <= g /\ g < f + 2^k /\ h <= g /\ g < h + 2^k
  BY SMTT(60), <1>1 DEF Block
<1> QED BY <1>1, <1>2, SharedFrame DEF Aligned

\* A frame aligned to order k and its buddy are the halves of Merged.
LEMMA Buddies ==
  ASSUME NEW k \in Orders, k < MAX_ORDER, NEW f \in Nat, Aligned(f, k)
  PROVE  /\ Buddy(f, k) \in Nat /\ Aligned(Buddy(f, k), k)
         /\ Buddy(f, k) # f /\ Buddy(Buddy(f, k), k) = f
         /\ Merged(f, k) \in Nat /\ Aligned(Merged(f, k), k + 1)
         /\ Merged(f, k) \in {f, Buddy(f, k)}
         /\ Block(Merged(f, k), k + 1) = Block(f, k) \cup Block(Buddy(f, k), k)
<1>1. 2^k \in Nat \ {0} /\ 2^(k + 1) = 2 * 2^k /\ k \in Nat
  BY Sizes
<1> DEFINE P == 2^k
<1>2. P \in Nat \ {0} /\ 2^(k + 1) = 2 * P
  BY <1>1
<1>3. CASE Aligned(f, k + 1)
  <2>1. f % (2 * P) = 0
    BY <1>2, <1>3 DEF Aligned
  <2>2. (f + P) % P = 0 /\ (f + P) % (2 * P) # 0
    BY <1>2, <2>1, LowerHalf
  <2>3. Buddy(f, k) = f + P /\ Merged(f, k) = f
    BY <1>3 DEF Buddy, Merged
  <2>4. ~Aligned(f + P, k + 1)
    BY <1>2, <2>2 DEF Aligned
  <2>5. Buddy(f + P, k) = f
    BY SMTT(60), <1>2, <2>4 DEF Buddy
  <2>6. Block(f, k + 1) = Block(f, k) \cup Block(f + P, k)
    BY SMTT(60), <1>2 DEF Block
  <2>7. Aligned(f + P, k)
    BY <2>2 DEF Aligned
  <2> HIDE DEF P
  <2> QED BY SMTT(60), <1>2, <1>3, <2>3, <2>5, <2>6, <2>7
<1>4. CASE ~Aligned(f, k + 1)
  <2>1. f % (2 * P) # 0 /\ f % P = 0
    BY <1>2, <1>4 DEF Aligned
  <2>2. f >= P /\ (f - P) % (2 * P) = 0 /\ (f - P) % P = 0
    BY <1>2, <2>1, UpperHalf
  <2>3. Buddy(f, k) = f - P /\ Merged(f, k) = f - P
    BY <1>4 DEF Buddy, Merged
  <2>4. Aligned(f - P, k + 1) /\ Aligned(f - P, k)
    BY <1>2, <2>2 DEF Aligned
  <2>5. Buddy(f - P, k) = f
    BY SMTT(60), <1>2, <2>4 DEF Buddy
  <2>6. Block(f - P, k + 1) = Block(f, k) \cup Block(f - P, k)
    BY SMTT(60), <1>2, <2>2 DEF Block
  <2>7. f - P \in Nat
    BY SMTT(60), <1>2, <2>2
  <2> HIDE DEF P
  <2> QED BY SMTT(60), <1>2, <2>3, <2>4, <2>5, <2>6, <2>7
<1> QED BY <1>3, <1>4

\* The two halves of an aligned block of order k + 1.
LEMMA HalvesOf ==
  ASSUME NEW k \in Orders, k < MAX_ORDER, NEW f \in Nat, Aligned(f, k + 1)
  PROVE  /\ Aligned(f, k) /\ Aligned(f + 2^k, k)
         /\ Buddy(f + 2^k, k) = f
         /\ Block(f, k + 1) = Block(f, k) \cup Block(f + 2^k, k)
         /\ Block(f, k) \cap Block(f + 2^k, k) = {}
<1>1. 2^k \in Nat \ {0} /\ 2^(k + 1) = 2 * 2^k /\ k \in Nat
  BY Sizes
<1>2. f % (2 * 2^k) = 0
  BY <1>1 DEF Aligned
<1>3. f % 2^k = 0 /\ (f + 2^k) % 2^k = 0 /\ (f + 2^k) % (2 * 2^k) # 0
  BY <1>1, <1>2, LowerHalf
<1>4. Aligned(f, k) /\ Aligned(f + 2^k, k) /\ ~Aligned(f + 2^k, k + 1)
  BY <1>1, <1>3 DEF Aligned
<1>5. Buddy(f + 2^k, k) = f
  BY SMTT(60), <1>1, <1>4 DEF Buddy
<1>6. Block(f, k + 1) = Block(f, k) \cup Block(f + 2^k, k)
  BY SMTT(60), <1>1 DEF Block
<1>7. Block(f, k) \cap Block(f + 2^k, k) = {}
  BY SMTT(60), <1>1 DEF Block
<1> QED BY <1>4, <1>5, <1>6, <1>7

\* What a block is made of.
LEMMA BlockFacts ==
  ASSUME NEW k \in Orders, NEW f \in Nat
  PROVE  /\ f \in Block(f, k)
         /\ Block(f, k) \subseteq Nat
         /\ IsFiniteSet(Block(f, k)) /\ Cardinality(Block(f, k)) = 2^k
         /\ Block(f, k) \subseteq Frames <=> f + 2^k <= TotalFrames
<1>1. 2^k \in Nat \ {0} /\ TotalFrames \in Nat
  BY Sizes
<1>2. f \in Block(f, k) /\ Block(f, k) \subseteq Nat
  BY SMTT(60), <1>1 DEF Block
<1>3. IsFiniteSet(Block(f, k)) /\ Cardinality(Block(f, k)) = 2^k
  <2> DEFINE b == f + 2^k - 1
  <2>1. f \in Int /\ b \in Int /\ ~(f > b) /\ b - f + 1 = 2^k
    BY SMTT(60), <1>1
  <2>2. IsFiniteSet(f..b) /\ Cardinality(f..b) = IF f > b THEN 0 ELSE b - f + 1
    BY <2>1, FS_Interval
  <2> QED BY <2>1, <2>2 DEF Block
<1>4. Block(f, k) \subseteq Frames <=> f + 2^k <= TotalFrames
  <2>1. ASSUME f + 2^k <= TotalFrames PROVE Block(f, k) \subseteq Frames
    BY SMTT(60), <1>1, <2>1 DEF Block, Frames
  <2>2. ASSUME Block(f, k) \subseteq Frames PROVE f + 2^k <= TotalFrames
    <3>1. f + 2^k - 1 \in Block(f, k)
      BY SMTT(60), <1>1 DEF Block
    <3> QED BY SMTT(60), <1>1, <2>2, <3>1 DEF Frames
  <2> QED BY <2>1, <2>2
<1> QED BY <1>2, <1>3, <1>4

-----------------------------------------------------------------------------
(***************************************************************************)
(* What list_push and list_remove do to the blocks and to the lists.       *)
(***************************************************************************)
ListTypes ==
  /\ free_lists \in [Orders -> Frames \cup {None}]
  /\ prev \in [Frames -> Frames \cup {None, Junk}]
  /\ next \in [Frames -> Frames \cup {None, Junk}]
  /\ frame_order \in [Frames -> Orders \cup {ORDER_NONE}]

\* Pushing an unused aligned block adds that block and changes no other.
LEMMA PushBlocks ==
  ASSUME ListTypes, WholeBlocks, NEW k \in Orders, NEW f \in Frames,
         Aligned(f, k), block_unused(f, k), list_push(f, k)
  PROVE  /\ ListTypes' /\ WholeBlocks'
         /\ Listed' = Listed \cup Block(f, k)
         /\ \A h \in Frames, j \in Orders :
              FreeBlock(h, j)' <=> FreeBlock(h, j) \/ (h = f /\ j = k)
<1>1. ORDER_NONE \notin Orders /\ f \in Nat /\ Frames \subseteq Nat
  BY SMTT(60), Sizes DEF Orders
<1>2. /\ frame_order' = [g \in Frames |-> IF g \in Block(f, k) THEN k ELSE frame_order[g]]
      /\ \A g \in Block(f, k) : g \in Frames /\ frame_order[g] = ORDER_NONE
  BY DEF list_push, set_block_order, block_unused
<1>3. ListTypes'
  BY <1>2 DEF ListTypes, list_push
<1>4. \A h \in Frames, j \in Orders :
        FreeBlock(h, j)' <=> FreeBlock(h, j) \/ (h = f /\ j = k)
  <2> SUFFICES ASSUME NEW h \in Frames, NEW j \in Orders
               PROVE  FreeBlock(h, j)' <=> FreeBlock(h, j) \/ (h = f /\ j = k)
    OBVIOUS
  <2>1. CASE h \in Block(f, k)
    <3>1. Aligned(h, k) => h = f
      BY <1>1, <2>1, SameBlock, BlockFacts
    <3> QED BY <1>1, <1>2, <2>1, <3>1 DEF FreeBlock
  <2>2. CASE h \notin Block(f, k)
    <3>1. h # f
      BY <1>1, <2>2, BlockFacts
    <3> QED BY <1>2, <2>2, <3>1 DEF FreeBlock
  <2> QED BY <2>1, <2>2
<1>5. Listed' = Listed \cup Block(f, k)
  BY <1>1, <1>2 DEF Listed
<1>6. WholeBlocks'
  <2>1. ASSUME NEW h \in Frames, NEW j \in Orders, FreeBlock(h, j)',
               NEW g \in Block(h, j)
        PROVE  g \in Frames /\ frame_order'[g] = j
    <3>1. CASE h = f /\ j = k
      BY <1>2, <3>1
    <3>2. CASE FreeBlock(h, j)
      <4>1. g \in Frames /\ frame_order[g] = j
        BY <3>2 DEF WholeBlocks
      <4> QED BY <1>1, <1>2, <4>1
    <3> QED BY <1>4, <2>1, <3>1, <3>2
  <2>2. ASSUME NEW g \in Listed'
        PROVE  \E h \in Frames : frame_order'[h] = frame_order'[g]
                 /\ Aligned(h, frame_order'[g])
                 /\ g \in Block(h, frame_order'[g])
    <3>1. CASE g \in Block(f, k)
      <4>1. f \in Block(f, k)
        BY <1>1, BlockFacts
      <4> QED BY <1>2, <3>1, <4>1
    <3>2. CASE g \notin Block(f, k)
      <4>1. g \in Listed /\ g \in Frames /\ frame_order'[g] = frame_order[g]
        BY <1>2, <1>5, <2>2, <3>2 DEF Listed
      <4>2. PICK h \in Frames : FreeBlock(h, frame_order[g])
                                 /\ g \in Block(h, frame_order[g])
        BY <4>1 DEF WholeBlocks
      <4>3. frame_order[g] \in Orders
        BY <4>1 DEF Listed, ListTypes
      <4>4. FreeBlock(h, frame_order[g])'
        <5> DEFINE j == frame_order[g]
        <5>1. j \in Orders /\ FreeBlock(h, j)
          BY <4>2, <4>3
        <5>2. frame_order'[h] = j /\ Aligned(h, j)
          <6> HIDE DEF j
          <6> QED BY <1>4, <5>1 DEF FreeBlock
        <5> QED BY <4>1, <5>2 DEF FreeBlock
      <4> QED BY <4>1, <4>2, <4>4 DEF FreeBlock
    <3> QED BY <3>1, <3>2
  <2> QED BY <2>1, <2>2 DEF WholeBlocks, FreeBlock
<1> QED BY <1>3, <1>4, <1>5, <1>6

\* Removing a free block takes that block away and changes no other.
LEMMA RemoveBlocks ==
  ASSUME ListTypes, WholeBlocks, Linked, NEW k \in Orders, NEW f \in Frames,
         FreeBlock(f, k), list_remove(f, k)
  PROVE  /\ ListTypes' /\ WholeBlocks'
         /\ Block(f, k) \subseteq Listed
         /\ Listed' = Listed \ Block(f, k)
         /\ block_unused(f, k)'
         /\ \A h \in Frames, j \in Orders :
              FreeBlock(h, j)' <=> FreeBlock(h, j) /\ h # f
<1>1. ORDER_NONE \notin Orders /\ f \in Nat /\ Frames \subseteq Nat
  BY SMTT(60), Sizes DEF Orders
<1>2. /\ frame_order' = [g \in Frames |-> IF g \in Block(f, k) THEN ORDER_NONE
                                         ELSE frame_order[g]]
      /\ \A g \in Block(f, k) : g \in Frames /\ frame_order[g] = k
      /\ Aligned(f, k)
  BY DEF list_remove, set_block_order, WholeBlocks, FreeBlock
<1>3. ListTypes'
  <2>1. prev[f] \in Frames \cup {None} /\ next[f] \in Frames \cup {None}
    BY DEF Linked
  <2> QED BY <1>2, <2>1 DEF ListTypes, list_remove
<1>4. \A h \in Frames, j \in Orders :
        FreeBlock(h, j)' <=> FreeBlock(h, j) /\ h # f
  <2> SUFFICES ASSUME NEW h \in Frames, NEW j \in Orders
               PROVE  FreeBlock(h, j)' <=> FreeBlock(h, j) /\ h # f
    OBVIOUS
  <2>1. CASE h \in Block(f, k)
    <3>1. Aligned(h, k) => h = f
      BY <1>1, <1>2, <2>1, SameBlock, BlockFacts
    <3> QED BY <1>1, <1>2, <2>1, <3>1 DEF FreeBlock
  <2>2. CASE h \notin Block(f, k)
    <3>1. h # f
      BY <1>1, <2>2, BlockFacts
    <3> QED BY <1>2, <2>2, <3>1 DEF FreeBlock
  <2> QED BY <2>1, <2>2
<1>5. Listed' = Listed \ Block(f, k) /\ Block(f, k) \subseteq Listed
  BY <1>1, <1>2 DEF Listed
<1>6. WholeBlocks'
  <2>1. ASSUME NEW h \in Frames, NEW j \in Orders, FreeBlock(h, j)',
               NEW g \in Block(h, j)
        PROVE  g \in Frames /\ frame_order'[g] = j
    <3>1. FreeBlock(h, j) /\ h # f
      BY <1>4, <2>1
    <3>2. g \in Frames /\ frame_order[g] = j /\ Aligned(h, j)
      BY SMTT(60), <3>1 DEF WholeBlocks, FreeBlock
    <3>3. g \notin Block(f, k)
      BY <1>1, <1>2, <3>1, <3>2, SameBlock
    <3> QED BY <1>2, <3>2, <3>3
  <2>2. ASSUME NEW g \in Listed'
        PROVE  \E h \in Frames : frame_order'[h] = frame_order'[g]
                 /\ Aligned(h, frame_order'[g])
                 /\ g \in Block(h, frame_order'[g])
    <3>1. /\ g \in Listed /\ g \in Frames /\ g \notin Block(f, k)
          /\ frame_order'[g] = frame_order[g]
      BY <1>2, <1>5, <2>2 DEF Listed
    <3>2. PICK h \in Frames : FreeBlock(h, frame_order[g])
                               /\ g \in Block(h, frame_order[g])
      BY <3>1 DEF WholeBlocks
    <3>3. h \notin Block(f, k)
      <4>1. SUFFICES ASSUME h \in Block(f, k) PROVE FALSE
        OBVIOUS
      <4>2. frame_order[g] = k /\ Aligned(h, k)
        BY <1>2, <3>2, <4>1 DEF FreeBlock
      <4>3. h = f
        BY <1>1, <1>2, <4>1, <4>2, SameBlock, BlockFacts
      <4> QED BY <3>1, <3>2, <4>2, <4>3
    <3> QED BY <1>2, <3>1, <3>2, <3>3 DEF FreeBlock
  <2> QED BY <2>1, <2>2 DEF WholeBlocks, FreeBlock
<1>7. block_unused(f, k)'
  BY <1>2 DEF block_unused
<1> QED BY <1>3, <1>4, <1>5, <1>6, <1>7

\* What Linked says of the neighbours of one free block.
LEMMA Neighbours ==
  ASSUME ListTypes, Linked, NEW h \in Frames, NEW j \in Orders, FreeBlock(h, j)
  PROVE  /\ \/ prev[h] = None /\ free_lists[j] = h
            \/ prev[h] \in Frames /\ FreeBlock(prev[h], j) /\ next[prev[h]] = h
         /\ \/ next[h] = None
            \/ next[h] \in Frames /\ FreeBlock(next[h], j) /\ prev[next[h]] = h
BY DEF Linked

\* Pushing a block at the head keeps the lists linked.
LEMMA PushLinked ==
  ASSUME ListTypes, WholeBlocks, Linked, NEW k \in Orders, NEW f \in Frames,
         Aligned(f, k), block_unused(f, k), list_push(f, k)
  PROVE  Linked'
<1>1. ORDER_NONE \notin Orders /\ None \notin Frames
  BY SMTT(60), Sizes DEF Orders, None, Frames
<1>2. /\ free_lists' = [free_lists EXCEPT ![k] = f]
      /\ prev' = [g \in Frames |-> IF g = f THEN None
                                   ELSE IF g = free_lists[k] THEN f ELSE prev[g]]
      /\ next' = [next EXCEPT ![f] = free_lists[k]]
  BY DEF list_push
<1>3. \A h \in Frames, j \in Orders :
        FreeBlock(h, j)' <=> FreeBlock(h, j) \/ (h = f /\ j = k)
  BY PushBlocks
<1>4. \A j \in Orders : ~FreeBlock(f, j)
  <2>1. f \in Nat
    BY Sizes
  <2>2. f \in Block(f, k)
    BY <2>1, BlockFacts
  <2> QED BY <1>1, <2>2 DEF block_unused, FreeBlock
<1> DEFINE Fb(h, j) == frame_order'[h] = j /\ Aligned(h, j)
<1>5. \A h \in Frames, j \in Orders : Fb(h, j) <=> FreeBlock(h, j) \/ (h = f /\ j = k)
  BY <1>3 DEF FreeBlock
<1>6. \A h \in Frames, i, j \in Orders : FreeBlock(h, i) /\ FreeBlock(h, j) => i = j
  BY DEF FreeBlock
<1>7. free_lists[k] = None \/ (free_lists[k] \in Frames /\ FreeBlock(free_lists[k], k)
                                /\ prev[free_lists[k]] = None)
  BY SMTT(60) DEF Linked, ListTypes
<1>8. ASSUME NEW j \in Orders, free_lists'[j] # None
      PROVE  Fb(free_lists'[j], j) /\ prev'[free_lists'[j]] = None
  <2>1. CASE j = k
    <3>1. free_lists'[j] = f /\ prev'[f] = None
      BY <1>2, <2>1 DEF ListTypes
    <3>2. Fb(f, j)
      BY <1>5, <2>1
    <3> QED BY <3>1, <3>2
  <2>2. CASE j # k
    <3>1. PICK h \in Frames : free_lists'[j] = h /\ h = free_lists[j]
                              /\ FreeBlock(h, j) /\ prev[h] = None
      BY SMTT(60), <1>2, <1>8, <2>2 DEF Linked, ListTypes
    <3>2. h # f /\ h # free_lists[k]
      BY <1>1, <1>4, <1>6, <1>7, <2>2, <3>1
    <3>3. Fb(h, j)
      BY <1>5, <3>1
    <3> QED BY <1>2, <3>1, <3>2, <3>3
  <2> QED BY <2>1, <2>2
<1>9. ASSUME NEW h \in Frames, NEW j \in Orders, Fb(h, j)
      PROVE  /\ \/ prev'[h] = None /\ free_lists'[j] = h
                \/ prev'[h] \in Frames /\ Fb(prev'[h], j) /\ next'[prev'[h]] = h
             /\ \/ next'[h] = None
                \/ next'[h] \in Frames /\ Fb(next'[h], j) /\ prev'[next'[h]] = h
  <2>1. CASE h = f
    <3>1. j = k /\ prev'[h] = None /\ free_lists'[j] = h /\ next'[h] = free_lists[k]
      BY <1>2, <1>4, <1>5, <1>9, <2>1 DEF ListTypes
    <3>2. CASE free_lists[k] = None
      BY <3>1, <3>2
    <3>3. CASE free_lists[k] \in Frames /\ FreeBlock(free_lists[k], k)
      <4>1. free_lists[k] # f /\ Fb(free_lists[k], k)
        BY <1>4, <1>5, <3>3
      <4>2. prev'[free_lists[k]] = f
        BY <1>2, <3>3, <4>1
      <4> QED BY <2>1, <3>1, <3>3, <4>1, <4>2
    <3> QED BY <1>7, <3>2, <3>3
  <2>2. CASE h # f
    <3>1. FreeBlock(h, j)
      BY <1>5, <1>9, <2>2
    <3>2. /\ \/ prev[h] = None /\ free_lists[j] = h
             \/ prev[h] \in Frames /\ FreeBlock(prev[h], j) /\ next[prev[h]] = h
          /\ \/ next[h] = None
             \/ next[h] \in Frames /\ FreeBlock(next[h], j) /\ prev[next[h]] = h
      BY <3>1, Neighbours
    <3>3. \/ prev'[h] = None /\ free_lists'[j] = h
          \/ prev'[h] \in Frames /\ Fb(prev'[h], j) /\ next'[prev'[h]] = h
      <4>3. CASE prev[h] = None /\ free_lists[j] = h
        <5>1. CASE j = k
          <6>1. prev'[h] = f /\ next'[f] = h /\ Fb(f, j)
            BY <1>2, <1>5, <2>2, <4>3, <5>1 DEF ListTypes
          <6> QED BY <6>1
        <5>2. CASE j # k
          <6>1. h # free_lists[k]
            BY <1>1, <1>6, <1>7, <3>1, <5>2
          <6> QED BY <1>2, <2>2, <4>3, <5>2, <6>1 DEF ListTypes
        <5> QED BY <5>1, <5>2
      <4>4. CASE prev[h] \in Frames /\ FreeBlock(prev[h], j) /\ next[prev[h]] = h
        <5>1. h # free_lists[k] /\ prev[h] # f
          BY <1>1, <1>4, <1>7, <4>4
        <5>2. Fb(prev[h], j)
          BY <1>5, <4>4
        <5> QED BY <1>2, <2>2, <4>4, <5>1, <5>2 DEF ListTypes
      <4> QED BY <3>2, <4>3, <4>4
    <3>4. \/ next'[h] = None
          \/ next'[h] \in Frames /\ Fb(next'[h], j) /\ prev'[next'[h]] = h
      <4>5. CASE next[h] = None
        BY <1>2, <2>2, <4>5 DEF ListTypes
      <4>6. CASE next[h] \in Frames /\ FreeBlock(next[h], j) /\ prev[next[h]] = h
        <5>1. next[h] # f /\ next[h] # free_lists[k]
          BY <1>1, <1>4, <1>7, <4>6
        <5>2. Fb(next[h], j)
          BY <1>5, <4>6
        <5> QED BY <1>2, <2>2, <4>6, <5>1, <5>2 DEF ListTypes
      <4> QED BY <3>2, <4>5, <4>6
    <3> QED BY <3>3, <3>4
  <2> QED BY <2>1, <2>2
<1> QED BY <1>8, <1>9 DEF Linked, FreeBlock

\* Unlinking a block joins its neighbours and keeps the lists linked.
LEMMA RemoveLinked ==
  ASSUME ListTypes, WholeBlocks, Linked, NEW k \in Orders, NEW f \in Frames,
         FreeBlock(f, k), list_remove(f, k)
  PROVE  Linked'
<1>1. None \notin Frames
  BY SMTT(60), Sizes DEF None, Frames
<1>2. /\ free_lists' = [free_lists EXCEPT ![k] = IF prev[f] = None THEN next[f] ELSE @]
      /\ prev' = [g \in Frames |-> IF g = f THEN Junk
                                   ELSE IF g = next[f] THEN prev[f] ELSE prev[g]]
      /\ next' = [g \in Frames |-> IF g = f THEN Junk
                                   ELSE IF g = prev[f] THEN next[f] ELSE next[g]]
  BY DEF list_remove
<1>3. \A h \in Frames, j \in Orders : FreeBlock(h, j)' <=> FreeBlock(h, j) /\ h # f
  BY RemoveBlocks
<1> DEFINE Fb(h, j) == frame_order'[h] = j /\ Aligned(h, j)
<1>4. \A h \in Frames, j \in Orders : Fb(h, j) <=> FreeBlock(h, j) /\ h # f
  BY <1>3 DEF FreeBlock
<1>5. \A h \in Frames, i, j \in Orders : FreeBlock(h, i) /\ FreeBlock(h, j) => i = j
  BY DEF FreeBlock
<1>6. /\ \/ prev[f] = None /\ free_lists[k] = f
         \/ prev[f] \in Frames /\ FreeBlock(prev[f], k) /\ next[prev[f]] = f
      /\ \/ next[f] = None
         \/ next[f] \in Frames /\ FreeBlock(next[f], k) /\ prev[next[f]] = f
  BY Neighbours
<1>7. ASSUME NEW j \in Orders, free_lists'[j] # None
      PROVE  Fb(free_lists'[j], j) /\ prev'[free_lists'[j]] = None
  <2>1. CASE j = k /\ prev[f] = None
    <3>1. /\ free_lists'[j] = next[f] /\ next[f] \in Frames
          /\ FreeBlock(next[f], k) /\ prev[next[f]] = f
      BY <1>2, <1>6, <1>7, <2>1 DEF ListTypes
    <3>2. next[f] # f
      BY <1>1, <2>1, <3>1
    <3>3. Fb(next[f], j)
      BY <1>4, <2>1, <3>1, <3>2
    <3>4. prev'[next[f]] = None
      BY <1>2, <2>1, <3>1, <3>2
    <3> QED BY <3>1, <3>3, <3>4
  <2>2. CASE ~(j = k /\ prev[f] = None)
    <3>1. PICK h \in Frames : free_lists'[j] = h /\ h = free_lists[j]
                              /\ FreeBlock(h, j) /\ prev[h] = None
      BY SMTT(60), <1>2, <1>7, <2>2 DEF Linked, ListTypes
    <3>2. h # f /\ h # next[f]
      BY <1>1, <1>5, <1>6, <2>2, <3>1
    <3>3. Fb(h, j)
      BY <1>4, <3>1, <3>2
    <3> QED BY <1>2, <3>1, <3>2, <3>3
  <2> QED BY <2>1, <2>2
<1>8. ASSUME NEW h \in Frames, NEW j \in Orders, Fb(h, j)
      PROVE  /\ \/ prev'[h] = None /\ free_lists'[j] = h
                \/ prev'[h] \in Frames /\ Fb(prev'[h], j) /\ next'[prev'[h]] = h
             /\ \/ next'[h] = None
                \/ next'[h] \in Frames /\ Fb(next'[h], j) /\ prev'[next'[h]] = h
  <2>1. FreeBlock(h, j) /\ h # f
    BY <1>4, <1>8
  <2>2. /\ \/ prev[h] = None /\ free_lists[j] = h
           \/ prev[h] \in Frames /\ FreeBlock(prev[h], j) /\ next[prev[h]] = h
        /\ \/ next[h] = None
           \/ next[h] \in Frames /\ FreeBlock(next[h], j) /\ prev[next[h]] = h
    BY <2>1, Neighbours
  <2>3. \/ prev'[h] = None /\ free_lists'[j] = h
        \/ prev'[h] \in Frames /\ Fb(prev'[h], j) /\ next'[prev'[h]] = h
    <3>3. CASE prev[h] = None
      <4>1. h # next[f] /\ free_lists[j] = h
        BY <1>1, <1>6, <2>2, <3>3
      <4>2. ~(j = k /\ prev[f] = None)
        BY <1>1, <1>6, <2>1, <4>1
      <4> QED BY <1>2, <2>1, <3>3, <4>1, <4>2 DEF ListTypes
    <3>4. CASE prev[h] = f
      <4>1. j = k /\ next[f] = h /\ prev'[h] = prev[f]
        BY <1>1, <1>2, <1>5, <2>1, <2>2, <3>4
      <4>2. CASE prev[f] = None
        BY <1>2, <4>1, <4>2 DEF ListTypes
      <4>3. CASE prev[f] \in Frames /\ FreeBlock(prev[f], k) /\ next[prev[f]] = f
        <5>1. prev[f] # f
          BY <2>1, <4>1, <4>3
        <5>2. Fb(prev[f], j) /\ next'[prev[f]] = h
          BY <1>2, <1>4, <4>1, <4>3, <5>1
        <5> QED BY <4>1, <4>3, <5>2
      <4> QED BY <1>6, <4>2, <4>3
    <3>5. CASE prev[h] \in Frames /\ FreeBlock(prev[h], j) /\ next[prev[h]] = h /\ prev[h] # f
      <4>1. h # next[f] /\ prev[h] # prev[f]
        BY <1>1, <1>6, <2>1, <3>5
      <4>2. Fb(prev[h], j) /\ prev'[h] = prev[h] /\ next'[prev[h]] = h
        BY <1>2, <1>4, <2>1, <3>5, <4>1
      <4> QED BY <3>5, <4>2
    <3> QED BY <2>2, <3>3, <3>4, <3>5
  <2>4. \/ next'[h] = None
        \/ next'[h] \in Frames /\ Fb(next'[h], j) /\ prev'[next'[h]] = h
    <3>6. CASE next[h] = None
      BY <1>1, <1>2, <1>6, <2>1, <3>6
    <3>7. CASE next[h] = f
      <4>1. j = k /\ prev[f] = h /\ next'[h] = next[f]
        BY <1>1, <1>2, <1>5, <2>1, <2>2, <3>7
      <4>2. CASE next[f] = None
        BY <4>1, <4>2
      <4>3. CASE next[f] \in Frames /\ FreeBlock(next[f], k) /\ prev[next[f]] = f
        <5>1. next[f] # f
          BY <2>1, <4>1, <4>3
        <5>2. Fb(next[f], j) /\ prev'[next[f]] = h
          BY <1>2, <1>4, <4>1, <4>3, <5>1
        <5> QED BY <4>1, <4>3, <5>2
      <4> QED BY <1>6, <4>2, <4>3
    <3>8. CASE next[h] \in Frames /\ FreeBlock(next[h], j) /\ prev[next[h]] = h /\ next[h] # f
      <4>1. h # prev[f] /\ next[h] # next[f]
        BY <1>1, <1>6, <2>1, <3>8
      <4>2. Fb(next[h], j) /\ next'[h] = next[h] /\ prev'[next[h]] = h
        BY <1>2, <1>4, <2>1, <3>8, <4>1
      <4> QED BY <3>8, <4>2
    <3> QED BY <2>2, <3>6, <3>7, <3>8
  <2> QED BY <2>3, <2>4
<1> QED BY <1>7, <1>8 DEF Linked, FreeBlock

\* A block pushed at the head is the end of every chain of prev links into it.
LEMMA PushNoCycles ==
  ASSUME ListTypes, WholeBlocks, Linked, NoCycles, NEW k \in Orders, NEW f \in Frames,
         Aligned(f, k), block_unused(f, k), list_push(f, k)
  PROVE  NoCycles'
<1>1. None \notin Frames
  BY SMTT(60), Sizes DEF None, Frames
<1>2. prev' = [g \in Frames |-> IF g = f THEN None
                                ELSE IF g = free_lists[k] THEN f ELSE prev[g]]
  BY DEF list_push
<1>3. \A h \in Frames, j \in Orders :
        FreeBlock(h, j)' <=> FreeBlock(h, j) \/ (h = f /\ j = k)
  BY PushBlocks
<1> SUFFICES ASSUME NEW j \in Orders, NEW S \in SUBSET Frames, S # {},
                    \A h \in S : FreeBlock(h, j)'
             PROVE  \E h \in S : prev'[h] \notin S
  BY DEF NoCycles
<1>4. CASE f \in S
  BY <1>1, <1>2, <1>4
<1>5. CASE f \notin S
  <2>1. \A h \in S : FreeBlock(h, j)
    BY <1>3, <1>5
  <2>2. PICK h \in S : prev[h] \notin S
    <3>1. S \in SUBSET {h \in Frames : FreeBlock(h, j)}
      BY <2>1
    <3> QED BY <3>1 DEF NoCycles
  <2> QED BY <1>2, <1>5, <2>2
<1> QED BY <1>4, <1>5

\* Unlinking a block shortens the chains through it and closes none.
LEMMA RemoveNoCycles ==
  ASSUME ListTypes, WholeBlocks, Linked, NoCycles, NEW k \in Orders, NEW f \in Frames,
         FreeBlock(f, k), list_remove(f, k)
  PROVE  NoCycles'
<1>1. prev' = [g \in Frames |-> IF g = f THEN Junk
                                ELSE IF g = next[f] THEN prev[f] ELSE prev[g]]
  BY DEF list_remove
<1>2. \A h \in Frames, j \in Orders : FreeBlock(h, j)' <=> FreeBlock(h, j) /\ h # f
  BY RemoveBlocks
<1>3. next[f] \in Frames => FreeBlock(next[f], k) /\ prev[next[f]] = f
  <2>1. None \notin Frames
    BY SMTT(60), Sizes DEF None, Frames
  <2> QED BY <2>1, Neighbours
<1> SUFFICES ASSUME NEW j \in Orders, NEW S \in SUBSET Frames, S # {},
                    \A h \in S : FreeBlock(h, j)'
             PROVE  \E h \in S : prev'[h] \notin S
  BY DEF NoCycles
<1>4. \A h \in S : FreeBlock(h, j) /\ h # f
  BY <1>2
<1>5. CASE next[f] \notin S
  <2>1. PICK h \in S : prev[h] \notin S
    <3>1. S \in SUBSET {h \in Frames : FreeBlock(h, j)}
      BY <1>4
    <3> QED BY <3>1 DEF NoCycles
  <2> QED BY <1>1, <1>4, <1>5, <2>1
<1>6. CASE next[f] \in S
  <2>1. j = k
    BY <1>3, <1>4, <1>6 DEF FreeBlock
  <2>2. S \cup {f} \in SUBSET {h \in Frames : FreeBlock(h, j)}
    BY <1>4, <2>1
  <2>3. PICK h \in S \cup {f} : prev[h] \notin S \cup {f}
    BY <2>2 DEF NoCycles
  <2>4. h # next[f]
    BY <1>3, <1>6, <2>3
  <2>5. CASE h = f
    BY <1>1, <1>4, <1>6, <2>3, <2>5
  <2>6. CASE h # f
    BY <1>1, <2>3, <2>4, <2>6
  <2> QED BY <2>5, <2>6
<1> QED BY <1>5, <1>6

\* A block that shares no frame with the listed memory adds 2^k to its size.
LEMMA CountBlock ==
  ASSUME ListTypes, NEW k \in Orders, NEW f \in Frames, block_unused(f, k)
  PROVE  /\ Cardinality(Listed) \in Nat
         /\ Cardinality(Listed \cup Block(f, k)) = Cardinality(Listed) + 2^k
<1>1. f \in Nat /\ Frames \subseteq Nat /\ 2^k \in Nat /\ TotalFrames \in Nat
  BY Sizes
<1>2. IsFiniteSet(Frames)
  BY SMTT(60), <1>1, FS_Interval DEF Frames
<1>3. IsFiniteSet(Listed)
  BY <1>2, FS_Subset DEF Listed
<1>4. IsFiniteSet(Block(f, k)) /\ Cardinality(Block(f, k)) = 2^k
  BY <1>1, BlockFacts
<1>5. Listed \cap Block(f, k) = {}
  BY DEF Listed, block_unused
<1>6. Cardinality(Listed \cap Block(f, k)) = 0
  BY <1>5, FS_EmptySet
<1>7. Cardinality(Listed) \in Nat
  BY <1>3, FS_CardinalityType
<1>8. Cardinality(Listed \cup Block(f, k))
        = Cardinality(Listed) + Cardinality(Block(f, k)) - Cardinality(Listed \cap Block(f, k))
  BY <1>3, <1>4, FS_Union
<1> QED BY SMTT(60), <1>1, <1>4, <1>6, <1>7, <1>8

-----------------------------------------------------------------------------
(***************************************************************************)
(* The invariant is inductive: one lemma per action that moves memory.     *)
(***************************************************************************)
\* TypeOK gives the types of the lists and of the block in hand.
LEMMA Types ==
  ASSUME TypeOK
  PROVE  /\ ListTypes /\ frame \in Nat /\ frame \in Frames /\ o \in Orders /\ o \in Nat
         /\ order \in Orders /\ order \in Nat
         /\ ORDER_NONE \notin Orders /\ Frames \subseteq Nat /\ MAX_ORDER \in Nat
         /\ \A k \in Orders : k \in Nat /\ k <= MAX_ORDER /\ 2^k \in Nat \ {0}
BY SMTT(60), Sizes DEF TypeOK, ListTypes, Orders

\* alloc_pages takes a block off its list into its hand.
LEMMA AllocPagesInv ==
  ASSUME IInv, NEW k \in Orders, AllocPages(k)
  PROVE  IInv' /\ FreeMemory' = FreeMemory /\ pc' = "split" /\ UNCHANGED <<start, count>>
<1> USE DEF IInv
<1>1. PICK current \in k..MAX_ORDER :
        /\ pc = "idle" /\ free_lists[current] # None
        /\ LET f == free_lists[current] IN
             IF RemoveAllowed(f, current)
             THEN /\ list_remove(f, current)
                  /\ pc' = "split"
                  /\ frame' = f /\ o' = current /\ order' = k
                  /\ UNCHANGED <<free_frames, start, count>>
             ELSE Fail("corrupt")
  BY DEF AllocPages, FirstNonEmpty
<1>2. current \in Orders /\ current \in Nat /\ k <= current
  BY SMTT(60), Sizes DEF Orders
<1>3. ListTypes /\ Frames \subseteq Nat /\ ORDER_NONE \notin Orders
  BY Types
<1>4. PICK f \in Frames :
        f = free_lists[current] /\ FreeBlock(f, current) /\ Aligned(f, current)
  <2>1. free_lists[current] \in Frames
    BY <1>1, <1>2, <1>3 DEF ListTypes
  <2>2. FreeBlock(free_lists[current], current)
    BY <1>1, <1>2 DEF Linked
  <2>3. Aligned(free_lists[current], current)
    BY <2>2 DEF FreeBlock
  <2> QED BY <2>1, <2>2, <2>3
<1>5. RemoveAllowed(f, current)
  <2>1. Block(f, current) \subseteq Frames
    BY <1>2, <1>4 DEF WholeBlocks
  <2>2. f + 2^current <= TotalFrames
    BY <1>2, <1>3, <1>4, <2>1, BlockFacts
  <2>3. {prev[f], next[f]} \subseteq Frames \cup {None}
    BY <1>2, <1>3, <1>4, Neighbours
  <2> QED BY <1>4, <2>2, <2>3 DEF RemoveAllowed, FreeBlock
<1>6. /\ list_remove(f, current) /\ pc' = "split"
      /\ frame' = f /\ o' = current /\ order' = k
      /\ free_frames' = free_frames /\ start' = start /\ count' = count
  BY <1>1, <1>4, <1>5
<1>7. /\ ListTypes' /\ WholeBlocks' /\ Linked' /\ NoCycles'
      /\ Block(f, current) \subseteq Listed /\ Listed' = Listed \ Block(f, current)
      /\ block_unused(f, current)'
      /\ \A h \in Frames, j \in Orders : FreeBlock(h, j)' <=> FreeBlock(h, j) /\ h # f
  BY <1>2, <1>3, <1>4, <1>6, RemoveBlocks, RemoveLinked,
     RemoveNoCycles
<1>8. TypeOK'
  BY <1>2, <1>4, <1>6, <1>7 DEF TypeOK, ListTypes
<1>9. HandApart'
  BY <1>2, <1>4, <1>6, <1>7 DEF HandApart, block_unused
<1>10. NoFreeBuddies'
  <2>1. \A j \in 0..(MAX_ORDER - 1) : j \in Orders
    BY SMTT(60), Sizes DEF Orders
  <2> QED BY <1>7, <2>1 DEF NoFreeBuddies
<1>11. CountMatches' /\ FreeMemory' = FreeMemory
  <2>1. FreeMemory = Listed
    BY <1>1 DEF FreeMemory, InHand
  <2>2. FreeMemory' = Listed' \cup Block(f, current)
    BY <1>6 DEF FreeMemory, InHand
  <2>3. FreeMemory' = FreeMemory
    BY <1>7, <2>1, <2>2
  <2> QED BY <1>6, <2>3 DEF CountMatches
<1>12. NeverCorrupt'
  BY <1>6 DEF NeverCorrupt
<1> QED BY <1>6, <1>7, <1>8, <1>9, <1>10, <1>11, <1>12

\* Pushing a block whose buddy is not free leaves no two free buddies.
LEMMA PushBuddies ==
  ASSUME NoFreeBuddies, NEW k \in Orders, NEW f \in Frames, Aligned(f, k),
         k < MAX_ORDER => ~(Buddy(f, k) \in Frames /\ FreeBlock(Buddy(f, k), k)),
         \A h \in Frames, j \in Orders :
           FreeBlock(h, j)' <=> FreeBlock(h, j) \/ (h = f /\ j = k)
  PROVE  NoFreeBuddies'
<1> SUFFICES ASSUME NEW h \in Frames, NEW j \in 0..(MAX_ORDER - 1), FreeBlock(h, j)',
                    Buddy(h, j) \in Frames, FreeBlock(Buddy(h, j), j)'
             PROVE  FALSE
  BY DEF NoFreeBuddies
<1>1. j \in Orders /\ j < MAX_ORDER /\ h \in Nat
  BY SMTT(60), Sizes DEF Orders
<1>2. Aligned(h, j)
  BY DEF FreeBlock
<1>3. Buddy(h, j) # h /\ Buddy(Buddy(h, j), j) = h
  BY <1>1, <1>2, Buddies
<1>4. FreeBlock(h, j) \/ (h = f /\ j = k)
  BY <1>1
<1>5. FreeBlock(Buddy(h, j), j) \/ (Buddy(h, j) = f /\ j = k)
  BY <1>1
<1> QED BY <1>1, <1>3, <1>4, <1>5 DEF NoFreeBuddies

\* Steps that leave the lists alone.
LEMMA SameLists ==
  ASSUME WholeBlocks, Linked, NoCycles, NoFreeBuddies,
         free_lists' = free_lists, prev' = prev, next' = next, frame_order' = frame_order
  PROVE  WholeBlocks' /\ Linked' /\ NoCycles' /\ NoFreeBuddies' /\ Listed' = Listed
<1>1. \A h, k : FreeBlock(h, k)' <=> FreeBlock(h, k)
  BY DEF FreeBlock
<1>2. Listed' = Listed
  BY DEF Listed
<1>3. WholeBlocks'
  BY DEF WholeBlocks, FreeBlock, Listed
<1>4. Linked'
  BY DEF Linked, FreeBlock
<1>5. NoFreeBuddies'
  BY <1>1 DEF NoFreeBuddies
<1>6. NoCycles'
  BY DEF NoCycles, FreeBlock
<1> QED BY <1>2, <1>3, <1>4, <1>5, <1>6

\* One turn of the splitting loop lists the upper half of the block in hand.
LEMMA SplitInv ==
  ASSUME IInv, Split
  PROVE  IInv' /\ FreeMemory' = FreeMemory /\ pc' = "split" /\ UNCHANGED <<start, count>>
<1> USE DEF IInv
<1>1. /\ ListTypes /\ frame \in Nat /\ frame \in Frames /\ o \in Orders /\ o \in Nat
      /\ order \in Orders /\ order \in Nat
      /\ ORDER_NONE \notin Orders /\ Frames \subseteq Nat /\ MAX_ORDER \in Nat
  BY Types
<1>2. /\ pc = "split" /\ order < o
      /\ Aligned(frame, o) /\ block_unused(frame, o)
  BY <1>1 DEF Split, HandApart
<1>3. PICK k \in Orders : k = o - 1 /\ k < MAX_ORDER /\ k + 1 = o /\ k \in Nat /\ order <= k
  BY SMTT(60), <1>1, <1>2 DEF Orders
<1>4. PICK f \in Nat : f = frame
  BY <1>1
<1>5. /\ Aligned(f, k) /\ Aligned(f + 2^k, k) /\ Buddy(f + 2^k, k) = f
      /\ Block(f, k + 1) = Block(f, k) \cup Block(f + 2^k, k)
      /\ Block(f, k) \cap Block(f + 2^k, k) = {}
  BY SMTT(60), <1>2, <1>3, <1>4, HalvesOf
<1>6. 2^k \in Nat /\ f + 2^k \in Nat
  BY SMTT(60), <1>3, <1>4, Sizes
<1>7. PICK b \in Nat : b = f + 2^k
  BY <1>6
<1>8. block_unused(f, k) /\ block_unused(b, k)
  BY <1>2, <1>3, <1>4, <1>5, <1>7 DEF block_unused
<1>9. b \in Frames
  BY SMTT(60), <1>7, <1>8, BlockFacts DEF block_unused
<1>10. /\ list_push(b, k) /\ o' = k /\ pc' = pc /\ frame' = f /\ order' = order
       /\ free_frames' = free_frames /\ start' = start /\ count' = count
  BY <1>3, <1>4, <1>7, <1>8 DEF Split, PushAllowed
<1>11. /\ ListTypes' /\ WholeBlocks' /\ Linked' /\ NoCycles'
       /\ Listed' = Listed \cup Block(b, k)
       /\ \A h \in Frames, j \in Orders :
            FreeBlock(h, j)' <=> FreeBlock(h, j) \/ (h = b /\ j = k)
  BY <1>1, <1>5, <1>7, <1>8, <1>9, <1>10, PushBlocks, PushLinked,
     PushNoCycles
<1>12. TypeOK'
  BY <1>1, <1>4, <1>10, <1>11 DEF TypeOK, ListTypes
<1>13. HandApart'
  <2>1. \A g \in Block(f, k) : g \in Frames /\ frame_order'[g] = ORDER_NONE
    BY <1>5, <1>7, <1>8, <1>10 DEF block_unused, list_push, set_block_order
  <2> QED BY <1>3, <1>5, <1>10, <2>1 DEF HandApart, block_unused
<1>14. NoFreeBuddies'
  <2>1. ~FreeBlock(f, k)
    <3>1. frame_order[f] = ORDER_NONE
      BY <1>8, BlockFacts DEF block_unused
    <3> QED BY <1>1, <3>1 DEF FreeBlock
  <2>2. f # b
    BY <1>4, <1>5, <1>7, <1>6, BlockFacts
  <2>3. f \in Frames
    BY <1>1, <1>4
  <2> QED BY SMTT(60), <1>5, <1>7, <1>9, <1>11, <1>3, <2>1, <2>2, <2>3, PushBuddies
<1>15. CountMatches' /\ FreeMemory' = FreeMemory
  <2>1. FreeMemory = Listed \cup Block(f, k + 1)
    BY <1>2, <1>3, <1>4 DEF FreeMemory, InHand
  <2>2. FreeMemory' = Listed' \cup Block(f, k)
    BY <1>2, <1>10 DEF FreeMemory, InHand
  <2>3. FreeMemory' = FreeMemory
    BY <1>5, <1>7, <1>11, <2>1, <2>2
  <2> QED BY <1>10, <2>3 DEF CountMatches
<1>16. NeverCorrupt'
  BY <1>10 DEF NeverCorrupt
<1> QED BY <1>2, <1>10, <1>11, <1>12, <1>13, <1>14, <1>15, <1>16

\* The block in hand leaves the allocator.
LEMMA AllocDoneInv ==
  ASSUME IInv, AllocDone
  PROVE  /\ IInv' /\ pc' = "idle" /\ UNCHANGED <<start, count>>
         /\ FreeMemory' = FreeMemory \ Block(frame, order)
         /\ Block(frame, order) \subseteq FreeMemory /\ Aligned(frame, order)
         /\ Block(frame, order) \subseteq Frames
<1> USE DEF IInv
<1>1. /\ ListTypes /\ frame \in Frames /\ o \in Orders /\ 2^o \in Nat
  BY Types
<1>2. pc = "split" /\ o = order /\ block_unused(frame, o) /\ Aligned(frame, o)
  BY DEF AllocDone, HandApart
<1>3. /\ Cardinality(Listed) \in Nat
      /\ Cardinality(Listed \cup Block(frame, o)) = Cardinality(Listed) + 2^o
  BY <1>1, <1>2, CountBlock
<1>4. free_frames = Cardinality(Listed) + 2^o
  BY <1>2, <1>3 DEF CountMatches, FreeMemory, InHand
<1>5. free_frames >= 2^order
  BY SMTT(60), <1>1, <1>2, <1>3, <1>4
<1>6. /\ free_frames' = free_frames - 2^o /\ pc' = "idle"
      /\ frame' = 0 /\ o' = 0 /\ order' = 0 /\ start' = start /\ count' = count
      /\ free_lists' = free_lists /\ prev' = prev /\ next' = next
      /\ frame_order' = frame_order
  BY <1>2, <1>5 DEF AllocDone, Return, lists
<1>7. free_frames' = Cardinality(Listed)
  BY SMTT(60), <1>1, <1>3, <1>4, <1>6
<1>8. 0 \in Frames /\ 0 \in Orders
  BY SMTT(60), PmmAssumption DEF Frames, Orders
<1>9. TypeOK'
  BY <1>3, <1>6, <1>7, <1>8 DEF TypeOK
<1>10. WholeBlocks' /\ Linked' /\ NoCycles' /\ NoFreeBuddies'
  BY <1>6, SameLists
<1>11. CountMatches'
  <2>1. FreeMemory' = Listed
    BY <1>6 DEF FreeMemory, InHand, Listed
  <2> QED BY <1>7, <2>1 DEF CountMatches
<1>12. HandApart' /\ NeverCorrupt'
  BY <1>6 DEF HandApart, NeverCorrupt
<1>13. /\ FreeMemory' = FreeMemory \ Block(frame, o)
       /\ Block(frame, o) \subseteq FreeMemory /\ Block(frame, o) \subseteq Frames
  <2>1. FreeMemory = Listed \cup Block(frame, o) /\ FreeMemory' = Listed
    BY <1>2, <1>6 DEF FreeMemory, InHand, Listed
  <2>2. Listed \cap Block(frame, o) = {} /\ Block(frame, o) \subseteq Frames
    BY <1>2 DEF Listed, block_unused
  <2> QED BY <2>1, <2>2
<1> QED BY <1>2, <1>6, <1>9, <1>10, <1>11, <1>12, <1>13

\* free_pages takes the block the caller gives back into its hand.
LEMMA EnterFreeInv ==
  ASSUME IInv, pc \notin {"split", "coalesce"}, NEW addr \in Nat, NEW k \in Nat,
         EnterFree(addr, k), start' \in Nat, count' \in Nat
  PROVE  /\ IInv'
         /\ FreeAccepted(addr, k) =>
              pc' = "coalesce" /\ FreeMemory' = FreeMemory \cup Block(frame_index(addr), k)
<1> USE DEF IInv
<1>1. ListTypes /\ Frames \subseteq Nat /\ TotalFrames \in Nat
  BY Types, Sizes
<1>2. FreeMemory = Listed
  BY DEF FreeMemory, InHand
<1>3. CASE FreeAccepted(addr, k)
  <2>1. /\ pc' = "coalesce" /\ frame' = frame_index(addr) /\ o' = k
        /\ free_frames' = free_frames + 2^k /\ order' = order
        /\ free_lists' = free_lists /\ prev' = prev /\ next' = next
        /\ frame_order' = frame_order
    BY <1>3 DEF EnterFree, lists
  <2>2. k \in Orders /\ frame_index(addr) \in Nat
    BY SMTT(60), <1>3, PmmAssumption DEF FreeAccepted, Orders, frame_index
  <2>3. PICK f \in Nat : f = frame_index(addr)
    BY <2>2
  <2>4. f + 2^k <= TotalFrames /\ Aligned(f, k) /\ block_unused(f, k)
    BY <1>3, <2>3 DEF FreeAccepted
  <2>5. f \in Frames
    BY <2>2, <2>4, BlockFacts
  <2>6. 2^k \in Nat
    BY <2>2, Sizes
  <2>7. TypeOK'
    BY SMTT(60), <2>1, <2>2, <2>3, <2>5, <2>6 DEF TypeOK
  <2>8. WholeBlocks' /\ Linked' /\ NoCycles' /\ NoFreeBuddies' /\ Listed' = Listed
    BY <2>1, SameLists
  <2>9. HandApart'
    BY <2>1, <2>3, <2>4 DEF HandApart, block_unused
  <2>10. CountMatches' /\ FreeMemory' = FreeMemory \cup Block(f, k)
    <3>1. Cardinality(Listed \cup Block(f, k)) = Cardinality(Listed) + 2^k
      BY <1>1, <2>2, <2>4, <2>5, CountBlock
    <3>2. FreeMemory' = Listed \cup Block(f, k)
      BY <2>1, <2>3, <2>8 DEF FreeMemory, InHand
    <3> QED BY <1>2, <2>1, <3>1, <3>2 DEF CountMatches
  <2>11. NeverCorrupt'
    BY <2>1 DEF NeverCorrupt
  <2> QED BY <2>1, <2>3, <2>7, <2>8, <2>9, <2>10, <2>11
<1>4. CASE ~FreeAccepted(addr, k)
  <2>1. /\ pc' = "rejected" /\ frame' = frame /\ o' = o /\ order' = order
        /\ free_frames' = free_frames
        /\ free_lists' = free_lists /\ prev' = prev /\ next' = next
        /\ frame_order' = frame_order
    BY <1>4 DEF EnterFree, lists
  <2>2. WholeBlocks' /\ Linked' /\ NoCycles' /\ NoFreeBuddies' /\ Listed' = Listed
    BY <2>1, SameLists
  <2>3. TypeOK' /\ HandApart' /\ NeverCorrupt'
    BY <2>1 DEF TypeOK, HandApart, NeverCorrupt
  <2>4. CountMatches'
    BY <1>2, <2>1, <2>2 DEF CountMatches, FreeMemory, InHand
  <2> QED BY <1>4, <2>2, <2>3, <2>4
<1> QED BY <1>3, <1>4

\* One turn of the merging loop takes the free buddy into the hand.
LEMMA CoalesceInv ==
  ASSUME IInv, Coalesce
  PROVE  IInv' /\ FreeMemory' = FreeMemory /\ pc' = "coalesce" /\ UNCHANGED <<start, count>>
<1> USE DEF IInv
<1>1. /\ ListTypes /\ frame \in Nat /\ frame \in Frames /\ o \in Orders /\ o \in Nat
      /\ Frames \subseteq Nat /\ MAX_ORDER \in Nat /\ TotalFrames \in Nat
      /\ ORDER_NONE \notin Orders
  BY Types, Sizes
<1>2. /\ pc = "coalesce" /\ o < MAX_ORDER /\ Buddy(frame, o) < TotalFrames
      /\ frame_order[Buddy(frame, o)] = o
      /\ Aligned(frame, o) /\ block_unused(frame, o)
  BY DEF Coalesce, BuddyIsFree, HandApart
<1>3. PICK k \in Orders : k = o
  BY <1>1
<1>4. PICK f \in Nat : f = frame
  BY <1>1
<1>5. /\ Buddy(f, k) \in Nat /\ Aligned(Buddy(f, k), k)
      /\ Merged(f, k) \in Nat /\ Aligned(Merged(f, k), k + 1)
      /\ Merged(f, k) \in {f, Buddy(f, k)}
      /\ Block(Merged(f, k), k + 1) = Block(f, k) \cup Block(Buddy(f, k), k)
  BY <1>2, <1>3, <1>4, Buddies
<1>6. PICK b \in Frames : b = Buddy(f, k)
  BY SMTT(60), <1>1, <1>2, <1>3, <1>4, <1>5 DEF Frames
<1>7. FreeBlock(b, k)
  BY <1>2, <1>3, <1>4, <1>5, <1>6 DEF FreeBlock
<1>8. RemoveAllowed(b, k)
  <2>1. Block(b, k) \subseteq Frames
    BY <1>7 DEF WholeBlocks
  <2>2. b + 2^k <= TotalFrames
    BY <1>1, <2>1, BlockFacts
  <2>3. {prev[b], next[b]} \subseteq Frames \cup {None}
    BY <1>1, <1>7, Neighbours
  <2> QED BY <1>7, <2>2, <2>3 DEF RemoveAllowed, FreeBlock
<1>9. /\ list_remove(b, k) /\ frame' = Merged(f, k) /\ o' = k + 1
      /\ free_frames' = free_frames /\ pc' = pc /\ order' = order
      /\ start' = start /\ count' = count
  BY <1>3, <1>4, <1>6, <1>8 DEF Coalesce
<1>10. /\ ListTypes' /\ WholeBlocks' /\ Linked' /\ NoCycles'
       /\ Block(b, k) \subseteq Listed /\ Listed' = Listed \ Block(b, k)
       /\ block_unused(b, k)'
       /\ \A h \in Frames, j \in Orders : FreeBlock(h, j)' <=> FreeBlock(h, j) /\ h # b
  BY <1>1, <1>7, <1>9, RemoveBlocks, RemoveLinked,
     RemoveNoCycles
<1>11. Merged(f, k) \in Frames /\ k + 1 \in Orders
  BY SMTT(60), <1>1, <1>2, <1>3, <1>4, <1>5, <1>6 DEF Orders
<1>12. TypeOK'
  BY <1>9, <1>10, <1>11 DEF TypeOK, ListTypes
<1>13. HandApart'
  <2>1. \A g \in Block(f, k) : g \in Frames /\ frame_order'[g] = ORDER_NONE
    BY <1>2, <1>3, <1>4, <1>9 DEF block_unused, list_remove, set_block_order
  <2>2. \A g \in Block(b, k) : g \in Frames /\ frame_order'[g] = ORDER_NONE
    BY <1>10 DEF block_unused
  <2>3. \A g \in Block(Merged(f, k), k + 1) : g \in Frames /\ frame_order'[g] = ORDER_NONE
    BY <1>5, <1>6, <2>1, <2>2
  <2> QED BY <1>2, <1>5, <1>9, <2>3 DEF HandApart, block_unused
<1>14. NoFreeBuddies'
  <2>1. \A j \in 0..(MAX_ORDER - 1) : j \in Orders
    BY SMTT(60), Sizes DEF Orders
  <2> QED BY <1>10, <2>1 DEF NoFreeBuddies
<1>15. CountMatches' /\ FreeMemory' = FreeMemory
  <2>1. FreeMemory = Listed \cup Block(f, k)
    BY <1>2, <1>3, <1>4 DEF FreeMemory, InHand
  <2>2. FreeMemory' = Listed' \cup Block(Merged(f, k), k + 1)
    BY <1>2, <1>9 DEF FreeMemory, InHand
  <2>3. FreeMemory' = FreeMemory
    BY <1>5, <1>6, <1>10, <2>1, <2>2
  <2> QED BY <1>9, <2>3 DEF CountMatches
<1>16. NeverCorrupt'
  BY <1>9 DEF NeverCorrupt
<1> QED BY <1>2, <1>9, <1>10, <1>12, <1>13, <1>14, <1>15, <1>16

\* The merged block goes on its list; its buddy is not there.
LEMMA FreeDoneInv ==
  ASSUME IInv, FreeDone
  PROVE  /\ IInv' /\ FreeMemory' = FreeMemory /\ UNCHANGED <<start, count>>
         /\ pc' = IF count > 0 THEN "ranging" ELSE "idle"
<1> USE DEF IInv
<1>1. /\ ListTypes /\ frame \in Frames /\ o \in Orders
      /\ Frames \subseteq Nat /\ TotalFrames \in Nat
  BY Types, Sizes
<1>2. /\ pc = "coalesce" /\ ~BuddyIsFree /\ Aligned(frame, o) /\ block_unused(frame, o)
  BY DEF FreeDone, HandApart
<1>3. PICK k \in Orders : k = o
  BY <1>1
<1>4. PICK f \in Frames : f = frame
  BY <1>1
<1>5. /\ list_push(f, k) /\ pc' = IF count > 0 THEN "ranging" ELSE "idle"
      /\ frame' = 0 /\ o' = 0 /\ order' = 0 /\ start' = start /\ count' = count
      /\ free_frames' = free_frames
  BY <1>2, <1>3, <1>4 DEF FreeDone, PushAllowed, Return
<1>6. /\ ListTypes' /\ WholeBlocks' /\ Linked' /\ NoCycles'
      /\ Listed' = Listed \cup Block(f, k)
      /\ \A h \in Frames, j \in Orders :
           FreeBlock(h, j)' <=> FreeBlock(h, j) \/ (h = f /\ j = k)
  BY <1>1, <1>2, <1>3, <1>4, <1>5, PushBlocks, PushLinked,
     PushNoCycles
<1>7. 0 \in Frames /\ 0 \in Orders
  BY SMTT(60), PmmAssumption DEF Frames, Orders
<1>8. TypeOK'
  BY <1>5, <1>6, <1>7 DEF TypeOK, ListTypes
<1>9. NoFreeBuddies'
  <2>1. k < MAX_ORDER => ~(Buddy(f, k) \in Frames /\ FreeBlock(Buddy(f, k), k))
    BY SMTT(60), <1>1, <1>2, <1>3, <1>4 DEF BuddyIsFree, FreeBlock, Frames
  <2> QED BY <1>2, <1>3, <1>4, <1>6, <2>1, PushBuddies
<1>10. CountMatches' /\ FreeMemory' = FreeMemory
  <2>1. FreeMemory = Listed \cup Block(f, k)
    BY <1>2, <1>3, <1>4 DEF FreeMemory, InHand
  <2>2. FreeMemory' = Listed'
    BY <1>5 DEF FreeMemory, InHand
  <2>3. FreeMemory' = FreeMemory
    BY <1>6, <2>1, <2>2
  <2> QED BY <1>5, <2>3 DEF CountMatches
<1>11. HandApart' /\ NeverCorrupt'
  BY <1>5 DEF HandApart, NeverCorrupt
<1> QED BY <1>5, <1>6, <1>8, <1>9, <1>10, <1>11

\* Steps that move no memory and take nothing into the hand.
LEMMA QuietInv ==
  ASSUME IInv, pc \notin {"split", "coalesce"}, pc' \in {"idle", "ranging", "rejected"},
         UNCHANGED <<lists, free_frames, frame, o, order>>, start' \in Nat, count' \in Nat
  PROVE  IInv' /\ FreeMemory' = FreeMemory
<1> USE DEF IInv
<1>1. /\ frame' = frame /\ o' = o /\ order' = order /\ free_frames' = free_frames
      /\ free_lists' = free_lists /\ prev' = prev /\ next' = next
      /\ frame_order' = frame_order
  BY DEF lists
<1>2. WholeBlocks' /\ Linked' /\ NoCycles' /\ NoFreeBuddies' /\ Listed' = Listed
  BY <1>1, SameLists
<1>3. TypeOK' /\ HandApart' /\ NeverCorrupt'
  BY <1>1 DEF TypeOK, HandApart, NeverCorrupt
<1>4. FreeMemory' = FreeMemory
  BY <1>2 DEF FreeMemory, InHand
<1>5. CountMatches'
  BY <1>1, <1>4 DEF CountMatches
<1> QED BY <1>2, <1>3, <1>4, <1>5

\* One turn of add_range frees the block it cut off.
LEMMA RangeStepInv ==
  ASSUME IInv, RangeStep
  PROVE  IInv'
<1>1. start \in Nat /\ count \in Nat /\ FRAME_SIZE \in Nat
  BY PmmAssumption DEF IInv, TypeOK
<1>2. PICK k \in Orders :
        /\ pc = "ranging" /\ 2^k <= count
        /\ EnterFree(start * FRAME_SIZE, k)
        /\ IF FreeAccepted(start * FRAME_SIZE, k)
           THEN /\ start' = IF count = 2^k THEN 0 ELSE start + 2^k
                /\ count' = count - 2^k
           ELSE UNCHANGED <<start, count>>
  BY DEF RangeStep, RangeOrder
<1>3. k \in Nat /\ 2^k \in Nat
  BY Sizes
<1>4. start' \in Nat /\ count' \in Nat
  BY SMTT(60), <1>1, <1>2, <1>3
<1>5. PICK a \in Nat : a = start * FRAME_SIZE
  BY SMTT(60), <1>1
<1> QED BY <1>2, <1>3, <1>4, <1>5, EnterFreeInv

\* Every step of the allocator, misuse by callers included, keeps IInv.
LEMMA Inductive == IInv /\ [Next]_vars => IInv'
<1> SUFFICES ASSUME IInv, [Next]_vars PROVE IInv'
  OBVIOUS
<1>1. start \in Nat /\ count \in Nat
  BY DEF IInv, TypeOK
<1>2. ASSUME NEW k \in Orders, AllocPages(k) PROVE IInv'
  BY <1>2, AllocPagesInv
<1>3. ASSUME NEW k \in Orders, AllocNone(k) PROVE IInv'
  BY <1>1, <1>3, QuietInv DEF AllocNone, vars, locals
<1>4. CASE AllocOutOfRange(MAX_ORDER + 1)
  BY <1>1, <1>4, QuietInv DEF AllocOutOfRange, Fail, locals
<1>5. ASSUME NEW addr \in Addrs, NEW k \in 0..(MAX_ORDER + 1), FreePages(addr, k)
      PROVE  IInv'
  <2>1. addr \in Nat /\ k \in Nat
    BY SMTT(60) DEF Addrs
  <2> QED BY <1>1, <1>5, <2>1, EnterFreeInv DEF FreePages
<1>6. ASSUME NEW s \in Frames, NEW c \in 1..TotalFrames, AddRange(s, c)
      PROVE  IInv'
  <2>1. s \in Nat /\ c \in Nat
    BY SMTT(60), Sizes
  <2> QED BY <1>6, <2>1, QuietInv DEF AddRange
<1>7. CASE Split
  BY <1>7, SplitInv
<1>8. CASE AllocDone
  BY <1>8, AllocDoneInv
<1>9. CASE Coalesce
  BY <1>9, CoalesceInv
<1>10. CASE FreeDone
  BY <1>10, FreeDoneInv
<1>11. CASE RangeStep
  BY <1>11, RangeStepInv
<1>12. CASE hcf
  BY <1>1, <1>12, QuietInv DEF hcf, vars, locals, IInv, NeverCorrupt
<1>13. CASE UNCHANGED vars
  <2>1. /\ free_frames' = free_frames /\ pc' = pc /\ frame' = frame /\ o' = o
        /\ order' = order /\ start' = start /\ count' = count
        /\ free_lists' = free_lists /\ prev' = prev /\ next' = next
        /\ frame_order' = frame_order
    BY <1>13 DEF vars, lists, locals
  <2>2. WholeBlocks' /\ Linked' /\ NoCycles' /\ NoFreeBuddies' /\ Listed' = Listed
    BY <2>1, SameLists DEF IInv
  <2>3. TypeOK' /\ HandApart' /\ NeverCorrupt'
    BY <2>1 DEF IInv, TypeOK, HandApart, NeverCorrupt, block_unused
  <2>4. CountMatches'
    BY <2>1, <2>2 DEF IInv, CountMatches, FreeMemory, InHand
  <2> QED BY <2>2, <2>3, <2>4 DEF IInv
<1> QED BY <1>2, <1>3, <1>4, <1>5, <1>6, <1>7, <1>8, <1>9, <1>10, <1>11, <1>12, <1>13
     DEF Next, Step

\* Pmm::new establishes IInv: nothing listed, nothing counted.
LEMMA Initially == Init => IInv
<1> SUFFICES ASSUME Init PROVE IInv
  OBVIOUS
<1>1. 0 \in Frames /\ 0 \in Orders /\ ORDER_NONE \notin Orders
  BY SMTT(60), PmmAssumption DEF Frames, Orders, ORDER_NONE
<1>2. TypeOK
  BY <1>1 DEF Init, TypeOK
<1>3. \A h \in Frames, k \in Orders : ~FreeBlock(h, k)
  BY <1>1 DEF Init, FreeBlock
<1>4. Listed = {}
  BY DEF Init, Listed
<1>5. WholeBlocks
  BY <1>3, <1>4 DEF WholeBlocks
<1>6. Linked
  BY <1>3 DEF Init, Linked
<1>7. NoFreeBuddies
  <2>1. \A j \in 0..(MAX_ORDER - 1) : j \in Orders
    BY SMTT(60), Sizes DEF Orders
  <2> QED BY <1>3, <2>1 DEF NoFreeBuddies
<1>8. FreeMemory = {}
  BY <1>4 DEF Init, FreeMemory, InHand
<1>9. CountMatches
  BY <1>8, FS_EmptySet DEF Init, CountMatches
<1>10. HandApart /\ NeverCorrupt
  BY DEF Init, HandApart, NeverCorrupt
<1>11. NoCycles
  BY <1>3 DEF NoCycles
<1> QED BY <1>2, <1>5, <1>6, <1>7, <1>9, <1>10, <1>11 DEF IInv

-----------------------------------------------------------------------------
(***************************************************************************)
(* The variables of the allocator keep their types, and its blocks, lists  *)
(* and counter stay consistent, through every sequence of calls to         *)
(* alloc_pages, free_pages and add_range, for every memory size and every  *)
(* MAX_ORDER.                                                              *)
(***************************************************************************)
THEOREM Invariant == Spec => []IInv
BY Initially, Inductive, PTL DEF Spec

(***************************************************************************)
(* The variables keep their types.                                         *)
(***************************************************************************)
THEOREM TypeCorrect == Spec => []TypeOK
<1>1. IInv => TypeOK
  BY DEF IInv
<1> QED BY <1>1, Invariant, PTL

(***************************************************************************)
(* The assertions inside list_push and list_remove never fail, no link is  *)
(* followed out of the free memory and free_frames never underflows,       *)
(* whatever the callers free or add.                                       *)
(***************************************************************************)
THEOREM NoCorruption == Spec => []NeverCorrupt
<1>1. IInv => NeverCorrupt
  BY DEF IInv
<1> QED BY <1>1, Invariant, PTL

(***************************************************************************)
(* free_frames is the number of free frames at every step.                 *)
(***************************************************************************)
THEOREM CounterExact == Spec => []CountMatches
<1>1. IInv => CountMatches
  BY DEF IInv
<1> QED BY <1>1, Invariant, PTL

-----------------------------------------------------------------------------
(***************************************************************************)
(* A search of the lists that comes back empty means what it says.         *)
(***************************************************************************)
\* A property of numbers that holds somewhere holds at a least one.
LEMMA LeastOrder ==
  ASSUME NEW T, T \subseteq Nat, T # {}
  PROVE  \E x \in T : \A y \in T : x <= y
<1> DEFINE Below == {p \in Nat \X Nat : p[1] < p[2]}
<1>1. IsWellFoundedOn(Below, Nat)
  BY NatLessThanWellFounded DEF OpToRel, Below
<1>2. \E x \in T : \A y \in T : ~(<<y, x>> \in Below)
  BY <1>1, WFMin
<1>3. PICK x \in T : \A y \in T : ~(<<y, x>> \in Below)
  BY <1>2
<1>4. ASSUME NEW y \in T PROVE x <= y
  <2>1. x \in Nat /\ y \in Nat /\ <<y, x>> \in Nat \X Nat
    OBVIOUS
  <2>2. ~(y < x)
    BY <1>3, <2>1
  <2> QED BY SMTT(60), <2>1, <2>2
<1> QED BY <1>4

\* The list of an order that has a free block has a head.
LEMMA HeadOf ==
  ASSUME ListTypes, Linked, NoCycles, NEW k \in Orders, NEW h \in Frames, FreeBlock(h, k)
  PROVE  free_lists[k] # None
<1> DEFINE S == {g \in Frames : FreeBlock(g, k)}
<1>1. PICK g \in S : prev[g] \notin S
  <2>1. S \in SUBSET {f \in Frames : FreeBlock(f, k)} /\ h \in S
    OBVIOUS
  <2> QED BY <2>1 DEF NoCycles
<1>2. free_lists[k] = g /\ g \in Frames
  BY <1>1, Neighbours
<1>3. None \notin Frames
  BY SMTT(60), Sizes DEF None, Frames
<1> QED BY <1>2, <1>3

\* A listed block made of smaller free blocks only: two of them would be buddies.
Shattered(f, k) ==
  /\ Aligned(f, k)
  /\ \A g \in Block(f, k) : g \in Listed /\ frame_order[g] < k

\* No block is: the least order at which one were would have two free buddies below it, and free merges buddies.
LEMMA NothingShattered ==
  ASSUME IInv, NEW k \in Orders, NEW f \in Frames
  PROVE  ~Shattered(f, k)
<1> SUFFICES ASSUME Shattered(f, k) PROVE FALSE
  OBVIOUS
<1>1. /\ ListTypes /\ WholeBlocks /\ NoFreeBuddies /\ Frames \subseteq Nat /\ Orders \subseteq Nat
      /\ \A g \in Listed : g \in Frames /\ frame_order[g] \in Orders
  BY Sizes DEF IInv, TypeOK, ListTypes, Listed
<1> DEFINE T == {j \in Orders : \E h \in Frames : Shattered(h, j)}
<1>2. PICK m \in T : \A j \in T : m <= j
  <2>1. T \in SUBSET Nat /\ k \in T
    BY <1>1
  <2> HIDE DEF T
  <2> QED BY <2>1, LeastOrder
<1>3. PICK h \in Frames : Shattered(h, m)
  OBVIOUS
<1>4. m \in Orders /\ m \in Nat /\ h \in Nat
  BY <1>1
<1>5. h \in Block(h, m) /\ h \in Listed /\ frame_order[h] < m /\ frame_order[h] \in Nat
  BY <1>1, <1>3, <1>4, BlockFacts DEF Shattered
<1>6. PICK j \in Orders : j + 1 = m /\ j < MAX_ORDER /\ j \in Nat
  BY SMTT(60), <1>4, <1>5, Sizes DEF Orders
<1>7. /\ Aligned(h, j) /\ Aligned(h + 2^j, j) /\ Buddy(h + 2^j, j) = h
      /\ Block(h, m) = Block(h, j) \cup Block(h + 2^j, j)
  BY <1>3, <1>4, <1>6, HalvesOf DEF Shattered
<1>8. 2^j \in Nat \ {0} /\ h + 2^j \in Nat
  BY SMTT(60), <1>4, <1>6, Sizes
<1>9. ASSUME NEW b \in Nat, Aligned(b, j), Block(b, j) \subseteq Block(h, m)
      PROVE  b \in Frames /\ FreeBlock(b, j)
  <2>1. b \in Block(b, j)
    BY BlockFacts
  <2>2. b \in Frames
    BY <1>1, <1>3, <1>9, <2>1 DEF Shattered
  <2>3. ~Shattered(b, j)
    BY SMTT(60), <1>2, <1>4, <1>6, <2>2
  <2>4. PICK g \in Block(b, j) : ~(g \in Listed /\ frame_order[g] < j)
    BY <1>9, <2>3 DEF Shattered
  <2>5. g \in Listed /\ frame_order[g] < m
    BY <1>3, <1>9 DEF Shattered
  <2>6. frame_order[g] = j
    <3>1. frame_order[g] \in Nat /\ ~(frame_order[g] < j)
      BY <1>1, <2>4, <2>5
    <3> QED BY SMTT(60), <1>6, <2>5, <3>1
  <2>7. PICK c \in Frames : FreeBlock(c, j) /\ g \in Block(c, j)
    BY <1>1, <2>5, <2>6 DEF WholeBlocks
  <2>8. c = b
    BY <1>1, <1>9, <2>7, SameBlock DEF FreeBlock
  <2> QED BY <2>2, <2>7, <2>8
<1>10. FreeBlock(h, j) /\ FreeBlock(h + 2^j, j) /\ h + 2^j \in Frames
  BY <1>4, <1>7, <1>8, <1>9
<1>11. j \in 0..(MAX_ORDER - 1)
  BY SMTT(60), <1>6, Sizes
<1> QED BY <1>1, <1>3, <1>7, <1>10, <1>11 DEF NoFreeBuddies

(***************************************************************************)
(* alloc_pages answers None only when no aligned run of that many free     *)
(* frames exists, for every memory size and every history of calls.        *)
(***************************************************************************)
THEOREM NoneMeansNone == Spec => []ExhaustionIsReal
<1>1. IInv => ExhaustionIsReal
  <2> SUFFICES ASSUME IInv, NEW k \in Orders, \A c \in k..MAX_ORDER : free_lists[c] = None,
                      NEW f \in Frames, Aligned(f, k), Block(f, k) \subseteq Listed
               PROVE  FALSE
    BY DEF ExhaustionIsReal, Available
  <2>1. /\ ListTypes /\ Linked /\ NoCycles /\ WholeBlocks /\ Orders \subseteq Nat
        /\ \A g \in Listed : g \in Frames /\ frame_order[g] \in Orders
    BY Sizes DEF IInv, TypeOK, ListTypes, Listed
  <2>2. ASSUME NEW g \in Block(f, k) PROVE g \in Listed /\ frame_order[g] < k
    <3>1. PICK j \in Orders : j = frame_order[g]
      BY <2>1
    <3>2. PICK h \in Frames : FreeBlock(h, j)
      BY <2>1, <3>1 DEF WholeBlocks
    <3>3. free_lists[j] # None
      BY <2>1, <3>2, HeadOf
    <3>4. j < k
      BY SMTT(60), <2>1, <3>3, Sizes DEF Orders
    <3> QED BY <3>1, <3>4
  <2>3. Shattered(f, k)
    BY <2>2 DEF Shattered
  <2> QED BY <2>3, NothingShattered
<1> QED BY <1>1, Invariant, PTL

-----------------------------------------------------------------------------
(***************************************************************************)
(* Following next from the head of a list finds exactly its free blocks,   *)
(* for every memory size and every history of calls: list_push and         *)
(* list_remove lose none.                                                  *)
(***************************************************************************)
THEOREM NoBlockLost == Spec => []ListsComplete
<1>1. IInv => ListsComplete
  <2> SUFFICES ASSUME IInv, NEW k \in Orders
               PROVE  LET blocks == {h \in Frames : FreeBlock(h, k)} IN
                        /\ FollowsNext(blocks, k)
                        /\ \A S \in SUBSET blocks : FollowsNext(S, k) => S = blocks
    BY DEF ListsComplete
  <2> DEFINE blocks == {h \in Frames : FreeBlock(h, k)}
  <2>1. /\ Linked /\ NoCycles
        /\ free_lists[k] \in Frames \cup {None}
    BY DEF IInv, TypeOK
  <2>2. FollowsNext(blocks, k)
    BY <2>1 DEF FollowsNext, Linked
  <2>3. ASSUME NEW S \in SUBSET blocks, FollowsNext(S, k), S # blocks PROVE FALSE
    <3>1. blocks \ S \in SUBSET blocks /\ blocks \ S # {}
      BY <2>3
    <3>2. PICK h \in blocks \ S : prev[h] \notin blocks \ S
      BY <2>1, <3>1 DEF NoCycles
    <3>a. h \in blocks /\ h \notin S /\ h # None
      BY SMTT(60), <3>2 DEF Frames, None
    <3>3. CASE free_lists[k] = h
      BY <2>3, <3>a, <3>3 DEF FollowsNext
    <3>4. CASE prev[h] \in Frames /\ FreeBlock(prev[h], k) /\ next[prev[h]] = h
      <4>1. prev[h] \in S
        BY <3>2, <3>4
      <4> QED BY <2>3, <3>a, <3>4, <4>1 DEF FollowsNext
    <3> QED BY <2>1, <3>2, <3>3, <3>4 DEF Linked
  <2> QED BY <2>2, <2>3
<1> QED BY <1>1, Invariant, PTL

-----------------------------------------------------------------------------
(***************************************************************************)
(* What is left of the range add_range works on, and what the loop of init *)
(* has given away so far.                                                  *)
(***************************************************************************)
Remaining == start..(start + count - 1)

InEntry(f, i) ==
  /\ memmap[i].usable
  /\ memmap[i].base <= f * FRAME_SIZE
  /\ f * FRAME_SIZE < memmap[i].base + memmap[i].length

Given ==
  {f \in Frames \ {0} : \E i \in DOMAIN memmap : InEntry(f, i) /\
     \/ f < order_first /\ (i < entry \/ (i = entry /\ piece = 2))
     \/ f >= order_last /\ i < entry}

\* The part of an entry that a turn of the loop gives away.
Part(i, p) ==
  {f \in Frames \ {0} : InEntry(f, i) /\
     \/ p = 1 /\ f < order_first
     \/ p = 2 /\ f >= order_last}

BootTypes ==
  /\ memmap \in MemMaps /\ total_frames(memmap) = TotalFrames
  /\ boot \in {"metadata", "ranges", "running", "panic"}
  /\ order_phys \in Nat
  /\ entry \in 1..(Len(memmap) + 1) /\ piece \in {1, 2}
  /\ entry = Len(memmap) + 1 => piece = 1
  /\ boot = "metadata" => entry = 1 /\ piece = 1

\* Where the allocator is at each stage of the boot.
Stages ==
  /\ pc # "rejected"
  /\ pc = "idle" => count = 0
  /\ boot \in {"metadata", "panic"} => pc = "idle" /\ FreeMemory = {}
  /\ boot = "ranges" => pc # "split"
  /\ boot = "running" => count = 0 /\ pc # "ranging"
  /\ boot # "running" => owned = {}

\* add_range is about to give away memory that is not free, and init gives
\* away what it should.
Giving ==
  boot = "ranges" =>
    FreeMemory \cup Remaining = Given /\ FreeMemory \cap Remaining = {}

OwnedWhole ==
  /\ owned \subseteq Frames \X Orders
  /\ \A b \in owned : Aligned(b[1], b[2]) /\ Block(b[1], b[2]) \subseteq Frames

MmIInv ==
  /\ IInv
  /\ BootTypes
  /\ Stages
  /\ Giving
  /\ AllAccounted
  /\ OwnedWhole
  /\ SingleOwner

-----------------------------------------------------------------------------
(***************************************************************************)
(* Arithmetic of frames and addresses.                                     *)
(***************************************************************************)
\* The larger and the smaller of two numbers.
LEMMA LargerOf ==
  ASSUME NEW a \in Int, NEW b \in Int
  PROVE  Max({a, b}) = IF a >= b THEN a ELSE b
<1>1. \E x \in {a, b} : \A y \in {a, b} : x >= y
  BY SMTT(60)
<1>2. PICK x \in {a, b} : x = Max({a, b}) /\ \A y \in {a, b} : x >= y
  BY <1>1 DEF Max
<1> QED BY SMTT(60), <1>2

\* The smaller of two numbers.
LEMMA SmallerOf ==
  ASSUME NEW a \in Int, NEW b \in Int
  PROVE  Min({a, b}) = IF a <= b THEN a ELSE b
<1>1. \E x \in {a, b} : \A y \in {a, b} : x =< y
  BY SMTT(60)
<1>2. PICK x \in {a, b} : x = Min({a, b}) /\ \A y \in {a, b} : x =< y
  BY <1>1 DEF Min
<1> QED BY SMTT(60), <1>2

\* Multiplying by the frame size keeps the order.
LEMMA Scales ==
  ASSUME NEW F \in Nat \ {0}, NEW a \in Int, NEW b \in Int
  PROVE  /\ a * F <= b * F <=> a <= b
         /\ a * F < b * F <=> a < b
         /\ a * F \in Int
<1>1. ASSUME a <= b PROVE a * F <= b * F
  BY SMTT(60), <1>1
<1>2. ASSUME a < b PROVE a * F < b * F
  BY SMTT(60), <1>2
<1>3. ASSUME b < a PROVE b * F < a * F
  BY SMTT(60), <1>3
<1>4. ASSUME b <= a PROVE b * F <= a * F
  BY SMTT(60), <1>4
<1>5. a * F \in Int /\ b * F \in Int
  BY SMTT(60)
<1> QED BY SMTT(60), <1>1, <1>2, <1>3, <1>4, <1>5

\* The frame of an address, and of the start of a frame.
LEMMA FrameOf ==
  ASSUME NEW F \in Nat \ {0}, NEW q \in Nat
  PROVE  (q * F) \div F = q /\ (q * F) % F = 0 /\ q * F \in Nat
<1>1. (q * F) % F = 0 /\ q * F \in Nat
  BY SMTT(60)
<1>2. q * F = F * ((q * F) \div F) + ((q * F) % F) /\ (q * F) \div F \in Int
  BY SMTT(60)
<1>3. PICK d \in Int : d = (q * F) \div F
  BY <1>2
<1>4. q * F = d * F
  BY SMTT(60), <1>1, <1>2, <1>3
<1>5. q = d
  <2>1. q <= d /\ d <= q
    BY SMTT(60), <1>4, Scales
  <2> QED BY SMTT(60), <2>1
<1> QED BY <1>1, <1>3, <1>5

\* Rounding up does not fall short of a multiple.
LEMMA RoundsUp ==
  ASSUME NEW F \in Nat \ {0}, NEW h \in Nat, NEW q \in Nat, q * F <= h
  PROVE  align_up(h, F) \div F >= q /\ align_up(h, F) \div F \in Nat
<1>1. h + F - 1 \in Nat
  BY SMTT(60)
<1>2. PICK n \in Nat : n = h + F - 1
  BY <1>1
<1>3. n \div F \in Nat /\ n = F * (n \div F) + (n % F) /\ n % F \in 0..(F - 1)
  BY SMTT(60)
<1>4. PICK d \in Nat : d = n \div F
  BY <1>3
<1>5. n < (d + 1) * F
  <2>1. n < F * d + F
    BY SMTT(60), <1>3, <1>4
  <2>2. (d + 1) * F = F * d + F
    BY SMTT(60)
  <2> QED BY <2>1, <2>2
<1>6. q * F < (d + 1) * F
  <2>1. q * F \in Nat /\ (d + 1) * F \in Nat
    BY SMTT(60)
  <2> QED BY SMTT(60), <1>2, <1>5, <2>1
<1>7. q < d + 1
  BY SMTT(60), <1>6, Scales, d + 1 \in Int
<1>8. align_up(h, F) = d * F
  BY <1>2, <1>4 DEF align_up
<1>9. align_up(h, F) \div F = d
  BY <1>8, FrameOf
<1> QED BY SMTT(60), <1>7, <1>9

-----------------------------------------------------------------------------
(***************************************************************************)
(* The memory map.                                                         *)
(***************************************************************************)
\* What the bootloader promises of the entries.
LEMMA Entries ==
  ASSUME BootTypes
  PROVE  /\ FRAME_SIZE \in Nat \ {0}
         /\ Len(memmap) \in Nat \ {0} /\ DOMAIN memmap = 1..Len(memmap)
         /\ \A i \in DOMAIN memmap :
              /\ memmap[i].base \in Nat /\ memmap[i].length \in Nat
              /\ memmap[i].length > 0
              /\ memmap[i].usable =>
                   memmap[i].base % FRAME_SIZE = 0 /\ memmap[i].length % FRAME_SIZE = 0
         /\ \A i, j \in DOMAIN memmap :
              i < j => memmap[i].base + memmap[i].length <= memmap[j].base
<1> DEFINE E == [base : Nat, length : Nat, usable : BOOLEAN]
<1>1. memmap # <<>> /\ memmap \in Seq(E) /\ WellFormed(memmap)
  BY MemMapsWellFormed DEF BootTypes, WellFormed
<1>2. Len(memmap) \in Nat /\ DOMAIN memmap = 1..Len(memmap)
      /\ \A i \in DOMAIN memmap : memmap[i] \in E
  <2> HIDE DEF E
  <2> QED BY SMTT(60), <1>1
<1>3. Len(memmap) # 0
  <2> HIDE DEF E
  <2> QED BY SMTT(60), <1>1
<1> QED BY <1>1, <1>2, <1>3, PmmAssumption DEF WellFormed

\* The last entry ends highest.
LEMMA Highest ==
  ASSUME BootTypes, NEW i \in DOMAIN memmap
  PROVE  highest(memmap) \in Nat /\ memmap[i].base + memmap[i].length <= highest(memmap)
<1> DEFINE end(j) == memmap[j].base + memmap[j].length
           S == {end(j) : j \in DOMAIN memmap}
<1>1. PICK n \in DOMAIN memmap : \A j \in DOMAIN memmap : j <= n
  <2>1. Len(memmap) \in Nat \ {0} /\ DOMAIN memmap = 1..Len(memmap)
    BY Entries
  <2>2. Len(memmap) \in DOMAIN memmap /\ \A j \in DOMAIN memmap : j <= Len(memmap)
    BY SMTT(60), <2>1
  <2> QED BY <2>2
<1>2. \A j \in DOMAIN memmap : end(j) \in Nat /\ end(j) <= end(n)
  <2> SUFFICES ASSUME NEW j \in DOMAIN memmap PROVE end(j) \in Nat /\ end(j) <= end(n)
    OBVIOUS
  <2>1. j \in Nat /\ n \in Nat
    BY SMTT(60), Entries
  <2>2. /\ memmap[j].base \in Nat /\ memmap[j].length \in Nat
        /\ memmap[n].base \in Nat /\ memmap[n].length \in Nat
    BY Entries
  <2>3. j < n => end(j) <= memmap[n].base
    BY Entries
  <2> QED BY SMTT(60), <1>1, <2>1, <2>2, <2>3
<1>3. \E x \in S : \A y \in S : x >= y
  <2>1. end(n) \in S /\ \A y \in S : end(n) >= y
    BY <1>2
  <2> QED BY <2>1
<1>4. PICK x \in S : x = Max(S) /\ \A y \in S : x >= y
  BY <1>3 DEF Max
<1>5. x = highest(memmap)
  BY <1>4 DEF highest
<1>6. end(i) \in S
  OBVIOUS
<1> QED BY <1>2, <1>4, <1>5, <1>6

\* A usable entry is made of whole frames of the memory.
LEMMA EntryFrames ==
  ASSUME BootTypes, NEW i \in DOMAIN memmap, memmap[i].usable
  PROVE  \E a, z \in Nat :
           /\ memmap[i].base \div FRAME_SIZE = a
           /\ (memmap[i].base + memmap[i].length) \div FRAME_SIZE = z
           /\ z <= TotalFrames
           /\ \A f \in Nat : InEntry(f, i) <=> a <= f /\ f < z
<1>1. /\ FRAME_SIZE \in Nat \ {0} /\ memmap[i].base \in Nat /\ memmap[i].length \in Nat
      /\ memmap[i].base % FRAME_SIZE = 0 /\ memmap[i].length % FRAME_SIZE = 0
  BY Entries
<1>2. PICK a \in Nat : memmap[i].base = a * FRAME_SIZE
  BY <1>1, Multiple
<1>3. PICK l \in Nat : memmap[i].length = l * FRAME_SIZE
  BY <1>1, Multiple
<1>4. PICK z \in Nat : z = a + l
  BY SMTT(60)
<1>5. memmap[i].base + memmap[i].length = z * FRAME_SIZE
  <2>1. (a + l) * FRAME_SIZE = a * FRAME_SIZE + l * FRAME_SIZE
    BY SMTT(60), <1>1
  <2> QED BY <1>2, <1>3, <1>4, <2>1
<1>6. /\ memmap[i].base \div FRAME_SIZE = a
      /\ (memmap[i].base + memmap[i].length) \div FRAME_SIZE = z
  BY <1>1, <1>2, <1>5, FrameOf
<1>7. z <= TotalFrames
  <2>1. highest(memmap) \in Nat /\ z * FRAME_SIZE <= highest(memmap)
    BY <1>5, Highest
  <2>2. align_up(highest(memmap), FRAME_SIZE) \div FRAME_SIZE >= z
    BY <1>1, <2>1, RoundsUp
  <2>3. TotalFrames = align_up(highest(memmap), FRAME_SIZE) \div FRAME_SIZE
    BY DEF BootTypes, total_frames
  <2> QED BY <2>2, <2>3, PmmAssumption
<1>8. ASSUME NEW f \in Nat PROVE InEntry(f, i) <=> a <= f /\ f < z
  <2>1. InEntry(f, i) <=> a * FRAME_SIZE <= f * FRAME_SIZE /\ f * FRAME_SIZE < z * FRAME_SIZE
    BY <1>2, <1>5 DEF InEntry
  <2>2. (a * FRAME_SIZE <= f * FRAME_SIZE <=> a <= f) /\ (f * FRAME_SIZE < z * FRAME_SIZE <=> f < z)
    BY SMTT(60), <1>1, Scales
  <2> QED BY <2>1, <2>2
<1> QED BY <1>6, <1>7, <1>8

\* The metadata's first frame is not behind its last.
LEMMA Metadata ==
  ASSUME BootTypes
  PROVE  order_first \in Nat /\ order_last \in Nat /\ order_first <= order_last
<1>1. FRAME_SIZE \in Nat \ {0} /\ order_phys \in Nat /\ TotalFrames \in Nat
  BY PmmAssumption DEF BootTypes
<1>2. order_phys \div FRAME_SIZE \in Nat
  BY SMTT(60), <1>1
<1>3. order_bytes \div FRAME_SIZE \in Nat
  <2>1. 0 * FRAME_SIZE <= TotalFrames
    BY SMTT(60), <1>1
  <2> QED BY <1>1, <2>1, RoundsUp DEF order_bytes
<1> QED BY SMTT(60), <1>2, <1>3 DEF order_first, order_last

\* A turn of init's loop gives away just the frames of its part.
LEMMA PartIs ==
  ASSUME BootTypes, NEW i \in DOMAIN memmap, NEW p \in {1, 2}
  PROVE  LET s == Max({PieceStart(memmap[i], p), 1})
             e == PieceEnd(memmap[i], p)
         IN  /\ s \in Nat /\ e \in Int
             /\ Part(i, p) = IF memmap[i].usable THEN s..(e - 1) ELSE {}
             /\ memmap[i].usable => e <= TotalFrames
<1> DEFINE s == Max({PieceStart(memmap[i], p), 1})
           e == PieceEnd(memmap[i], p)
           a == memmap[i].base \div FRAME_SIZE
           z == (memmap[i].base + memmap[i].length) \div FRAME_SIZE
<1>1. order_first \in Nat /\ order_last \in Nat
  BY Metadata
<1>2. a \in Nat /\ z \in Nat
  <2>1. memmap[i].base \in Nat /\ memmap[i].length \in Nat /\ FRAME_SIZE \in Nat \ {0}
    BY Entries
  <2> QED BY SMTT(60), <2>1
<1>3. PieceStart(memmap[i], p) = (IF p = 1 THEN a ELSE IF a >= order_last THEN a ELSE order_last)
  BY SMTT(60), <1>1, <1>2, LargerOf DEF PieceStart
<1>4. e = (IF p = 1 THEN IF z <= order_first THEN z ELSE order_first ELSE z)
  BY SMTT(60), <1>1, <1>2, SmallerOf DEF PieceEnd
<1> HIDE DEF a, z
<1>5. PieceStart(memmap[i], p) \in Nat /\ e \in Nat
  BY <1>1, <1>2, <1>3, <1>4
<1>6. s = IF PieceStart(memmap[i], p) >= 1 THEN PieceStart(memmap[i], p) ELSE 1
  BY SMTT(60), <1>5, LargerOf
<1> HIDE DEF s, e
<1>7. s \in Nat
  BY <1>5, <1>6
<1>8. CASE memmap[i].usable
  <2>1. z <= TotalFrames /\ \A f \in Nat : InEntry(f, i) <=> a <= f /\ f < z
    BY <1>8, EntryFrames DEF a, z
  <2>2. Frames \subseteq Nat /\ \A f \in Nat : f < TotalFrames => f \in Frames
    BY SMTT(60), Sizes DEF Frames
  <2>3. \A f : f \in s..(e - 1) <=> f \in Nat /\ f >= s /\ f < e
    BY SMTT(60), <1>5, <1>7
  <2>4. CASE p = 1
    <3>1. \A f \in Nat : f # 0 /\ InEntry(f, i) /\ f < order_first <=> f >= s /\ f < e
      BY SMTT(60), <1>1, <1>2, <1>3, <1>4, <1>6, <2>1, <2>4
    <3>2. ASSUME NEW f \in Nat, f < e PROVE f \in Frames
      BY SMTT(60), <1>1, <1>2, <1>4, <2>1, <2>2, <2>4, <3>2, Sizes
    <3>3. \A f : f \in Part(i, p) <=> f \in Nat /\ f >= s /\ f < e
      <4>1. ASSUME NEW f \in Part(i, p) PROVE f \in Nat /\ f >= s /\ f < e
        BY SMTT(60), <2>2, <2>4, <3>1 DEF Part
      <4>2. ASSUME NEW f \in Nat, f >= s, f < e PROVE f \in Part(i, p)
        BY <2>4, <3>1, <3>2, <4>2 DEF Part
      <4> QED BY <4>1, <4>2
    <3>4. Part(i, p) = s..(e - 1)
      BY <2>3, <3>3
    <3> QED BY SMTT(60), <1>1, <1>2, <1>4, <1>5, <1>7, <1>8, <2>1, <2>4, <3>4, Sizes DEF s, e
  <2>5. CASE p = 2
    <3>1. \A f \in Nat : f # 0 /\ InEntry(f, i) /\ f >= order_last <=> f >= s /\ f < e
      BY SMTT(60), <1>1, <1>2, <1>3, <1>4, <1>6, <2>1, <2>5
    <3>2. ASSUME NEW f \in Nat, f < e PROVE f \in Frames
      BY SMTT(60), <1>1, <1>2, <1>4, <2>1, <2>2, <2>5, <3>2, Sizes
    <3>3. \A f : f \in Part(i, p) <=> f \in Nat /\ f >= s /\ f < e
      <4>1. ASSUME NEW f \in Part(i, p) PROVE f \in Nat /\ f >= s /\ f < e
        BY SMTT(60), <2>2, <2>5, <3>1 DEF Part
      <4>2. ASSUME NEW f \in Nat, f >= s, f < e PROVE f \in Part(i, p)
        BY <2>5, <3>1, <3>2, <4>2 DEF Part
      <4> QED BY <4>1, <4>2
    <3>4. Part(i, p) = s..(e - 1)
      BY <2>3, <3>3
    <3> QED BY SMTT(60), <1>1, <1>2, <1>4, <1>5, <1>7, <1>8, <2>1, <2>5, <3>4, Sizes DEF s, e
  <2> QED BY <2>4, <2>5
<1>9. CASE ~memmap[i].usable
  <2>1. Part(i, p) = {}
    BY <1>9 DEF Part, InEntry
  <2> QED BY SMTT(60), <1>5, <1>7, <1>9, <2>1 DEF s, e
<1> QED BY <1>8, <1>9

-----------------------------------------------------------------------------
(***************************************************************************)
(* One lemma per action.                                                   *)
(***************************************************************************)
\* What init has given away depends on its locals only.
LEMMA SameGiven ==
  ASSUME UNCHANGED <<memmap, order_phys, entry, piece>>
  PROVE  Given' = Given /\ (\A i, p : Part(i, p)' = Part(i, p))
BY DEF Given, Part, InEntry, order_first, order_last

\* What should be free or owned is fixed once the metadata is placed.
LEMMA SameUsable ==
  ASSUME UNCHANGED <<memmap, order_phys>>
  PROVE  UsableFrames' = UsableFrames /\ MetadataFrames' = MetadataFrames
BY DEF UsableFrames, MetadataFrames, order_first, order_last

\* Steps of the allocator that move memory between a list and the hand.
LEMMA MovesNothing ==
  ASSUME MmIInv, IInv', Stages', FreeMemory' = FreeMemory,
         UNCHANGED <<start, count, memmap, boot, order_phys, entry, piece, owned>>
  PROVE  MmIInv'
<1> USE DEF MmIInv
<1>1. BootTypes'
  BY DEF BootTypes
<1>2. Giving'
  BY SameGiven DEF Giving, Remaining
<1>3. AllAccounted'
  BY SameUsable DEF AllAccounted, OwnedFrames
<1>4. OwnedWhole' /\ SingleOwner'
  BY DEF OwnedWhole, SingleOwner
<1> QED BY <1>1, <1>2, <1>3, <1>4

\* A turn of boot that leaves the allocator alone keeps its invariant.
LEMMA AllocatorIdle ==
  ASSUME IInv, UNCHANGED vars
  PROVE  /\ IInv' /\ FreeMemory' = FreeMemory /\ Remaining' = Remaining
         /\ UNCHANGED <<pc, start, count>>
<1>1. /\ free_lists' = free_lists /\ prev' = prev /\ next' = next
      /\ frame_order' = frame_order /\ free_frames' = free_frames /\ pc' = pc
      /\ frame' = frame /\ o' = o /\ order' = order /\ start' = start /\ count' = count
  BY DEF vars, lists, locals
<1>2. IInv'
  BY Inductive
<1>3. FreeMemory' = FreeMemory
  BY <1>1 DEF FreeMemory, Listed, InHand
<1> QED BY <1>1, <1>2, <1>3 DEF Remaining

\* No memory is left of a range when the allocator is idle.
LEMMA NothingRemains ==
  ASSUME IInv, Stages, pc = "idle"
  PROVE  Remaining = {} /\ FreeMemory = Listed
<1>1. count = 0 /\ start \in Nat
  BY DEF Stages, IInv, TypeOK
<1> QED BY SMTT(60), <1>1 DEF Remaining, FreeMemory, InHand

\* init finds room for frame_order, or none.
LEMMA MetadataInv ==
  ASSUME MmIInv, PlaceMetadata \/ NoRoom
  PROVE  MmIInv' /\ UNCHANGED <<FreeMemory, owned>>
<1> USE DEF MmIInv
<1>1. /\ UNCHANGED <<vars, memmap, entry, piece, owned>>
      /\ boot = "metadata" /\ boot' \in {"ranges", "panic"}
      /\ order_phys' \in Nat
  <2>1. CASE PlaceMetadata
    <3>1. PICK i \in DOMAIN memmap : order_phys' = memmap[i].base
      BY <2>1 DEF PlaceMetadata
    <3>2. order_phys' \in Nat
      BY <3>1, Entries
    <3> QED BY <2>1, <3>2 DEF PlaceMetadata
  <2>2. CASE NoRoom
    BY <2>2 DEF NoRoom, BootTypes
  <2> QED BY <2>1, <2>2
<1>2. /\ IInv' /\ FreeMemory' = FreeMemory /\ Remaining' = Remaining
      /\ pc' = pc /\ start' = start /\ count' = count
  BY <1>1, AllocatorIdle
<1>3. pc = "idle" /\ FreeMemory = {} /\ owned = {} /\ entry = 1 /\ piece = 1 /\ count = 0
  BY <1>1 DEF Stages, BootTypes
<1>4. BootTypes'
  BY <1>1 DEF BootTypes
<1>5. Stages'
  BY <1>1, <1>2, <1>3 DEF Stages
<1>6. Giving'
  <2>1. Remaining = {}
    BY <1>3, NothingRemains
  <2>2. Given' = {}
    <3>1. \A i \in DOMAIN memmap : i \in Nat \ {0}
      BY SMTT(60), Entries
    <3> QED BY SMTT(60), <1>1, <1>3, <3>1 DEF Given
  <2> QED BY <1>2, <1>3, <2>1, <2>2 DEF Giving
<1>7. AllAccounted' /\ OwnedWhole' /\ SingleOwner'
  BY <1>1, <1>3 DEF AllAccounted, OwnedWhole, SingleOwner
<1> QED BY <1>1, <1>2, <1>4, <1>5, <1>6, <1>7

\* The next turn of init's loop gives away the part it is at, which overlaps
\* nothing given before.
LEMMA GivenNext ==
  ASSUME BootTypes, entry \in DOMAIN memmap, UNCHANGED <<memmap, order_phys>>,
         piece' = 3 - piece, entry' = IF piece = 2 THEN entry + 1 ELSE entry
  PROVE  Given' = Given \cup Part(entry, piece) /\ Given \cap Part(entry, piece) = {}
<1>1. /\ order_first \in Nat /\ order_last \in Nat /\ order_first <= order_last
      /\ entry \in Nat /\ piece \in {1, 2} /\ Frames \subseteq Nat
      /\ \A i \in DOMAIN memmap : i \in Nat
  BY SMTT(60), Metadata, Entries, Sizes DEF BootTypes
<1> DEFINE By(f, i, n, p) ==
             \/ f < order_first /\ (i < n \/ (i = n /\ p = 2))
             \/ f >= order_last /\ i < n
           In(f, p) == (p = 1 /\ f < order_first) \/ (p = 2 /\ f >= order_last)
<1>2. Given' = {f \in Frames \ {0} : \E i \in DOMAIN memmap :
                  InEntry(f, i) /\ By(f, i, entry', piece')}
  BY DEF Given, InEntry, order_first, order_last
<1>3. ASSUME NEW f \in Frames, NEW i \in DOMAIN memmap
      PROVE  By(f, i, entry', piece') <=> By(f, i, entry, piece) \/ (i = entry /\ In(f, piece))
  <2>1. f \in Nat /\ i \in Nat
    BY <1>1
  <2>2. CASE piece = 1
    <3>1. piece' = 2 /\ entry' = entry
      BY SMTT(60), <2>2
    <3> QED BY SMTT(60), <1>1, <2>1, <2>2, <3>1
  <2>3. CASE piece = 2
    <3>1. piece' = 1 /\ entry' = entry + 1
      BY SMTT(60), <2>3
    <3> QED BY SMTT(60), <1>1, <2>1, <2>3, <3>1
  <2> QED BY <1>1, <2>2, <2>3
<1>4. Given' = Given \cup Part(entry, piece)
  <2>1. \A f : f \in Given <=> f \in Frames \ {0} /\ \E i \in DOMAIN memmap :
                                 InEntry(f, i) /\ By(f, i, entry, piece)
    BY DEF Given
  <2>2. \A f : f \in Part(entry, piece) <=>
                 f \in Frames \ {0} /\ InEntry(f, entry) /\ In(f, piece)
    BY DEF Part
  <2>3. \A f : f \in Given' <=> f \in Frames \ {0} /\ \E i \in DOMAIN memmap :
                                  InEntry(f, i) /\ By(f, i, entry', piece')
    BY <1>2
  <2> HIDE DEF By, In
  <2>4. \A f : f \in Given' <=> f \in Given \/ f \in Part(entry, piece)
    BY <1>3, <2>1, <2>2, <2>3
  <2> QED BY <2>4
<1>5. ASSUME NEW f \in Given, f \in Part(entry, piece) PROVE FALSE
  <2>1. PICK i \in DOMAIN memmap : InEntry(f, i) /\
          \/ f < order_first /\ (i < entry \/ (i = entry /\ piece = 2))
          \/ f >= order_last /\ i < entry
    BY DEF Given
  <2>2. /\ f \in Nat /\ InEntry(f, entry)
        /\ (piece = 1 /\ f < order_first) \/ (piece = 2 /\ f >= order_last)
    BY <1>1, <1>5 DEF Part
  <2>3. i < entry
    BY SMTT(60), <1>1, <2>1, <2>2
  <2>4. memmap[i].base + memmap[i].length <= memmap[entry].base
    BY <2>3, Entries
  <2>5. /\ memmap[i].base \in Nat /\ memmap[i].length \in Nat /\ memmap[entry].base \in Nat
        /\ f * FRAME_SIZE \in Nat
    BY <2>2, Entries, FrameOf
  <2> QED BY SMTT(60), <2>1, <2>2, <2>4, <2>5 DEF InEntry
<1> QED BY <1>4, <1>5

\* One turn of init's loop over the parts of the entries.
LEMMA AddPieceInv ==
  ASSUME MmIInv, AddPiece
  PROVE  MmIInv' /\ UNCHANGED <<FreeMemory, owned>>
<1> USE DEF MmIInv
<1>1. /\ boot = "ranges" /\ pc = "idle" /\ entry \in DOMAIN memmap
      /\ piece' = 3 - piece /\ entry' = (IF piece = 2 THEN entry + 1 ELSE entry)
      /\ memmap' = memmap /\ boot' = boot /\ order_phys' = order_phys /\ owned' = owned
      /\ DonatePiece(memmap[entry], piece)
  BY DEF AddPiece
<1>2. Given' = Given \cup Part(entry, piece) /\ Given \cap Part(entry, piece) = {}
  BY <1>1, GivenNext
<1>3. FreeMemory = Given
  BY <1>1, NothingRemains DEF Giving
<1>4. BootTypes'
  <2>1. Len(memmap) \in Nat /\ DOMAIN memmap = 1..Len(memmap)
    BY Entries
  <2> QED BY SMTT(60), <1>1, <2>1 DEF BootTypes
<1>5. PICK s \in Nat, e \in Int :
        /\ s = Max({PieceStart(memmap[entry], piece), 1})
        /\ e = PieceEnd(memmap[entry], piece)
        /\ Part(entry, piece) = IF memmap[entry].usable THEN s..(e - 1) ELSE {}
  <2>1. piece \in {1, 2}
    BY DEF BootTypes
  <2> QED BY <1>1, <2>1, PartIs
<1>6. CASE memmap[entry].usable /\ e > s
  <2>1. AddRange(s, e - s)
    BY <1>1, <1>5, <1>6 DEF DonatePiece
  <2>2. /\ start' = s /\ count' = e - s /\ pc' = "ranging" /\ count' \in Nat
        /\ UNCHANGED <<lists, free_frames, frame, o, order>>
    BY SMTT(60), <1>5, <1>6, <2>1 DEF AddRange
  <2>3. IInv' /\ FreeMemory' = FreeMemory
    BY <1>1, <2>2, QuietInv
  <2>4. Remaining' = Part(entry, piece)
    BY SMTT(60), <1>5, <1>6, <2>2 DEF Remaining
  <2>5. Giving'
    BY <1>2, <1>3, <2>3, <2>4 DEF Giving
  <2>6. Stages'
    BY <1>1, <2>2, <2>3 DEF Stages
  <2>7. AllAccounted' /\ OwnedWhole' /\ SingleOwner'
    BY <1>1, <2>3 DEF AllAccounted, OwnedWhole, SingleOwner
  <2> QED BY <1>1, <1>4, <2>3, <2>5, <2>6, <2>7
<1>7. CASE ~(memmap[entry].usable /\ e > s)
  <2>1. UNCHANGED vars
    BY <1>1, <1>5, <1>7 DEF DonatePiece
  <2>2. IInv' /\ FreeMemory' = FreeMemory /\ Remaining' = Remaining /\ pc' = pc /\ count' = count
    BY <2>1, AllocatorIdle
  <2>3. Part(entry, piece) = {}
    BY SMTT(60), <1>5, <1>7
  <2>4. Giving'
    BY <1>1, <1>2, <2>2, <2>3 DEF Giving
  <2>5. Stages'
    BY <1>1, <2>2 DEF Stages
  <2>6. AllAccounted' /\ OwnedWhole' /\ SingleOwner'
    BY <1>1, <2>2 DEF AllAccounted, OwnedWhole, SingleOwner
  <2> QED BY <1>1, <1>4, <2>2, <2>4, <2>5, <2>6
<1> QED BY <1>6, <1>7

\* pmm::install: all that should be free is free.
LEMMA InstallInv ==
  ASSUME MmIInv, Install
  PROVE  MmIInv' /\ UNCHANGED <<FreeMemory, owned>>
<1> USE DEF MmIInv
<1>1. /\ boot = "ranges" /\ pc = "idle" /\ entry \notin DOMAIN memmap /\ boot' = "running"
      /\ UNCHANGED <<vars, memmap, order_phys, entry, piece, owned>>
  BY DEF Install
<1>2. IInv' /\ FreeMemory' = FreeMemory /\ pc' = pc /\ count' = count
  BY <1>1, AllocatorIdle
<1>3. entry = Len(memmap) + 1 /\ piece = 1 /\ \A i \in DOMAIN memmap : i < entry
  <2>1. Len(memmap) \in Nat /\ DOMAIN memmap = 1..Len(memmap)
    BY Entries
  <2> QED BY SMTT(60), <1>1, <2>1 DEF BootTypes
<1>4. FreeMemory = Given /\ owned = {} /\ count = 0
  BY <1>1, NothingRemains DEF Giving, Stages
<1>5. Given = UsableFrames \ ({0} \cup MetadataFrames)
  <2>1. order_first \in Nat /\ order_last \in Nat /\ Frames \subseteq Nat
    BY Metadata, Sizes
  <2>2. \A f \in Frames : f \in UsableFrames <=> \E i \in DOMAIN memmap : InEntry(f, i)
    BY DEF UsableFrames, InEntry
  <2>3. \A f \in Frames : f \in MetadataFrames <=> ~(f < order_first) /\ ~(f >= order_last)
    BY SMTT(60), <2>1 DEF MetadataFrames
  <2>4. UsableFrames \subseteq Frames
    BY DEF UsableFrames
  <2>5. \A f \in Frames : f \in Given <=> f # 0 /\ (f < order_first \/ f >= order_last)
                                          /\ \E i \in DOMAIN memmap : InEntry(f, i)
    BY <1>3 DEF Given
  <2>6. Given \subseteq Frames
    BY DEF Given
  <2> QED BY <2>2, <2>3, <2>4, <2>5, <2>6
<1>6. OwnedFrames = {}
  BY <1>4 DEF OwnedFrames
<1>7. AllAccounted'
  <2>1. OwnedFrames' = {} /\ UsableFrames' = UsableFrames /\ MetadataFrames' = MetadataFrames
    BY <1>1, <1>6, SameUsable DEF OwnedFrames
  <2> QED BY <1>2, <1>4, <1>5, <2>1 DEF AllAccounted
<1>8. BootTypes'
  BY <1>1 DEF BootTypes
<1>9. Stages' /\ Giving'
  BY <1>1, <1>2, <1>4 DEF Stages, Giving
<1>10. OwnedWhole' /\ SingleOwner'
  BY <1>1, <1>2 DEF OwnedWhole, SingleOwner
<1> QED BY <1>1, <1>2, <1>7, <1>8, <1>9, <1>10

\* alloc_pages for a caller: nothing leaves the allocator yet.
LEMMA ClientAllocInv ==
  ASSUME MmIInv, NEW k \in Orders, ClientAlloc(k)
  PROVE  MmIInv' /\ UNCHANGED <<FreeMemory, owned>>
<1> USE DEF MmIInv
<1>1. /\ boot = "running" /\ pc = "idle" /\ (AllocPages(k) \/ AllocNone(k))
      /\ UNCHANGED <<memmap, boot, order_phys, entry, piece, owned>>
  BY DEF ClientAlloc, boot_vars, AllocPages, AllocNone
<1>2. /\ IInv' /\ FreeMemory' = FreeMemory /\ pc' \in {"split", "idle"}
      /\ start' = start /\ count' = count
  <2>1. CASE AllocPages(k)
    BY <2>1, AllocPagesInv
  <2>2. CASE AllocNone(k)
    <3>1. UNCHANGED vars
      BY <2>2 DEF AllocNone
    <3> QED BY <1>1, <3>1, AllocatorIdle
  <2> QED BY <1>1, <2>1, <2>2
<1>3. Stages'
  BY <1>1, <1>2 DEF Stages
<1> QED BY <1>1, <1>2, <1>3, MovesNothing

\* The turns of the allocator's loops that keep memory in the allocator.
LEMMA LoopInv ==
  ASSUME MmIInv, Split \/ Coalesce \/ FreeDone, UNCHANGED <<boot_vars, owned>>
  PROVE  MmIInv' /\ UNCHANGED <<FreeMemory, owned>>
<1> USE DEF MmIInv
<1>1. UNCHANGED <<memmap, boot, order_phys, entry, piece, owned>>
  BY DEF boot_vars
<1>2. count \in Nat
  BY DEF IInv, TypeOK
<1>3. /\ IInv' /\ FreeMemory' = FreeMemory /\ start' = start /\ count' = count
      /\ Stages'
  <2>1. CASE Split
    <3>1. IInv' /\ FreeMemory' = FreeMemory /\ pc' = "split" /\ start' = start /\ count' = count
      BY <2>1, SplitInv
    <3>2. pc = "split"
      BY <2>1 DEF Split
    <3> QED BY <1>1, <3>1, <3>2 DEF Stages
  <2>2. CASE Coalesce
    <3>1. /\ IInv' /\ FreeMemory' = FreeMemory /\ pc' = "coalesce"
          /\ start' = start /\ count' = count
      BY <2>2, CoalesceInv
    <3>2. pc = "coalesce"
      BY <2>2 DEF Coalesce
    <3> QED BY <1>1, <3>1, <3>2 DEF Stages
  <2>3. CASE FreeDone
    <3>1. /\ IInv' /\ FreeMemory' = FreeMemory /\ start' = start /\ count' = count
          /\ pc' = IF count > 0 THEN "ranging" ELSE "idle"
      BY <2>3, FreeDoneInv
    <3>2. pc = "coalesce"
      BY <2>3 DEF FreeDone
    <3> QED BY SMTT(60), <1>1, <1>2, <3>1, <3>2 DEF Stages
  <2> QED BY <2>1, <2>2, <2>3
<1> QED BY <1>1, <1>3, MovesNothing

\* A block that is whole, aligned and not free is one free_pages accepts.
LEMMA Accepted ==
  ASSUME IInv, NEW f \in Nat, NEW k \in Orders, Aligned(f, k),
         Block(f, k) \subseteq Frames, Block(f, k) \cap FreeMemory = {}
  PROVE  /\ f * FRAME_SIZE \in Nat /\ frame_index(f * FRAME_SIZE) = f
         /\ FreeAccepted(f * FRAME_SIZE, k)
<1>1. FRAME_SIZE \in Nat \ {0}
  BY PmmAssumption
<1>2. /\ f * FRAME_SIZE \in Nat /\ frame_index(f * FRAME_SIZE) = f
      /\ (f * FRAME_SIZE) % FRAME_SIZE = 0
  BY <1>1, FrameOf DEF frame_index
<1>3. f \in Block(f, k) /\ f + 2^k <= TotalFrames
  BY BlockFacts
<1>4. block_unused(f, k)
  BY DEF block_unused, FreeMemory, Listed
<1>5. frame_order[f] = ORDER_NONE
  BY <1>3, <1>4 DEF block_unused
<1>6. k <= MAX_ORDER
  BY SMTT(60), Sizes DEF Orders
<1> QED BY <1>2, <1>3, <1>4, <1>5, <1>6 DEF FreeAccepted

\* One turn of add_range gives away a block that was not free.
LEMMA DonateInv ==
  ASSUME MmIInv, RangeStep, UNCHANGED <<boot_vars, owned>>
  PROVE  /\ MmIInv' /\ owned' = owned
         /\ \E S \in SUBSET Frames :
              S \cap (FreeMemory \cup OwnedFrames) = {} /\ FreeMemory' = FreeMemory \cup S
<1> USE DEF MmIInv
<1>1. /\ memmap' = memmap /\ boot' = boot /\ order_phys' = order_phys
      /\ entry' = entry /\ piece' = piece /\ owned' = owned
  BY DEF boot_vars
<1>2. start \in Nat /\ count \in Nat
  BY DEF IInv, TypeOK
<1>3. PICK k \in Orders :
        /\ pc = "ranging" /\ Aligned(start, k) /\ 2^k <= count
        /\ EnterFree(start * FRAME_SIZE, k)
        /\ FreeAccepted(start * FRAME_SIZE, k) =>
             /\ start' = IF count = 2^k THEN 0 ELSE start + 2^k
             /\ count' = count - 2^k
  BY DEF RangeStep, RangeOrder
<1>4. boot = "ranges" /\ owned = {} /\ OwnedFrames = {}
  <2>1. boot = "ranges"
    BY <1>3 DEF Stages, BootTypes
  <2> QED BY <2>1 DEF Stages, OwnedFrames
<1>5. FreeMemory \cup Remaining = Given /\ FreeMemory \cap Remaining = {}
  BY <1>4 DEF Giving
<1>6. k \in Nat /\ 2^k \in Nat \ {0}
  BY Sizes
<1>7. Block(start, k) \subseteq Remaining
  BY SMTT(60), <1>2, <1>3, <1>6 DEF Block, Remaining
<1>8. Block(start, k) \subseteq Frames /\ Block(start, k) \cap FreeMemory = {}
  BY <1>5, <1>7 DEF Given
<1>9. /\ start * FRAME_SIZE \in Nat /\ frame_index(start * FRAME_SIZE) = start
      /\ FreeAccepted(start * FRAME_SIZE, k)
  BY <1>2, <1>3, <1>8, Accepted
<1>10. /\ start' = IF count = 2^k THEN 0 ELSE start + 2^k
       /\ count' = count - 2^k /\ start' \in Nat /\ count' \in Nat
  BY SMTT(60), <1>2, <1>3, <1>6, <1>9
<1>11. IInv' /\ pc' = "coalesce" /\ FreeMemory' = FreeMemory \cup Block(start, k)
  BY <1>3, <1>6, <1>9, <1>10, EnterFreeInv
<1>12. Remaining' = Remaining \ Block(start, k)
  BY SMTT(60), <1>2, <1>3, <1>6, <1>10 DEF Remaining, Block
<1>13. Giving'
  <2>1. Given' = Given
    BY <1>1, SameGiven
  <2> QED BY <1>5, <1>7, <1>11, <1>12, <2>1 DEF Giving
<1>14. BootTypes'
  BY <1>1 DEF BootTypes
<1>15. Stages'
  BY <1>1, <1>4, <1>11 DEF Stages
<1>16. AllAccounted' /\ OwnedWhole' /\ SingleOwner'
  BY <1>1, <1>4 DEF AllAccounted, OwnedWhole, SingleOwner
<1>17. Block(start, k) \cap (FreeMemory \cup OwnedFrames) = {}
  BY <1>4, <1>8
<1> QED BY <1>1, <1>8, <1>11, <1>13, <1>14, <1>15, <1>16, <1>17

\* alloc_pages returns: its caller owns the block.
LEMMA AllocReturnsInv ==
  ASSUME MmIInv, AllocReturns
  PROVE  /\ MmIInv'
         /\ frame \in Frames /\ order \in Orders /\ Aligned(frame, order)
         /\ Block(frame, order) \subseteq FreeMemory
         /\ FreeMemory' = FreeMemory \ Block(frame, order)
         /\ owned' = owned \cup {<<frame, order>>}
<1> USE DEF MmIInv
<1>1. /\ AllocDone /\ owned' = owned \cup {<<frame, order>>}
      /\ memmap' = memmap /\ boot' = boot /\ order_phys' = order_phys
      /\ entry' = entry /\ piece' = piece
  BY DEF AllocReturns, boot_vars
<1>2. /\ IInv' /\ pc' = "idle" /\ count' = count
      /\ FreeMemory' = FreeMemory \ Block(frame, order)
      /\ Block(frame, order) \subseteq FreeMemory /\ Aligned(frame, order)
      /\ Block(frame, order) \subseteq Frames
  BY <1>1, AllocDoneInv
<1>3. frame \in Frames /\ order \in Orders
  BY DEF IInv, TypeOK
<1>4. boot = "running"
  <2>1. pc = "split"
    BY <1>1 DEF AllocDone
  <2> QED BY <2>1 DEF Stages, BootTypes
<1>5. <<frame, order>>[1] = frame /\ <<frame, order>>[2] = order
      /\ <<frame, order>> \in Frames \X Orders
  BY <1>3
<1>6. BootTypes'
  BY <1>1 DEF BootTypes
<1>7. Stages' /\ Giving'
  BY <1>1, <1>2, <1>4 DEF Stages, Giving
<1>8. OwnedWhole'
  BY <1>1, <1>2, <1>3, <1>5 DEF OwnedWhole
<1>9. SingleOwner'
  <2>1. \A c \in owned : Block(c[1], c[2]) \cap FreeMemory = {}
    BY DEF SingleOwner
  <2> QED BY <1>1, <1>2, <1>5, <2>1 DEF SingleOwner
<1>10. AllAccounted'
  <2>1. OwnedFrames' = OwnedFrames \cup Block(frame, order)
    BY <1>1, <1>5 DEF OwnedFrames
  <2>2. FreeMemory' \cup OwnedFrames' = FreeMemory \cup OwnedFrames
    BY <1>2, <2>1
  <2>3. UsableFrames' = UsableFrames /\ MetadataFrames' = MetadataFrames
    BY <1>1, SameUsable
  <2> QED BY <1>1, <1>4, <2>2, <2>3 DEF AllAccounted
<1> QED BY <1>1, <1>2, <1>3, <1>6, <1>7, <1>8, <1>9, <1>10

\* A caller frees a block it owns: free_pages takes it.
LEMMA ClientFreeInv ==
  ASSUME MmIInv, NEW b \in owned, ClientFree(b)
  PROVE  /\ MmIInv' /\ owned' = owned \ {b}
         /\ FreeMemory' = FreeMemory \cup Block(b[1], b[2])
<1> USE DEF MmIInv
<1>1. /\ boot = "running" /\ pc = "idle" /\ owned' = owned \ {b}
      /\ EnterFree(b[1] * FRAME_SIZE, b[2]) /\ start' = start /\ count' = count
      /\ memmap' = memmap /\ boot' = boot /\ order_phys' = order_phys
      /\ entry' = entry /\ piece' = piece
  BY DEF ClientFree, FreePages, boot_vars
<1>2. PICK f \in Frames, k \in Orders : f = b[1] /\ k = b[2]
  BY DEF OwnedWhole
<1>3. f \in Nat /\ k \in Nat
  BY Sizes
<1>4. /\ Aligned(f, k) /\ Block(f, k) \subseteq Frames /\ Block(f, k) \cap FreeMemory = {}
      /\ \A c \in owned : c # b => Block(f, k) \cap Block(c[1], c[2]) = {}
  BY <1>2 DEF OwnedWhole, SingleOwner
<1>5. /\ f * FRAME_SIZE \in Nat /\ frame_index(f * FRAME_SIZE) = f
      /\ FreeAccepted(f * FRAME_SIZE, k)
  BY <1>3, <1>4, Accepted
<1>6. start \in Nat /\ count \in Nat /\ count = 0
  BY <1>1 DEF IInv, TypeOK, Stages
<1>7. IInv' /\ pc' = "coalesce" /\ FreeMemory' = FreeMemory \cup Block(f, k)
  BY <1>1, <1>2, <1>3, <1>5, <1>6, EnterFreeInv
<1>8. BootTypes'
  BY <1>1 DEF BootTypes
<1>9. Stages' /\ Giving'
  BY <1>1, <1>6, <1>7 DEF Stages, Giving
<1>10. OwnedWhole'
  BY <1>1 DEF OwnedWhole
<1>11. SingleOwner'
  <2>1. \A c \in owned' : Block(c[1], c[2]) \cap FreeMemory' = {}
    <3> SUFFICES ASSUME NEW c \in owned' PROVE Block(c[1], c[2]) \cap FreeMemory' = {}
      OBVIOUS
    <3>1. c \in owned /\ c # b
      BY <1>1
    <3>2. Block(c[1], c[2]) \cap FreeMemory = {} /\ Block(f, k) \cap Block(c[1], c[2]) = {}
      BY <1>4, <3>1 DEF SingleOwner
    <3> QED BY <1>7, <3>2
  <2> QED BY <1>1, <2>1 DEF SingleOwner
<1>12. AllAccounted'
  <2>1. OwnedFrames' \cup Block(f, k) = OwnedFrames
    BY <1>1, <1>2 DEF OwnedFrames
  <2>2. UsableFrames' = UsableFrames /\ MetadataFrames' = MetadataFrames
    BY <1>1, SameUsable
  <2>3. FreeMemory' \cup OwnedFrames' = FreeMemory \cup OwnedFrames
    BY <1>7, <2>1
  <2> QED BY <1>1, <2>2, <2>3 DEF AllAccounted
<1> QED BY <1>1, <1>2, <1>7, <1>8, <1>9, <1>10, <1>11, <1>12

-----------------------------------------------------------------------------
(***************************************************************************)
(* Every step keeps the invariant and is a step of the abstract allocator, *)
(* or none.                                                                *)
(***************************************************************************)
LEMMA MmInductive ==
  ASSUME MmIInv, [MmNext]_mm_vars
  PROVE  MmIInv' /\ [Allocator!Next]_(Allocator!vars)
<1> DEFINE Goal == MmIInv' /\ [Allocator!Next]_(Allocator!vars)
<1>1. ASSUME MmIInv' /\ UNCHANGED <<FreeMemory, owned>> PROVE Goal
  BY <1>1 DEF Allocator!vars
<1>2. CASE PlaceMetadata \/ NoRoom
  BY <1>1, <1>2, MetadataInv
<1>3. CASE AddPiece
  BY <1>1, <1>3, AddPieceInv
<1>4. CASE Install
  BY <1>1, <1>4, InstallInv
<1>5. CASE AllocReturns
  <2>1. /\ MmIInv' /\ frame \in Frames /\ order \in Orders /\ Aligned(frame, order)
        /\ Block(frame, order) \subseteq FreeMemory
        /\ FreeMemory' = FreeMemory \ Block(frame, order)
        /\ owned' = owned \cup {<<frame, order>>}
    BY <1>5, AllocReturnsInv
  <2>2. Allocator!Alloc(frame, order)
    BY <2>1 DEF Allocator!Alloc, Allocator!Fits, Allocator!Block, Aligned, Block
  <2>3. Allocator!Next
    BY <2>1, <2>2 DEF Allocator!Next, Allocator!Frames, Allocator!Orders, Frames, Orders
  <2> QED BY <2>1, <2>3
<1>6. CASE PmmStep
  <2>1. CASE Split \/ Coalesce \/ FreeDone
    BY <1>1, <1>6, <2>1, LoopInv DEF PmmStep
  <2>2. CASE RangeStep
    <3>1. /\ MmIInv' /\ owned' = owned
          /\ \E S \in SUBSET Frames :
               S \cap (FreeMemory \cup OwnedFrames) = {} /\ FreeMemory' = FreeMemory \cup S
      BY <1>6, <2>2, DonateInv DEF PmmStep
    <3>2. Allocator!OwnedFrames = OwnedFrames
      BY DEF Allocator!OwnedFrames, OwnedFrames, Allocator!Block, Block
    <3>3. \E S \in SUBSET Frames : Allocator!Donate(S)
      BY <3>1, <3>2 DEF Allocator!Donate
    <3>4. Allocator!Next
      BY <3>3 DEF Allocator!Next, Allocator!Frames, Frames
    <3> QED BY <3>1, <3>4
  <2> QED BY <1>6, <2>1, <2>2 DEF PmmStep
<1>7. ASSUME NEW k \in Orders, ClientAlloc(k) PROVE Goal
  BY <1>1, <1>7, ClientAllocInv
<1>8. ASSUME NEW b \in owned, ClientFree(b) PROVE Goal
  <2>1. /\ MmIInv' /\ owned' = owned \ {b}
        /\ FreeMemory' = FreeMemory \cup Block(b[1], b[2])
    BY <1>8, ClientFreeInv
  <2>2. PICK f \in Frames, k \in Orders : b = <<f, k>> /\ b[1] = f /\ b[2] = k
    BY SMTT(60) DEF MmIInv, OwnedWhole
  <2>3. Allocator!Free(f, k)
    BY <2>1, <2>2 DEF Allocator!Free, Allocator!Block, Block
  <2>4. Allocator!Next
    BY <2>2, <2>3 DEF Allocator!Next, Allocator!Frames, Allocator!Orders, Frames, Orders
  <2> QED BY <2>1, <2>4
<1>9. CASE UNCHANGED mm_vars
  <2>1. UNCHANGED <<vars, memmap, boot, order_phys, entry, piece, owned>>
    BY <1>9 DEF mm_vars, boot_vars
  <2>2. IInv' /\ FreeMemory' = FreeMemory /\ pc' = pc /\ start' = start /\ count' = count
    BY <2>1, AllocatorIdle DEF MmIInv
  <2>3. Stages'
    BY <2>1, <2>2 DEF MmIInv, Stages
  <2>4. MmIInv'
    BY <2>1, <2>2, <2>3, MovesNothing
  <2> QED BY <1>1, <2>1, <2>2, <2>4
<1>10. CASE Halted
  BY <1>9, <1>10 DEF Halted
<1> QED BY <1>2, <1>3, <1>4, <1>5, <1>6, <1>7, <1>8, <1>9, <1>10 DEF MmNext, MmStep

\* Before init nothing is free, and nothing owned.
LEMMA MmInitially ==
  ASSUME MmInit
  PROVE  MmIInv /\ Allocator!Init
<1>1. /\ IInv /\ memmap \in MemMaps /\ total_frames(memmap) = TotalFrames
      /\ boot = "metadata" /\ order_phys = 0 /\ entry = 1 /\ piece = 1 /\ owned = {}
      /\ pc = "idle" /\ count = 0
  BY Initially DEF MmInit, Init
<1>2. FreeMemory = {}
  BY DEF MmInit, Init, FreeMemory, Listed, InHand
<1>3. BootTypes
  <2>1. Len(memmap) \in Nat
    <3> DEFINE E == [base : Nat, length : Nat, usable : BOOLEAN]
    <3>1. memmap \in Seq(E)
      BY <1>1, MemMapsWellFormed DEF WellFormed
    <3> HIDE DEF E
    <3> QED BY SMTT(60), <3>1
  <2> QED BY SMTT(60), <1>1, <2>1 DEF BootTypes
<1>4. Stages /\ Giving /\ AllAccounted
  BY <1>1, <1>2 DEF Stages, Giving, AllAccounted
<1>5. OwnedWhole /\ SingleOwner
  BY <1>1 DEF OwnedWhole, SingleOwner
<1> QED BY <1>1, <1>2, <1>3, <1>4, <1>5 DEF MmIInv, Allocator!Init

\* The inductive invariant holds in every reachable state.
LEMMA MmInvariant == MmSpec => []MmIInv
<1>1. MmInit => MmIInv
  BY MmInitially
<1>2. MmIInv /\ [MmNext]_mm_vars => MmIInv'
  BY MmInductive
<1> QED BY <1>1, <1>2, PTL DEF MmSpec

(***************************************************************************)
(* After mm::init the usable frames, less frame 0 and frame_order's own,   *)
(* are each free or held by a caller, and no frame alloc_pages handed out  *)
(* is free or handed out twice, for every memory map and all callers that  *)
(* free what they were given.                                              *)
(***************************************************************************)
THEOREM NothingLost == MmSpec => []Conservation
<1>1. MmIInv => Conservation
  BY DEF MmIInv, Conservation
<1> QED BY <1>1, MmInvariant, PTL

(***************************************************************************)
(* init and callers that free each block once trip no assertion of pmm.rs. *)
(***************************************************************************)
THEOREM NoPanic == MmSpec => []DisciplineNeverPanics
<1>1. MmIInv => DisciplineNeverPanics
  BY DEF MmIInv, IInv, NeverCorrupt, Stages, DisciplineNeverPanics
<1> QED BY <1>1, MmInvariant, PTL

(***************************************************************************)
(* The buddy allocator with its boot implements the set of frames that     *)
(* FrameAllocator describes: a range is given away block by block, and     *)
(* alloc_pages and free_pages take effect in one step each.                *)
(***************************************************************************)
THEOREM Refines == MmSpec => ImplementsAllocator
<1>1. MmInit => Allocator!Init
  BY MmInitially
<1>2. MmIInv /\ [MmNext]_mm_vars => [Allocator!Next]_(Allocator!vars)
  BY MmInductive
<1> QED BY <1>1, <1>2, MmInvariant, PTL DEF MmSpec, ImplementsAllocator, Allocator!Spec
=============================================================================
