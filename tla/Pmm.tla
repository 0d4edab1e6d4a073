-------------------------------- MODULE Pmm --------------------------------
(***************************************************************************)
(* The physical frame allocator of kernel/src/mm/pmm.rs: a buddy allocator *)
(* whose free blocks are kept on one doubly linked list per order.  The    *)
(* list links live in the first bytes of the free frames themselves.       *)
(*                                                                         *)
(* Every public operation runs with the PMM lock held, so operations do    *)
(* not interleave with each other.  Their loops are modelled one iteration *)
(* per action: `pc' says which loop the lock holder is in.  A failing      *)
(* assert! ends in the panic handler, which never returns: "rejected" when *)
(* the assertion judges the caller's arguments, "corrupt" when it judges   *)
(* the allocator's own state.                                              *)
(*                                                                         *)
(* The caller of this module is unconstrained: any address may be freed at *)
(* any order, and any range may be added.                                  *)
(***************************************************************************)
EXTENDS Integers, FiniteSets

CONSTANTS
  MAX_ORDER,    \* order of the largest block (11 in the source)
  TotalFrames,  \* total_frames, the length of the frame_order slice
  FRAME_SIZE    \* bytes in a frame (4096 in the source)

ASSUME PmmAssumption ==
  /\ MAX_ORDER \in 0..254
  /\ TotalFrames \in Nat \ {0}
  /\ FRAME_SIZE \in Nat \ {0}

\* Doubling of the block sizes 1 << k, which the provers do not know of.
ASSUME PowersOfTwo ==
  \A k \in 0..MAX_ORDER : 2^k \in Nat \ {0} /\ 2^(k + 1) = 2 * 2^k

VARIABLES
  free_lists,   \* head of the free list of each order
  prev, next,   \* links stored in the frames
  frame_order,  \* order of the free block a frame belongs to, or ORDER_NONE
  free_frames,  \* the counter that stats() reports
  pc,           \* where the lock holder is
  frame, o,     \* locals of alloc_pages and free_pages: block in hand
  order,        \* alloc_pages: the order asked for
  start, count  \* locals of add_range

lists == <<free_lists, prev, next, frame_order>>
locals == <<frame, o, order, start, count>>
vars == <<lists, free_frames, pc, locals>>

-----------------------------------------------------------------------------
Orders == 0..MAX_ORDER
Frames == 0..(TotalFrames - 1)
ORDER_NONE == 255

\* Option::None of a link, and the contents of memory the allocator does not
\* own: whatever its owner wrote there, never to be read as a link.
None == -1
Junk == -2

Block(f, k) == f..(f + 2^k - 1)
Aligned(f, k) == f % 2^k = 0

\* frame ^ (1 << k) and frame & !(1 << k), for a frame aligned to order k.
Buddy(f, k) == IF Aligned(f, k + 1) THEN f + 2^k ELSE f - 2^k

\* Mutant: two merged blocks start where the freed one does.
Merged_Upper(f, k) == f

Merged(f, k) == IF Aligned(f, k + 1) THEN f ELSE f - 2^k

set_block_order(f, k, value) ==
  [g \in Frames |-> IF g \in Block(f, k) THEN value ELSE frame_order[g]]

block_unused(f, k) ==
  \A g \in Block(f, k) : g \in Frames /\ frame_order[g] = ORDER_NONE

list_push(f, k) ==
  /\ free_lists' = [free_lists EXCEPT ![k] = f]
  /\ prev' = [g \in Frames |-> IF g = f THEN None
                               ELSE IF g = free_lists[k] THEN f ELSE prev[g]]
  /\ next' = [next EXCEPT ![f] = free_lists[k]]
  /\ frame_order' = set_block_order(f, k, k)

\* Mutant: the block before the removed one keeps pointing at it.
list_remove_Dangling(f, k) ==
  /\ free_lists' = [free_lists EXCEPT ![k] = IF prev[f] = None THEN next[f] ELSE @]
  /\ prev' = [g \in Frames |-> IF g = f THEN Junk
                               ELSE IF g = next[f] THEN prev[f] ELSE prev[g]]
  /\ next' = [next EXCEPT ![f] = Junk]
  /\ frame_order' = set_block_order(f, k, ORDER_NONE)

\* The links of the removed block are dead from here on.
list_remove(f, k) ==
  /\ free_lists' = [free_lists EXCEPT ![k] = IF prev[f] = None THEN next[f] ELSE @]
  /\ prev' = [g \in Frames |-> IF g = f THEN Junk
                               ELSE IF g = next[f] THEN prev[f] ELSE prev[g]]
  /\ next' = [g \in Frames |-> IF g = f THEN Junk
                               ELSE IF g = prev[f] THEN next[f] ELSE next[g]]
  /\ frame_order' = set_block_order(f, k, ORDER_NONE)

\* The assertions, bounds checks and pointer reads of list_push and list_remove.
PushAllowed(f, k) == block_unused(f, k)
RemoveAllowed(f, k) ==
  /\ f \in Frames /\ f + 2^k <= TotalFrames
  /\ frame_order[f] = k
  /\ {prev[f], next[f]} \subseteq Frames \cup {None}

Fail(how) ==
  /\ pc' = how
  /\ UNCHANGED <<lists, free_frames, locals>>

Return ==
  /\ frame' = 0 /\ o' = 0 /\ order' = 0
  /\ UNCHANGED <<start, count>>

-----------------------------------------------------------------------------
(***************************************************************************)
(* alloc_pages.                                                            *)
(***************************************************************************)
FirstNonEmpty(k, current) ==
  /\ free_lists[current] # None
  /\ \A c \in k..(current - 1) : free_lists[c] = None

AllocPages(k) ==
  /\ pc = "idle"
  /\ \E current \in k..MAX_ORDER :
       /\ FirstNonEmpty(k, current)
       /\ LET f == free_lists[current] IN
            IF RemoveAllowed(f, current)
            THEN /\ list_remove(f, current)
                 /\ pc' = "split"
                 /\ frame' = f /\ o' = current /\ order' = k
                 /\ UNCHANGED <<free_frames, start, count>>
            ELSE Fail("corrupt")

\* No block of the order asked for or above: the caller gets Option::None.
AllocNone(k) ==
  /\ pc = "idle"
  /\ \A c \in k..MAX_ORDER : free_lists[c] = None
  /\ UNCHANGED vars

AllocOutOfRange(k) ==
  /\ pc = "idle"
  /\ k > MAX_ORDER
  /\ Fail("rejected")

\* One turn of the splitting loop: the upper half goes back on a list.
Split ==
  /\ pc = "split" /\ o > order
  /\ LET buddy == frame + 2^(o - 1) IN
       IF PushAllowed(buddy, o - 1)
       THEN /\ list_push(buddy, o - 1)
            /\ o' = o - 1
            /\ UNCHANGED <<free_frames, pc, frame, order, start, count>>
       ELSE Fail("corrupt")

\* The block [frame, frame + 2^order) is returned to the caller.
AllocDone ==
  /\ pc = "split" /\ o = order
  /\ IF free_frames >= 2^order
     THEN /\ free_frames' = free_frames - 2^order
          /\ pc' = "idle"
          /\ Return
          /\ UNCHANGED lists
     ELSE Fail("corrupt")

-----------------------------------------------------------------------------
(***************************************************************************)
(* free_pages.                                                             *)
(***************************************************************************)
frame_index(addr) == addr \div FRAME_SIZE

FreeAccepted(addr, k) ==
  LET f == frame_index(addr) IN
    /\ k <= MAX_ORDER
    /\ addr % FRAME_SIZE = 0
    /\ f + 2^k <= TotalFrames
    /\ Aligned(f, k)
    /\ frame_order[f] = ORDER_NONE
    /\ block_unused(f, k)

\* Mutant: a freed block is counted as one frame.
EnterFree_CountsOne(addr, k) ==
  IF FreeAccepted(addr, k)
  THEN /\ pc' = "coalesce"
       /\ frame' = frame_index(addr) /\ o' = k
       /\ free_frames' = free_frames + 1
       /\ UNCHANGED <<lists, order>>
  ELSE /\ pc' = "rejected"
       /\ UNCHANGED <<lists, free_frames, frame, o, order>>

\* The entry of free_pages: the assertions, then the counter.
EnterFree(addr, k) ==
  IF FreeAccepted(addr, k)
  THEN /\ pc' = "coalesce"
       /\ frame' = frame_index(addr) /\ o' = k
       /\ free_frames' = free_frames + 2^k
       /\ UNCHANGED <<lists, order>>
  ELSE /\ pc' = "rejected"
       /\ UNCHANGED <<lists, free_frames, frame, o, order>>

FreePages(addr, k) ==
  /\ pc = "idle"
  /\ EnterFree(addr, k)
  /\ UNCHANGED <<start, count>>

\* Mutant: blocks are never merged up to the largest order.
BuddyIsFree_StopsEarly ==
  /\ o < MAX_ORDER - 1
  /\ Buddy(frame, o) < TotalFrames
  /\ frame_order[Buddy(frame, o)] = o

\* Mutant: a buddy of which a part is free will do.
BuddyIsFree_AnyOrder ==
  /\ o < MAX_ORDER
  /\ Buddy(frame, o) < TotalFrames
  /\ frame_order[Buddy(frame, o)] # ORDER_NONE

BuddyIsFree ==
  /\ o < MAX_ORDER
  /\ Buddy(frame, o) < TotalFrames
  /\ frame_order[Buddy(frame, o)] = o

\* One turn of the merging loop.
Coalesce ==
  /\ pc = "coalesce"
  /\ BuddyIsFree
  /\ LET buddy == Buddy(frame, o) IN
       IF RemoveAllowed(buddy, o)
       THEN /\ list_remove(buddy, o)
            /\ frame' = Merged(frame, o)
            /\ o' = o + 1
            /\ UNCHANGED <<free_frames, pc, order, start, count>>
       ELSE Fail("corrupt")

\* The merged block goes on its list; add_range carries on with what is left.
FreeDone ==
  /\ pc = "coalesce"
  /\ ~BuddyIsFree
  /\ IF PushAllowed(frame, o)
     THEN /\ list_push(frame, o)
          /\ pc' = IF count > 0 THEN "ranging" ELSE "idle"
          /\ Return
          /\ UNCHANGED free_frames
     ELSE Fail("corrupt")

-----------------------------------------------------------------------------

(***************************************************************************)
(* add_range: cuts a range into the largest aligned blocks and frees them. *)
(***************************************************************************)
\* k = min(trailing_zeros(s), ilog2(c), MAX_ORDER)
RangeOrder(s, c, k) ==
  /\ Aligned(s, k) /\ 2^k <= c
  /\ k = MAX_ORDER \/ ~Aligned(s, k + 1) \/ 2^(k + 1) > c

AddRange(s, c) ==
  /\ pc = "idle"
  /\ c > 0
  /\ start' = s /\ count' = c
  /\ pc' = "ranging"
  /\ UNCHANGED <<lists, free_frames, frame, o, order>>

\* Mutant: `count -= block' is missing.
RangeStep_CountStays ==
  /\ pc = "ranging"
  /\ \E k \in Orders :
       /\ RangeOrder(start, count, k)
       /\ EnterFree(start * FRAME_SIZE, k)
       /\ IF FreeAccepted(start * FRAME_SIZE, k)
          THEN start' = start + 2^k /\ count' = count
          ELSE UNCHANGED <<start, count>>

RangeStep ==
  /\ pc = "ranging"
  /\ \E k \in Orders :
       /\ RangeOrder(start, count, k)
       /\ EnterFree(start * FRAME_SIZE, k)
       /\ IF FreeAccepted(start * FRAME_SIZE, k)
          THEN /\ start' = IF count = 2^k THEN 0 ELSE start + 2^k
               /\ count' = count - 2^k
          ELSE UNCHANGED <<start, count>>

\* hcf: the panic handler halts for good.
hcf ==
  /\ pc \in {"rejected", "corrupt"}
  /\ UNCHANGED vars

-----------------------------------------------------------------------------
\* Pmm::new
Init ==
  /\ free_lists = [k \in Orders |-> None]
  /\ prev = [f \in Frames |-> Junk]
  /\ next = [f \in Frames |-> Junk]
  /\ frame_order = [f \in Frames |-> ORDER_NONE]
  /\ free_frames = 0
  /\ pc = "idle"
  /\ frame = 0 /\ o = 0 /\ order = 0
  /\ start = 0 /\ count = 0

\* Any address up to one frame past the end, aligned or not.
Addrs == 0..((TotalFrames + 1) * FRAME_SIZE)

\* The turns of the loops, which the lock holder takes without being asked.
Step == Split \/ AllocDone \/ Coalesce \/ FreeDone \/ RangeStep

Next ==
  \/ \E k \in Orders : AllocPages(k)
  \/ \E k \in Orders : AllocNone(k)
  \/ AllocOutOfRange(MAX_ORDER + 1)
  \/ \E addr \in Addrs, k \in 0..(MAX_ORDER + 1) : FreePages(addr, k)
  \/ \E s \in Frames, c \in 1..TotalFrames : AddRange(s, c)
  \/ Step
  \/ hcf

Spec == Init /\ [][Next]_vars

\* The lock is held with interrupts off: nothing keeps the holder from going on.
FairSpec == Spec /\ WF_vars(Step)
-----------------------------------------------------------------------------
(***************************************************************************)
(* Properties.                                                             *)
(***************************************************************************)
\* Types: every link is a frame, None or Junk; the block in hand is in memory.
TypeOK ==
  /\ free_lists \in [Orders -> Frames \cup {None}]
  /\ prev \in [Frames -> Frames \cup {None, Junk}]
  /\ next \in [Frames -> Frames \cup {None, Junk}]
  /\ frame_order \in [Frames -> Orders \cup {ORDER_NONE}]
  /\ free_frames \in Nat
  /\ pc \in {"idle", "split", "coalesce", "ranging", "rejected", "corrupt"}
  /\ frame \in Frames /\ o \in Orders /\ order \in Orders
  /\ start \in Nat /\ count \in Nat

FreeBlock(h, k) == frame_order[h] = k /\ Aligned(h, k)
Listed == {f \in Frames : frame_order[f] # ORDER_NONE}
InHand == IF pc \in {"split", "coalesce"} THEN Block(frame, o) ELSE {}

\* The memory a caller could still be given: on the lists, or in the hand of
\* an operation that has not yet returned it.
FreeMemory == Listed \cup InHand

\* frame_order cuts the listed frames into whole, aligned blocks.
WholeBlocks ==
  /\ \A h \in Frames, k \in Orders :
       FreeBlock(h, k) => \A g \in Block(h, k) : g \in Frames /\ frame_order[g] = k
  /\ \A f \in Listed : \E h \in Frames :
       FreeBlock(h, frame_order[f]) /\ f \in Block(h, frame_order[f])

\* The block in hand is aligned, lies in memory and is on no list.
HandApart ==
  pc \in {"split", "coalesce"} =>
    /\ Aligned(frame, o)
    /\ block_unused(frame, o)
    /\ pc = "split" => order <= o

\* Head, prev and next agree with each other on the free blocks of each order.
Linked ==
  /\ \A k \in Orders : free_lists[k] # None =>
       FreeBlock(free_lists[k], k) /\ prev[free_lists[k]] = None
  /\ \A h \in Frames, k \in Orders : FreeBlock(h, k) =>
       /\ \/ prev[h] = None /\ free_lists[k] = h
          \/ prev[h] \in Frames /\ FreeBlock(prev[h], k) /\ next[prev[h]] = h
       /\ \/ next[h] = None
          \/ next[h] \in Frames /\ FreeBlock(next[h], k) /\ prev[next[h]] = h

\* No part of a list runs in a circle: going back along prev leaves it.
NoCycles ==
  \A k \in Orders : \A S \in SUBSET {h \in Frames : FreeBlock(h, k)} :
    S # {} => \E h \in S : prev[h] \notin S

\* Merging is eager: two buddies are never both free blocks of their order.
NoFreeBuddies ==
  \A h \in Frames, k \in 0..(MAX_ORDER - 1) :
    FreeBlock(h, k) => ~(Buddy(h, k) \in Frames /\ FreeBlock(Buddy(h, k), k))

(***************************************************************************)
(* The counter behind stats() is exactly the number of frames that are     *)
(* free, at every turn of every loop and whatever the callers free.  So    *)
(* `free_frames -= 1 << order' cannot underflow.                           *)
(***************************************************************************)
CountMatches == free_frames = Cardinality(FreeMemory)

(***************************************************************************)
(* No sequence of calls, misuse included, makes an assertion inside        *)
(* list_push or list_remove fail, makes them index past frame_order, makes *)
(* them follow a link out of memory the allocator does not own, or makes   *)
(* the counter underflow: a bad call is stopped by the assertions at the   *)
(* head of free_pages or not at all.                                       *)
(***************************************************************************)
NeverCorrupt == pc # "corrupt"

\* S holds the head of list k and, with each block, the next one.
FollowsNext(S, k) ==
  /\ free_lists[k] # None => free_lists[k] \in S
  /\ \A f \in S : FreeBlock(f, k) /\ next[f] # None => next[f] \in S

(***************************************************************************)
(* Following next from the head of a list visits every free block of that  *)
(* order, and each step of the way leads to one: list_push and list_remove *)
(* lose no block.                                                          *)
(***************************************************************************)
ListsComplete ==
  \A k \in Orders :
    LET blocks == {h \in Frames : FreeBlock(h, k)} IN
      /\ FollowsNext(blocks, k)
      /\ \A S \in SUBSET blocks : FollowsNext(S, k) => S = blocks

Available(k) == \E f \in Frames : Aligned(f, k) /\ Block(f, k) \subseteq Listed

(***************************************************************************)
(* alloc_pages returns None only when memory really has no free, aligned   *)
(* run of 2^k frames: free_pages merges eagerly enough that fragmentation  *)
(* never hides such a run from the list search.                            *)
(***************************************************************************)
ExhaustionIsReal ==
  pc = "idle" => \A k \in Orders :
    (\A c \in k..MAX_ORDER : free_lists[c] = None) => ~Available(k)

(***************************************************************************)
(* The inductive invariant the proofs rest on.                             *)
(***************************************************************************)
IInv ==
  /\ TypeOK
  /\ WholeBlocks
  /\ HandApart
  /\ Linked
  /\ NoCycles
  /\ NoFreeBuddies
  /\ CountMatches
  /\ NeverCorrupt

LegalRange ==
  pc = "ranging" /\ start..(start + count - 1) \subseteq Frames \ Listed

(***************************************************************************)
(* Every accepted call ends in its return: the splitting and merging loops *)
(* reach their exit, and add_range of memory that is not free yet hands    *)
(* over the whole range, block after block, with none of them refused.     *)
(***************************************************************************)
OperationsEnd ==
  pc = "split" \/ (pc = "coalesce" /\ count = 0) \/ LegalRange ~> pc = "idle"
=============================================================================
