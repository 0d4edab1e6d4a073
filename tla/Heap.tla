-------------------------------- MODULE Heap --------------------------------
(***************************************************************************)
(* The kernel heap (kernel/src/mm/heap.rs), the #[global_allocator]: small *)
(* layouts come from slabs of one frame each, one size class (bucket) per  *)
(* slab, larger ones straight from the frame allocator, of which it sees   *)
(* what FrameAllocator promises.  Each operation runs with the heap lock   *)
(* held and is one action.                                                 *)
(*                                                                         *)
(* Stacks threaded through memory are modelled as sequences: partial[b] is *)
(* the chain of Slab::next from the head of bucket b, free_objs[f] the     *)
(* chain of FreeObj::next from Slab::free of the slab in frame f.          *)
(***************************************************************************)
EXTENDS Integers, Sequences, Functions

CONSTANTS
  FRAME_SIZE,        \* bytes in a frame and in a slab
  MAX_ORDER, TotalFrames,
  MIN_BUCKET_SHIFT, MAX_BUCKET_SHIFT,
  HEADER_SIZE,       \* size_of::<Slab>()
  HHDM_OFFSET,       \* where physical memory is mapped
  MAX_SHIFT,         \* the largest power of two a usize holds is 2^MAX_SHIFT
  Layouts,           \* the layouts callers ask for: <<size, align>>
  Donated            \* the frames mm::init left to the allocator

ASSUME HeapAssumption ==
  /\ HEADER_SIZE \in Nat \ {0} /\ MAX_ORDER \in Nat /\ TotalFrames \in Nat /\ MAX_SHIFT \in Nat
  /\ MIN_BUCKET_SHIFT \in Nat /\ MAX_BUCKET_SHIFT \in Nat
  /\ MIN_BUCKET_SHIFT <= MAX_BUCKET_SHIFT
  /\ \E s \in MAX_BUCKET_SHIFT..(MAX_SHIFT - MAX_ORDER) : FRAME_SIZE = 2^s
  /\ HHDM_OFFSET \in Nat /\ HHDM_OFFSET % (FRAME_SIZE * 2^MAX_ORDER) = 0
  /\ Donated \subseteq 1..(TotalFrames - 1)

\* A layout has a size above zero and an alignment that is a power of two.
ASSUME LayoutAssumption ==
  \A L \in Layouts : L[1] \in Nat \ {0} /\ \E k \in 0..MAX_SHIFT : L[2] = 2^k

\* Doubling, which the provers do not know of.
ASSUME PowersOfTwo ==
  2^0 = 1 /\ \A k \in 0..MAX_SHIFT : 2^k \in Nat \ {0} /\ 2^(k + 1) = 2 * 2^k

VARIABLES
  free, owned,   \* the frame allocator
  active,        \* active[b]: the slab bucket b allocates from, or None
  partial,       \* partial[b]: the other slabs known to have free objects
  free_objs,     \* free_objs[f]: free list of the slab in frame f
  slab_bucket,   \* history: the bucket the slab in frame f was made for
  live,          \* what callers hold: [ptr, layout]
  others,        \* blocks held by other users of the frame allocator
  ub             \* unwrap_unchecked was reached with no object to take

vars == <<free, owned, active, partial, free_objs, slab_bucket, live, others, ub>>
slab_vars == <<active, partial, free_objs, slab_bucket, ub>>

F == INSTANCE FrameAllocator

None == -1
Frames == F!Frames
Buckets == 0..(MAX_BUCKET_SHIFT - MIN_BUCKET_SHIFT)
OBJ_SIZE(b) == 2^(MIN_BUCKET_SHIFT + b)

-----------------------------------------------------------------------------
Maximum(S) == CHOOSE n \in S : \A m \in S : m <= n
Minimum(S) == CHOOSE n \in S : \A m \in S : n <= m

phys_to_virt(f) == f * FRAME_SIZE + HHDM_OFFSET
virt_to_phys(ptr) == ptr - HHDM_OFFSET
\* The frame a pointer into it leads to: ptr & SLAB_MASK.
SlabOf(ptr) == virt_to_phys((ptr \div FRAME_SIZE) * FRAME_SIZE) \div FRAME_SIZE

next_multiple_of(n, m) == ((n + m - 1) \div m) * m

\* Mutant: alignment is not looked at.
bucket_for_SizeOnly(L) ==
  LET need == Maximum({L[1], 2^MIN_BUCKET_SHIFT}) IN
    IF need > 2^MAX_BUCKET_SHIFT THEN None
    ELSE Minimum({b \in Buckets : OBJ_SIZE(b) >= need})

bucket_for(L) ==
  LET need == Maximum({L[1], L[2], 2^MIN_BUCKET_SHIFT}) IN
    IF need > 2^MAX_BUCKET_SHIFT THEN None
    ELSE Minimum({b \in Buckets : OBJ_SIZE(b) >= need})

\* Order of the smallest block that fits, None above MAX_ORDER.
order_for_large(L) ==
  LET need == Maximum({L[1], L[2]})
      fits == {k \in 0..MAX_ORDER : 2^k * FRAME_SIZE >= need}
  IN  IF fits = {} THEN None ELSE Minimum(fits)

\* Where the objects of a slab begin.
data_off(b) == next_multiple_of(HEADER_SIZE, OBJ_SIZE(b))

\* refill asserts that a slab has room for an object.
ASSUME SlabAssumption ==
  \A b \in Buckets : (FRAME_SIZE - data_off(b)) \div OBJ_SIZE(b) > 0

\* The objects of a fresh slab in frame f, in the order of its free list.
ObjectsOf(f, b) ==
  [i \in 1..((FRAME_SIZE - data_off(b)) \div OBJ_SIZE(b)) |->
     phys_to_virt(f) + data_off(b) + (i - 1) * OBJ_SIZE(b)]

-----------------------------------------------------------------------------
\* The free list head of `slab', now holding `objs', goes to the caller.
Pop(slab, objs, L) ==
  IF objs = <<>>
  THEN ub' = TRUE /\ UNCHANGED <<free_objs, live>>
  ELSE /\ free_objs' = [free_objs EXCEPT ![slab] = Tail(objs)]
       /\ live' = live \cup {[ptr |-> Head(objs), layout |-> L]}
       /\ UNCHANGED ub

ActiveHasFree(b) == active[b] # None /\ free_objs[active[b]] # <<>>

AllocFromActive(L) ==
  LET b == bucket_for(L) IN
    /\ b # None /\ ActiveHasFree(b)
    /\ Pop(active[b], free_objs[active[b]], L)
    /\ UNCHANGED <<free, owned, active, partial, slab_bucket, others>>

\* take_partial
AllocFromPartial(L) ==
  LET b == bucket_for(L) IN
    /\ b # None /\ ~ActiveHasFree(b) /\ partial[b] # <<>>
    /\ active' = [active EXCEPT ![b] = Head(partial[b])]
    /\ partial' = [partial EXCEPT ![b] = Tail(@)]
    /\ Pop(Head(partial[b]), free_objs[Head(partial[b])], L)
    /\ UNCHANGED <<free, owned, slab_bucket, others>>

\* refill: a new slab of one frame.
AllocFromRefill(L) ==
  LET b == bucket_for(L) IN
    /\ b # None /\ ~ActiveHasFree(b) /\ partial[b] = <<>>
    /\ \E f \in Frames :
         /\ F!Alloc(f, 0)
         /\ slab_bucket' = [slab_bucket EXCEPT ![f] = b]
         /\ active' = [active EXCEPT ![b] = f]
         /\ Pop(f, ObjectsOf(f, b), L)
    /\ UNCHANGED <<partial, others>>

\* No object and no frame: the caller gets a null pointer, and the full slab
\* is no longer active.
AllocSmallNull(L) ==
  LET b == bucket_for(L) IN
    /\ b # None /\ ~ActiveHasFree(b) /\ partial[b] = <<>>
    /\ ~F!Available(0)
    /\ active' = [active EXCEPT ![b] = None]
    /\ UNCHANGED <<free, owned, partial, free_objs, slab_bucket, live, others, ub>>

AllocLarge(L) ==
  LET k == order_for_large(L) IN
    /\ bucket_for(L) = None /\ k # None
    /\ \E f \in Frames :
         /\ F!Alloc(f, k)
         /\ live' = live \cup {[ptr |-> phys_to_virt(f), layout |-> L]}
    /\ UNCHANGED <<slab_vars, others>>

AllocLargeNull(L) ==
  LET k == order_for_large(L) IN
    /\ bucket_for(L) = None
    /\ k # None => ~F!Available(k)
    /\ UNCHANGED vars

-----------------------------------------------------------------------------
\* Mutant: a slab is listed again with every object that comes back.
DeallocSmall_AlwaysPartial(a) ==
  LET b == bucket_for(a.layout)
      slab == SlabOf(a.ptr)
  IN  /\ b # None
      /\ live' = live \ {a}
      /\ free_objs' = [free_objs EXCEPT ![slab] = <<a.ptr>> \o @]
      /\ partial' = IF active[b] # slab
                    THEN [partial EXCEPT ![b] = <<slab>> \o @] ELSE partial
      /\ UNCHANGED <<free, owned, active, slab_bucket, others, ub>>

\* Mutant: the object that comes back is not linked to the other free ones.
DeallocSmall_DropsChain(a) ==
  LET b == bucket_for(a.layout)
      slab == SlabOf(a.ptr)
      was_full == free_objs[slab] = <<>>
  IN  /\ b # None
      /\ live' = live \ {a}
      /\ free_objs' = [free_objs EXCEPT ![slab] = <<a.ptr>>]
      /\ partial' = IF active[b] # slab /\ was_full
                    THEN [partial EXCEPT ![b] = <<slab>> \o @] ELSE partial
      /\ UNCHANGED <<free, owned, active, slab_bucket, others, ub>>

DeallocSmall(a) ==
  LET b == bucket_for(a.layout)
      slab == SlabOf(a.ptr)
      was_full == free_objs[slab] = <<>>
  IN  /\ b # None
      /\ live' = live \ {a}
      /\ free_objs' = [free_objs EXCEPT ![slab] = <<a.ptr>> \o @]
      /\ partial' = IF active[b] # slab /\ was_full
                    THEN [partial EXCEPT ![b] = <<slab>> \o @] ELSE partial
      /\ UNCHANGED <<free, owned, active, slab_bucket, others, ub>>

DeallocLarge(a) ==
  /\ bucket_for(a.layout) = None
  /\ live' = live \ {a}
  /\ F!Free(virt_to_phys(a.ptr) \div FRAME_SIZE, order_for_large(a.layout))
  /\ UNCHANGED <<slab_vars, others>>

\* Page tables and other users of the frame allocator (external).
OtherAlloc ==
  \E f \in Frames :
    /\ F!Alloc(f, 0)
    /\ others' = others \cup {f}
    /\ UNCHANGED <<slab_vars, live>>

OtherFree ==
  \E f \in others :
    /\ F!Free(f, 0)
    /\ others' = others \ {f}
    /\ UNCHANGED <<slab_vars, live>>

Init ==
  /\ free = Donated /\ owned = {}
  /\ active = [b \in Buckets |-> None]
  /\ partial = [b \in Buckets |-> <<>>]
  /\ free_objs = [f \in Frames |-> <<>>]
  /\ slab_bucket = [f \in Frames |-> None]
  /\ live = {} /\ others = {}
  /\ ub = FALSE

Next ==
  \/ \E L \in Layouts :
       \/ AllocFromActive(L) \/ AllocFromPartial(L) \/ AllocFromRefill(L)
       \/ AllocSmallNull(L) \/ AllocLarge(L) \/ AllocLargeNull(L)
  \/ \E a \in live : DeallocSmall(a) \/ DeallocLarge(a)
  \/ OtherAlloc \/ OtherFree

Spec == Init /\ [][Next]_vars
-----------------------------------------------------------------------------
Slabs == {f \in Frames : slab_bucket[f] # None}
Bytes(ptr, n) == ptr..(ptr + n - 1)
Extent(a) == Bytes(a.ptr, a.layout[1])
FrameBytes(f) == Bytes(phys_to_virt(f), FRAME_SIZE)

HeaderBytes == UNION {Bytes(phys_to_virt(f), HEADER_SIZE) : f \in Slabs}
FreeObjectBytes ==
  UNION {UNION {Bytes(x, OBJ_SIZE(slab_bucket[f])) : x \in Range(free_objs[f])} : f \in Slabs}

(***************************************************************************)
(* What callers hold is theirs: every live allocation is aligned as its    *)
(* layout asks, and shares no byte with another one, with a slab header,   *)
(* with an object on a free list (alloc_small would hand it out again, and *)
(* its link overwrites it), with a frame that is free or with one another  *)
(* user holds.                                                             *)
(***************************************************************************)
LiveApart ==
  /\ \A a \in live :
       /\ a.ptr % a.layout[2] = 0
       /\ Extent(a) \cap (HeaderBytes \cup FreeObjectBytes) = {}
       /\ Extent(a) \cap UNION {FrameBytes(f) : f \in free \cup others} = {}
       /\ Extent(a) \subseteq UNION {FrameBytes(f) : f \in F!OwnedFrames}
  /\ \A a, c \in live : a # c => Extent(a) \cap Extent(c) = {}

Places(f) ==
  {<<b, 0>> : b \in {c \in Buckets : active[c] = f}}
    \cup UNION {{<<b, i>> : i \in {j \in DOMAIN partial[b] : partial[b][j] = f}} : b \in Buckets}

(***************************************************************************)
(* A slab with a free object can be found again: it is active in its       *)
(* bucket or listed there, once and in one of the two places only.  A full *)
(* slab is not listed, so the unwrap_unchecked in alloc_small always finds *)
(* an object.                                                              *)
(***************************************************************************)
SlabsFindable ==
  /\ \A f \in Slabs :
       /\ \A p, q \in Places(f) : p = q
       /\ \A p \in Places(f) : p[1] = slab_bucket[f]
       /\ free_objs[f] # <<>> => Places(f) # {}
  /\ \A b \in Buckets : \A f \in Range(partial[b]) : f \in Slabs /\ free_objs[f] # <<>>
  /\ ~ub

(***************************************************************************)
(* No object gets lost or is listed twice: the objects of a slab are its   *)
(* free ones and the live ones in it, and these are distinct.              *)
(***************************************************************************)
ObjectsConserved ==
  \A f \in Slabs :
    LET held == {a.ptr : a \in {c \in live : SlabOf(c.ptr) = f}} IN
      /\ IsInjective(free_objs[f])
      /\ Range(free_objs[f]) \cap held = {}
      /\ Range(free_objs[f]) \cup held = Range(ObjectsOf(f, slab_bucket[f]))
=============================================================================
