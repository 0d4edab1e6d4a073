--------------------------- MODULE FrameAllocator ---------------------------
(***************************************************************************)
(* What mm/pmm.rs promises its callers, without lists, orders of free      *)
(* blocks or counters: a set of free frames, and the blocks that were      *)
(* handed out and not yet given back.  The virtual memory manager and the  *)
(* heap are specified on top of this module.                               *)
(***************************************************************************)
EXTENDS Integers

CONSTANTS
  MAX_ORDER,   \* order of the largest block
  TotalFrames  \* number of frames the allocator knows of

VARIABLES
  free,   \* frames that can be handed out
  owned   \* blocks <<frame, order>> in the hands of callers

vars == <<free, owned>>

Orders == 0..MAX_ORDER
Frames == 0..(TotalFrames - 1)
Block(f, k) == f..(f + 2^k - 1)
OwnedFrames == UNION {Block(b[1], b[2]) : b \in owned}

Fits(f, k) == f % 2^k = 0 /\ Block(f, k) \subseteq free
Available(k) == \E f \in free : Fits(f, k)

Init == free = {} /\ owned = {}

\* add_range
Donate(S) ==
  /\ S \cap (free \cup OwnedFrames) = {}
  /\ free' = free \cup S
  /\ UNCHANGED owned

\* alloc_pages: any aligned free block will do.
Alloc(f, k) ==
  /\ Fits(f, k)
  /\ free' = free \ Block(f, k)
  /\ owned' = owned \cup {<<f, k>>}

\* free_pages, of a block as it was handed out.
Free(f, k) ==
  /\ <<f, k>> \in owned
  /\ owned' = owned \ {<<f, k>>}
  /\ free' = free \cup Block(f, k)

Next ==
  \/ \E S \in SUBSET Frames : Donate(S)
  \/ \E f \in Frames, k \in Orders : Alloc(f, k) \/ Free(f, k)

Spec == Init /\ [][Next]_vars
=============================================================================
