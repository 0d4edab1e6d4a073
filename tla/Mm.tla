--------------------------------- MODULE Mm ---------------------------------
(***************************************************************************)
(* mm::init (kernel/src/mm/mod.rs) on top of the frame allocator, and the  *)
(* callers it serves afterwards.  init reads the memory map the bootloader *)
(* left, carves the frame_order metadata out of the first usable entry     *)
(* that can hold it, gives the rest of the usable memory to the allocator, *)
(* and installs it.  From then on the page tables and the heap allocate    *)
(* blocks and free the blocks they were given, each once.                  *)
(***************************************************************************)
EXTENDS Pmm, Sequences, FiniteSetsExt

CONSTANT MemMaps  \* the memory maps a bootloader may hand over

(***************************************************************************)
(* The bootloader's promise (external): entries are sorted by base and do  *)
(* not overlap, usable ones are frame-aligned.                             *)
(***************************************************************************)
WellFormed(m) ==
  /\ m \in Seq([base : Nat, length : Nat, usable : BOOLEAN])
  /\ \A i \in DOMAIN m : m[i].length > 0
  /\ \A i, j \in DOMAIN m : i < j => m[i].base + m[i].length <= m[j].base
  /\ \A i \in DOMAIN m : m[i].usable =>
       m[i].base % FRAME_SIZE = 0 /\ m[i].length % FRAME_SIZE = 0

ASSUME MemMapsWellFormed == \A m \in MemMaps : m # <<>> /\ WellFormed(m)

VARIABLES
  memmap,      \* the bootloader's memory map, fixed at boot
  boot,        \* "metadata", "ranges", "running", or "panic"
  order_phys,  \* address of the frame_order slice
  entry, piece,\* loop positions of init
  owned        \* blocks <<frame, order>> callers hold

boot_vars == <<memmap, boot, order_phys, entry, piece>>
mm_vars == <<vars, boot_vars, owned>>

-----------------------------------------------------------------------------
align_up(n, align) == ((n + align - 1) \div align) * align

highest(m) == Max({m[i].base + m[i].length : i \in DOMAIN m})
total_frames(m) == align_up(highest(m), FRAME_SIZE) \div FRAME_SIZE
order_bytes == align_up(TotalFrames, FRAME_SIZE)

order_first == order_phys \div FRAME_SIZE
order_last == order_first + order_bytes \div FRAME_SIZE

\* The two parts of a usable entry around the metadata.
PieceStart(e, p) ==
  LET first == e.base \div FRAME_SIZE IN
    IF p = 1 THEN first ELSE Max({first, order_last})

\* Mutant: the part before the metadata is not cut off where it begins.
PieceEnd_WholeEntry(e, p) == (e.base + e.length) \div FRAME_SIZE

PieceEnd(e, p) ==
  LET last == (e.base + e.length) \div FRAME_SIZE IN
    IF p = 1 THEN Min({last, order_first}) ELSE last

\* The first usable entry that can hold frame_order.
CanHold(e) == e.usable /\ e.length >= order_bytes

PlaceMetadata ==
  /\ boot = "metadata"
  /\ \E i \in DOMAIN memmap :
       /\ CanHold(memmap[i])
       /\ \A j \in 1..(i - 1) : ~CanHold(memmap[j])
       /\ order_phys' = memmap[i].base
  /\ boot' = "ranges"
  /\ UNCHANGED <<vars, memmap, entry, piece, owned>>

NoRoom ==
  /\ boot = "metadata"
  /\ \A i \in DOMAIN memmap : ~CanHold(memmap[i])
  /\ boot' = "panic"
  /\ UNCHANGED <<vars, memmap, order_phys, entry, piece, owned>>

\* Mutant: frame 0 goes to the allocator as well.
DonatePiece_FrameZero(e, p) ==
  LET s == PieceStart(e, p)
      end == PieceEnd(e, p)
  IN  IF e.usable /\ end > s THEN AddRange(s, end - s) ELSE UNCHANGED vars

\* Frame 0 is never given to the allocator.
DonatePiece(e, p) ==
  LET s == Max({PieceStart(e, p), 1})
      end == PieceEnd(e, p)
  IN  IF e.usable /\ end > s THEN AddRange(s, end - s) ELSE UNCHANGED vars

AddPiece ==
  /\ boot = "ranges" /\ pc = "idle"
  /\ entry \in DOMAIN memmap
  /\ DonatePiece(memmap[entry], piece)
  /\ piece' = 3 - piece
  /\ entry' = IF piece = 2 THEN entry + 1 ELSE entry
  /\ UNCHANGED <<memmap, boot, order_phys, owned>>

\* pmm::install
Install ==
  /\ boot = "ranges" /\ pc = "idle"
  /\ entry \notin DOMAIN memmap
  /\ boot' = "running"
  /\ UNCHANGED <<vars, memmap, order_phys, entry, piece, owned>>

-----------------------------------------------------------------------------
ClientAlloc(k) ==
  /\ boot = "running"
  /\ AllocPages(k) \/ AllocNone(k)
  /\ UNCHANGED <<boot_vars, owned>>

ClientFree(b) ==
  /\ boot = "running"
  /\ FreePages(b[1] * FRAME_SIZE, b[2])
  /\ owned' = owned \ {b}
  /\ UNCHANGED boot_vars

AllocReturns ==
  /\ AllocDone
  /\ owned' = owned \cup {<<frame, order>>}
  /\ UNCHANGED boot_vars

\* The other turns of the allocator's loops.
PmmStep ==
  /\ Split \/ Coalesce \/ FreeDone \/ RangeStep
  /\ UNCHANGED <<boot_vars, owned>>

Halted ==
  /\ boot = "panic" \/ pc \in {"rejected", "corrupt"}
  /\ UNCHANGED mm_vars

MmInit ==
  /\ Init
  /\ memmap \in MemMaps /\ total_frames(memmap) = TotalFrames
  /\ boot = "metadata"
  /\ order_phys = 0 /\ entry = 1 /\ piece = 1
  /\ owned = {}

\* What the kernel does without being asked.
MmStep == PlaceMetadata \/ NoRoom \/ AddPiece \/ Install \/ AllocReturns \/ PmmStep

MmNext ==
  \/ MmStep
  \/ \E k \in Orders : ClientAlloc(k)
  \/ \E b \in owned : ClientFree(b)
  \/ Halted

MmSpec == MmInit /\ [][MmNext]_mm_vars
-----------------------------------------------------------------------------

UsableFrames ==
  {f \in Frames : \E i \in DOMAIN memmap : memmap[i].usable
     /\ memmap[i].base <= f * FRAME_SIZE
     /\ f * FRAME_SIZE < memmap[i].base + memmap[i].length}

MetadataFrames == order_first..(order_last - 1)
OwnedFrames == UNION {Block(b[1], b[2]) : b \in owned}

AllAccounted ==
  boot = "running" =>
    FreeMemory \cup OwnedFrames = UsableFrames \ ({0} \cup MetadataFrames)

\* No frame has two owners, and none is free while a caller holds it.
SingleOwner ==
  /\ \A b \in owned : Block(b[1], b[2]) \cap FreeMemory = {}
  /\ \A b, c \in owned : b # c => Block(b[1], b[2]) \cap Block(c[1], c[2]) = {}

(***************************************************************************)
(* init gives the allocator exactly the usable frames that are neither     *)
(* frame 0 nor part of the frame_order slice, and from then on none is     *)
(* lost or invented: each is free or held by one caller, never by two.  A  *)
(* frame of frame_order handed out would let a caller overwrite the        *)
(* allocator.                                                              *)
(***************************************************************************)
Conservation == AllAccounted /\ SingleOwner

(***************************************************************************)
(* Callers that free what they were given, once and with the order they    *)
(* asked for, and the ranges init adds, never trip an assertion.           *)
(***************************************************************************)
DisciplineNeverPanics == pc \notin {"rejected", "corrupt"}

Allocator == INSTANCE FrameAllocator WITH free <- FreeMemory, owned <- owned

(***************************************************************************)
(* Boot and callers see the allocator FrameAllocator describes: the block  *)
(* in the hand of a running operation counts as free.                      *)
(***************************************************************************)
ImplementsAllocator == Allocator!Spec
=============================================================================
