------------------------------- MODULE VmmTlb -------------------------------
(***************************************************************************)
(* The page tables of Vmm seen by the CPU that uses them.  Its page walker *)
(* reads the tables whenever it likes, between any two writes of vmm.rs,   *)
(* and keeps what it finds: translations of pages in the TLB, pointers to  *)
(* lower tables in the paging-structure caches.  Only tlb::flush (invlpg)  *)
(* and tlb::flush_all (a write of CR3) take entries out again.             *)
(***************************************************************************)
EXTENDS Vmm, FiniteSets

CONSTANTS
  Probes,  \* the pages the CPU may walk for, on demand or ahead
  MaxHeld  \* bound: frames the rest of the kernel has at a time

\* The CPU faults on other addresses before it walks.
ASSUME TlbAssumption == Probes \subseteq Canonical

VARIABLES
  tlb,   \* cached pages: [virt, phys, size]
  psc,   \* cached tables: [virt, level, at], virt the first page below
  rolled,\* history: map freed tables for lack of memory since flush_all
  held   \* frames the rest of the kernel has from the frame allocator

tlb_vars == <<vars, tlb, psc, rolled, held>>

-----------------------------------------------------------------------------
First(v, l) == v - (v % ENTRIES^l)

\* The walker goes on from the root or from a cached table.  A frame that is
\* not the table it takes it for gives it a translation that means nothing.
Found(v, l, e) ==
  IF e.kind = "page" THEN {[virt |-> First(v, l), phys |-> e.at, size |-> l]}
  ELSE IF e.kind = "junk" \/ (e.kind = "table" /\ l = 0)
  THEN {[virt |-> First(v, l), phys |-> Unmapped, size |-> l]}
  ELSE {}
Cached(v, l, e) ==
  IF e.kind = "table" /\ l > 0 THEN {[virt |-> First(v, l), level |-> l - 1, at |-> e.at]} ELSE {}

WalkFrom(v, l, f) ==
  /\ tlb' = tlb \cup Found(v, l, table[f][index(v, l)])
  /\ psc' = psc \cup Cached(v, l, table[f][index(v, l)])
  /\ UNCHANGED <<vars, rolled, held>>

HwWalk(v) ==
  \/ WalkFrom(v, TOP, Root)
  \/ \E p \in psc : First(v, p.level + 1) = p.virt /\ WalkFrom(v, p.level, p.at)

\* invlpg drops the page, and all of the paging-structure caches.
flush(v) ==
  /\ tlb' = {t \in tlb : First(v, t.size) # t.virt}
  /\ psc' = {}
  /\ UNCHANGED rolled

\* Mutant: invlpg alone, which leaves other pages of the table behind.
flush_all_Missing ==
  /\ rolled' = FALSE
  /\ UNCHANGED <<tlb, psc>>

flush_all == tlb' = {} /\ psc' = {} /\ rolled' = FALSE

\* Mutant: map leaves the caches alone, there being nothing to forget.
CpuStep_MapQuiet ==
  \/ UnmapLeaf /\ flush(virt)
  \/ FlushAll /\ flush_all
  \/ MapOutOfMemory /\ rolled' = (rolled \/ new # {}) /\ UNCHANGED <<tlb, psc>>
  \/ /\ \/ RangeDone \/ Return \/ MapStart \/ MapDescend \/ MapBlocked \/ MapNewTable
        \/ UnmapStart \/ UnmapDescend \/ UnmapMiss \/ Reclaim \/ UnmapDone
        \/ MapLeaf \/ \E c \in Calls : MapRange(c) \/ UnmapRange(c)
     /\ UNCHANGED <<tlb, psc, rolled>>

CpuStep ==
  \/ (MapLeaf \/ UnmapLeaf) /\ flush(virt)
  \/ FlushAll /\ flush_all
  \/ MapOutOfMemory /\ rolled' = (rolled \/ new # {}) /\ UNCHANGED <<tlb, psc>>
  \/ /\ \/ RangeDone \/ Return \/ MapStart \/ MapDescend \/ MapBlocked \/ MapNewTable
        \/ UnmapStart \/ UnmapDescend \/ UnmapMiss \/ Reclaim \/ UnmapDone
        \/ \E c \in Calls : MapRange(c) \/ UnmapRange(c)
     /\ UNCHANGED <<tlb, psc, rolled>>

\* The allocator is not vmm.rs's alone: between its calls others take frames
\* and give them back, so that memory can run out and come back unflushed.
OthersAlloc ==
  /\ pc = "idle" /\ Cardinality(held) < MaxHeld
  /\ \E f \in free : free' = free \ {f} /\ held' = held \cup {f}
  /\ UNCHANGED <<table, pc, call, i, path, new, result, before, tlb, psc, rolled>>

OthersFree ==
  /\ pc = "idle"
  /\ \E f \in held : free' = free \cup {f} /\ held' = held \ {f}
  /\ UNCHANGED <<table, pc, call, i, path, new, result, before, tlb, psc, rolled>>

TlbInit == Init /\ tlb = {} /\ psc = {} /\ rolled = FALSE /\ held = {}
TlbNext ==
  \/ CpuStep /\ UNCHANGED held
  \/ OthersAlloc \/ OthersFree
  \/ \E v \in Probes : HwWalk(v)
TlbSpec == TlbInit /\ [][TlbNext]_tlb_vars
-----------------------------------------------------------------------------
(***************************************************************************)
(* What the CPU has cached is what the tables say: no page that unmap took *)
(* out is still translated, and no frame that was given back is still      *)
(* walked as a table.  Two windows are left out: between reclaim's         *)
(* free_frame and its flush_all, when the lock is still held, and after    *)
(* map, short of memory, has freed the tables it made, which nothing       *)
(* flushes.                                                                *)
(***************************************************************************)
CachesCoherent ==
  pc # "flush" /\ ~rolled =>
    /\ tlb \subseteq MappedPages
    /\ \A p \in psc : Walk(table, p.virt, p.level) = p.at

(***************************************************************************)
(* The window CachesCoherent leaves out does no harm to a base page: the   *)
(* walker may go on using a table that a failed map gave back, and cache   *)
(* nonsense found in it, but once map has written a base page and flushed  *)
(* it, what the CPU has cached for that page is that page, whatever other  *)
(* calls run short of memory before or after.                              *)
(***************************************************************************)
MappedPagesTrusted ==
  pc # "flush" =>
    \A t \in tlb, m \in {p \in MappedPages : p.size = Base} :
      First(m.virt, t.size) = t.virt => t = m
=============================================================================
