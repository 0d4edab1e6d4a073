--------------------------------- MODULE Vmm ---------------------------------
(***************************************************************************)
(* The page tables of kernel/src/mm/vmm.rs: four levels of tables, pages   *)
(* of three sizes, map_range and unmap_range with the rollback of the      *)
(* first, tables made on demand and given back when they become empty.     *)
(* map and unmap are map_range and unmap_range of one page.                *)
(*                                                                         *)
(* The VMM lock is held for a whole call, so calls do not interleave; what *)
(* does is the page walker of the CPU (module VmmTlb).  Each write to a    *)
(* table is a step of its own.  Addresses count base pages.                *)
(***************************************************************************)
EXTENDS Integers, Sequences

CONSTANTS
  ENTRIES,    \* entries of a table (512 in the source)
  Root,       \* the frame of the top-level table
  Frames,     \* the frames page tables can be made of
  BootTable,  \* the tables take_ownership left: [frame -> entries]
  Calls       \* the ranges callers pass: [virt, phys, pages, size]

ASSUME VmmAssumption ==
  /\ ENTRIES \in Nat \ {0, 1} /\ ENTRIES % 2 = 0
  /\ Root \in DOMAIN BootTable /\ DOMAIN BootTable \subseteq Frames
  /\ \A c \in Calls : c.size \in {0, 1, 2} /\ c.pages \in Nat /\ c.virt \in Nat /\ c.phys \in Nat

\* A fact of arithmetic.
ASSUME PowersOfEntries ==
  ENTRIES^0 = 1 /\ \A k \in 0..3 : ENTRIES^(k + 1) = ENTRIES * ENTRIES^k

VARIABLES
  table,   \* contents of each frame that is a table
  free,    \* frames of the frame allocator that are free
  pc,      \* where the lock holder is
  call,    \* arguments of the range call, and what it is doing: [op, ...]
  i,       \* loop variable of the range call
  path,    \* tables from the root down to the one in hand
  new,     \* those of them that this map call made
  result,  \* what the call returns
  before   \* history: the translation when the call began

vars == <<table, free, pc, call, i, path, new, result, before>>

-----------------------------------------------------------------------------
TOP == 3
Base == 0
Large == 1
Huge == 2

Nothing == [kind |-> "none", at |-> 0]
TableAt(f) == [kind |-> "table", at |-> f]
PageAt(p) == [kind |-> "page", at |-> p]
Indexes == 0..(ENTRIES - 1)

Entries == [kind : {"none", "table", "page", "junk"}, at : Nat \cup Frames]

\* zero_frame
Zeroed == [x \in Indexes |-> Nothing]
\* A frame that is not a table: the frame allocator's links, or anything.
Junk == [x \in Indexes |-> [kind |-> "junk", at |-> 0]]

Stride(size) == ENTRIES^size
index(v, level) == (v \div ENTRIES^level) % ENTRIES

\* 48 bits of address, sign-extended; the gap between the halves is as large
\* as both.
Half == ENTRIES^4 \div 2
LastAddress == 4 * Half - 1
is_canonical(v) == v \div Half \in {0, 3}
Canonical == {v \in 0..LastAddress : is_canonical(v)}

\* The table that the entry of f for v points to, in tables T: the root, which is
\* nobody's child, when there is none.
Child(T, f, v, l) ==
  LET e == T[f][index(v, l)]
  IN  IF (f # Root \/ l = TOP) /\ e.kind = "table" THEN e.at ELSE Root
pdpt(T, v) == Child(T, Root, v, TOP)
pd(T, v) == Child(T, pdpt(T, v), v, Huge)
pt(T, v) == Child(T, pd(T, v), v, Large)

\* The table of level l that a walk for v passes.
Walk(T, v, l) ==
  CASE l = TOP -> Root [] l = Huge -> pdpt(T, v) [] l = Large -> pd(T, v) [] l = Base -> pt(T, v)

Unmapped == -1
Leaf(T, v, l) == LET f == Walk(T, v, l) IN f # Root /\ T[f][index(v, l)].kind = "page"
LeafAt(T, v, l) == T[Walk(T, v, l)][index(v, l)].at
translate(T, v) ==
  IF is_canonical(v) /\ \E l \in {Base, Large, Huge} : Leaf(T, v, l)
  THEN LET l == CHOOSE l \in {Base, Large, Huge} : Leaf(T, v, l)
       IN  LeafAt(T, v, l) + (v % ENTRIES^l)
  ELSE Unmapped

Translation == [v \in Canonical |-> translate(table, v)]

\* The tables S form a tree below Root, lv giving their levels: an entry is
\* empty, a page, or the only pointer to a table of the level below.
Tree(T, S, lv) ==
  /\ Root \in S /\ lv[Root] = TOP /\ \A f \in S : lv[f] \in 0..TOP
  /\ \A f \in S, x \in Indexes :
       \/ T[f][x] = Nothing
       \/ T[f][x].kind = "page" /\ T[f][x].at \in Nat /\ lv[f] < TOP
       \/ \E g \in S \ {Root} : T[f][x] = TableAt(g) /\ lv[f] = lv[g] + 1
  /\ \A g \in S \ {Root} : \E f \in S, x \in Indexes : T[f][x] = TableAt(g)
  /\ \A f, g \in S, x, y \in Indexes :
       T[f][x] = T[g][y] /\ T[f][x].kind = "table" => f = g /\ x = y

\* TakeOwnership copies the loader's tables entry by entry.
ASSUME BootTree ==
  /\ BootTable \in [DOMAIN BootTable -> [Indexes -> Entries]]
  /\ \E lv \in [DOMAIN BootTable -> 0..TOP] : Tree(BootTable, DOMAIN BootTable, lv)

\* The loader makes no table that it does not use.
ASSUME BootTablesUsed ==
  \A f \in DOMAIN BootTable \ {Root} : \E x \in Indexes : BootTable[f][x] # Nothing

-----------------------------------------------------------------------------
(***************************************************************************)
(* The range calls: their loops and their ends.                            *)
(***************************************************************************)
virt == call.virt + i * Stride(call.size)
phys == call.phys + i * Stride(call.size)
misaligned(a) == a % Stride(call.size) # 0
Level == TOP + 1 - Len(path)
Lowest == path[Len(path)]
Slot == table[Lowest][index(virt, Level)]
Write(f, l, e) == [table EXCEPT ![f][index(virt, l)] = e]

Enter(op, c) ==
  /\ pc = "idle"
  /\ c.virt + (c.pages - 1) * Stride(c.size) <= LastAddress
  /\ pc' = op /\ i' = 0
  /\ call' = [op |-> op, virt |-> c.virt, phys |-> c.phys, pages |-> c.pages, size |-> c.size]
  /\ result' = "Ok"
  /\ before' = Translation
  /\ UNCHANGED <<table, free, path, new>>

MapRange(c) == Enter("map", c)
UnmapRange(c) == Enter("unmap", c)

NextPage ==
  /\ pc' = call.op /\ i' = i + 1
  /\ path' = <<>> /\ new' = {}

RangeDone ==
  /\ pc = call.op /\ i = call.pages
  /\ pc' = "done"
  /\ UNCHANGED <<table, free, call, i, path, new, result, before>>

\* Back to the caller: the arguments and locals are gone.
NoCall == [op |-> "none", virt |-> 0, phys |-> 0, pages |-> 0, size |-> 0]
Return ==
  /\ pc = "done"
  /\ pc' = "idle" /\ call' = NoCall /\ i' = 0
  /\ result' = "Ok" /\ before' = <<>>
  /\ UNCHANGED <<table, free, path, new>>

\* Mutant: the rollback stops one page early.
MapFails_OneLess(e) ==
  /\ result' = e
  /\ call' = [call EXCEPT !.op = "undo", !.pages = IF i = 0 THEN 0 ELSE i - 1]
  /\ pc' = "undo" /\ i' = 0
  /\ path' = <<>> /\ new' = {}

\* map_range gives up and unmaps the i pages it has mapped.
MapFails(e) ==
  /\ result' = e
  /\ call' = [call EXCEPT !.op = "undo", !.pages = i]
  /\ pc' = "undo" /\ i' = 0
  /\ path' = <<>> /\ new' = {}

\* Mutant: unmap_range goes on after an error.
UnmapFails_Ignored(e) == NextPage /\ UNCHANGED <<call, result>>

\* unmap_range passes the error on, the rollback ignores it.
UnmapFails(e) ==
  IF call.op = "undo"
  THEN NextPage /\ UNCHANGED <<call, result>>
  ELSE /\ result' = e /\ pc' = "done"
       /\ path' = <<>>
       /\ UNCHANGED <<call, i, new>>

-----------------------------------------------------------------------------
(***************************************************************************)
(* Vmm::map                                                                *)
(***************************************************************************)
MapStart ==
  /\ pc = "map" /\ i < call.pages
  /\ IF ~is_canonical(virt) THEN MapFails("NonCanonical")
     ELSE IF misaligned(virt) \/ misaligned(phys) THEN MapFails("Misaligned")
     ELSE pc' = "map_walk" /\ path' = <<Root>> /\ UNCHANGED <<call, i, new, result>>
  /\ UNCHANGED <<table, free, before>>

MapDescend ==
  /\ pc = "map_walk" /\ Level > call.size
  /\ Slot.kind = "table"
  /\ path' = Append(path, Slot.at)
  /\ UNCHANGED <<table, free, pc, call, i, new, result, before>>

MapBlocked ==
  /\ pc = "map_walk"
  /\ Slot.kind = "page" \/ (Level = call.size /\ Slot.kind = "table")
  /\ MapFails("AlreadyMapped")
  /\ UNCHANGED <<table, free, before>>

\* Mutant: a new table is not cleared.
MapNewTable_NotZeroed ==
  /\ pc = "map_walk" /\ Level > call.size
  /\ Slot.kind = "none"
  /\ \E f \in free :
       /\ free' = free \ {f}
       /\ table' = Write(Lowest, Level, TableAt(f))
       /\ path' = Append(path, f) /\ new' = new \cup {f}
  /\ UNCHANGED <<pc, call, i, result, before>>

MapNewTable ==
  /\ pc = "map_walk" /\ Level > call.size
  /\ Slot.kind = "none"
  /\ \E f \in free :
       /\ free' = free \ {f}
       /\ table' = [Write(Lowest, Level, TableAt(f)) EXCEPT ![f] = Zeroed]
       /\ path' = Append(path, f) /\ new' = new \cup {f}
  /\ UNCHANGED <<pc, call, i, result, before>>

\* No frame for a table: the slots that point to the new ones are cleared and
\* their frames freed, in one step: a walk in between finds no pointer that it
\* could not find before the first write.
MapOutOfMemory ==
  /\ pc = "map_walk" /\ Level > call.size
  /\ Slot.kind = "none" /\ free = {}
  /\ table' = [f \in Frames |->
       IF f \in new THEN Junk
       ELSE [x \in Indexes |-> IF table[f][x].kind = "table" /\ table[f][x].at \in new
                               THEN Nothing ELSE table[f][x]]]
  /\ free' = new
  /\ MapFails("OutOfMemory")
  /\ UNCHANGED before

\* Mutant: a page that is there already is replaced.
MapLeaf_Overwrites ==
  /\ pc = "map_walk" /\ Level = call.size
  /\ Slot.kind # "table"
  /\ table' = Write(Lowest, Level, PageAt(phys))
  /\ NextPage
  /\ UNCHANGED <<free, call, result, before>>

\* The entry is written and its page flushed from the TLB.
MapLeaf ==
  /\ pc = "map_walk" /\ Level = call.size
  /\ Slot.kind = "none"
  /\ table' = Write(Lowest, Level, PageAt(phys))
  /\ NextPage
  /\ UNCHANGED <<free, call, result, before>>

-----------------------------------------------------------------------------
(***************************************************************************)
(* Vmm::unmap                                                              *)
(***************************************************************************)
UnmapStart ==
  /\ pc \in {"unmap", "undo"} /\ i < call.pages
  /\ IF ~is_canonical(virt) THEN UnmapFails("NonCanonical")
     ELSE IF misaligned(virt) THEN UnmapFails("Misaligned")
     ELSE pc' = "unmap_walk" /\ path' = <<Root>> /\ UNCHANGED <<call, i, new, result>>
  /\ UNCHANGED <<table, free, before>>

UnmapDescend ==
  /\ pc = "unmap_walk" /\ Level > call.size
  /\ Slot.kind = "table"
  /\ path' = Append(path, Slot.at)
  /\ UNCHANGED <<table, free, pc, call, i, new, result, before>>

UnmapMiss ==
  /\ pc = "unmap_walk"
  /\ IF Level > call.size THEN Slot.kind # "table" ELSE Slot.kind # "page"
  /\ UnmapFails("NotMapped")
  /\ UNCHANGED <<table, free, before>>

\* The entry is cleared and its page flushed from the TLB.
UnmapLeaf ==
  /\ pc = "unmap_walk" /\ Level = call.size
  /\ Slot.kind = "page"
  /\ table' = Write(Lowest, Level, Nothing)
  /\ pc' = "reclaim"
  /\ UNCHANGED <<free, call, i, path, new, result, before>>

Present(e) == e.kind # "none"
is_empty(f) == \A x \in Indexes : ~Present(table[f][x])

\* Mutant: only the lowest table is looked at.
Reclaim_PtOnly ==
  /\ pc = "reclaim" /\ Len(path) > 1
  /\ LET f == Lowest IN
       IF is_empty(f) /\ Level = call.size
       THEN /\ table' = [Write(path[Len(path) - 1], Level + 1, Nothing) EXCEPT ![f] = Junk]
            /\ free' = free \cup {f}
            /\ pc' = "flush"
       ELSE UNCHANGED <<table, free, pc>>
  /\ path' = SubSeq(path, 1, Len(path) - 1)
  /\ UNCHANGED <<call, i, new, result, before>>

\* reclaim_pt, reclaim_pd, reclaim_pdpt: an empty table is given back, ...
Reclaim ==
  /\ pc = "reclaim" /\ Len(path) > 1
  /\ LET f == Lowest IN
       IF is_empty(f)
       THEN /\ table' = [Write(path[Len(path) - 1], Level + 1, Nothing) EXCEPT ![f] = Junk]
            /\ free' = free \cup {f}
            /\ pc' = "flush"
       ELSE UNCHANGED <<table, free, pc>>
  /\ path' = SubSeq(path, 1, Len(path) - 1)
  /\ UNCHANGED <<call, i, new, result, before>>

\* ... and then the whole TLB is flushed.
FlushAll ==
  /\ pc = "flush"
  /\ pc' = "reclaim"
  /\ UNCHANGED <<table, free, call, i, path, new, result, before>>

UnmapDone ==
  /\ pc = "reclaim" /\ Len(path) = 1
  /\ NextPage
  /\ UNCHANGED <<table, free, call, result, before>>

-----------------------------------------------------------------------------
Init ==
  /\ table = [f \in Frames |-> IF f \in DOMAIN BootTable THEN BootTable[f] ELSE Junk]
  /\ free = Frames \ DOMAIN BootTable
  /\ pc = "idle" /\ call = NoCall /\ i = 0
  /\ path = <<>> /\ new = {} /\ result = "Ok" /\ before = <<>>

Step ==
  \/ RangeDone \/ Return
  \/ MapStart \/ MapDescend \/ MapBlocked \/ MapNewTable \/ MapOutOfMemory \/ MapLeaf
  \/ UnmapStart \/ UnmapDescend \/ UnmapMiss \/ UnmapLeaf
  \/ Reclaim \/ FlushAll \/ UnmapDone

Next == (\E c \in Calls : MapRange(c) \/ UnmapRange(c)) \/ Step

Spec == Init /\ [][Next]_vars
-----------------------------------------------------------------------------
(***************************************************************************)
(* Properties.                                                             *)
(***************************************************************************)
Children(f) == {table[f][x].at : x \in {y \in Indexes : table[f][y].kind = "table"}}
Below(S) == UNION {Children(f) : f \in S}
TablesAt ==
  [l \in 0..TOP |-> CASE l = TOP -> {Root} [] l = Huge -> Below({Root})
                      [] l = Large -> Below(Below({Root})) [] OTHER -> Below(Below(Below({Root})))]
References(f) == {r \in Frames \X Indexes : table[r[1]][r[2]] = TableAt(f)}

\* Types: entries, loop variable within the range, at most four tables deep.
TypeOK ==
  /\ \A f \in Frames, x \in Indexes :
       /\ table[f][x].kind \in {"none", "table", "page", "junk"}
       /\ table[f][x].kind = "table" => table[f][x].at \in Frames
       /\ table[f][x].kind = "page" => table[f][x].at \in Nat
  /\ free \subseteq Frames /\ new \subseteq Frames
  /\ pc \in {"idle", "map", "map_walk", "unmap", "undo", "unmap_walk", "reclaim", "flush", "done"}
  /\ i \in 0..call.pages
  /\ path \in Seq(Frames) /\ Len(path) <= TOP + 1
  /\ result \in {"Ok", "NonCanonical", "Misaligned", "AlreadyMapped", "OutOfMemory", "NotMapped"}

(***************************************************************************)
(* At every step the frames split into the free ones and the tables, which *)
(* form a tree: each table but the root is one entry's child, on one       *)
(* level, holds no stale contents, and only the levels that have page      *)
(* sizes hold pages.  So no frame leaks in map's out-of-memory paths and   *)
(* none is freed while a table still points to it.                         *)
(***************************************************************************)
TablesAccounted ==
  LET at == TablesAt IN
    /\ TypeOK
    /\ UNION {at[l] : l \in 0..TOP} = Frames \ free
    /\ \A l, m \in 0..TOP : l # m => at[l] \cap at[m] = {}
    /\ References(Root) = {}
    /\ \A f \in Frames \ (free \cup {Root}) : \E r \in Frames \X Indexes : References(f) = {r}
    /\ \A l \in 0..TOP : \A f \in at[l], x \in Indexes :
         table[f][x].kind \in {"none"} \cup (IF l > 0 THEN {"table"} ELSE {})
                                       \cup (IF l < TOP THEN {"page"} ELSE {})

(***************************************************************************)
(* A call leaves no empty table behind, whether it succeeds, fails half    *)
(* way or is rolled back: whatever it made or emptied is given back.       *)
(***************************************************************************)
NoEmptyTables == pc = "idle" => \A f \in Frames \ (free \cup {Root}) : ~is_empty(f)

(***************************************************************************)
(* map_range is all or nothing: when it returns Ok, its range translates   *)
(* to the physical range and the rest as before; when it fails, on         *)
(* whichever page and for whichever reason, everything is as before.       *)
(***************************************************************************)
MapAllOrNothing ==
  pc = "done" /\ call.op \in {"map", "undo"} =>
    Translation =
      IF result = "Ok"
      THEN [v \in Canonical |->
              IF v \in call.virt..(call.virt + call.pages * Stride(call.size) - 1)
              THEN call.phys + (v - call.virt) ELSE before[v]]
      ELSE before

(***************************************************************************)
(* unmap_range stops at the first page it cannot unmap: the pages before   *)
(* it are gone, all others translate as before; Ok means all are gone.     *)
(***************************************************************************)
UnmapIsPrefix ==
  pc = "done" /\ call.op = "unmap" =>
    /\ Translation = [v \in Canonical |->
         IF v \in call.virt..(call.virt + i * Stride(call.size) - 1) THEN Unmapped ELSE before[v]]
    /\ result = "Ok" <=> i = call.pages
    /\ result = "Ok" => \A v \in call.virt..(call.virt + call.pages * Stride(call.size) - 1) :
                          before[v] # Unmapped

PagesIn(T) ==
  UNION {{[virt |-> v, phys |-> LeafAt(T, v, l), size |-> l] :
            v \in {w \in Canonical : w % ENTRIES^l = 0 /\ Leaf(T, w, l)}} : l \in {Base, Large, Huge}}
MappedPages == PagesIn(table)

Space == INSTANCE AddressSpace WITH pages <- MappedPages, Boot <- PagesIn(BootTable)

(***************************************************************************)
(* Seen from outside, pages come and go one at a time and never overlap,   *)
(* whatever tables are made and given back underneath.                     *)
(***************************************************************************)
ImplementsAddressSpace == Space!Spec
=============================================================================
