----------------------------- MODULE VmmProofs -----------------------------
(***************************************************************************)
(* Theorems about vmm.rs, for any tables, calls and number of entries: the *)
(* tables stay a tree, a call maps or unmaps what it says, pages come and  *)
(* go one at a time, and the caches of the CPU follow.  All rest on the    *)
(* inductive invariant that VmmInvariant proves.                           *)
(***************************************************************************)
EXTENDS VmmInvariant, VmmTlb

\* Zenon proves the leaves that name no prover.
USE ZenonT(60)

-----------------------------------------------------------------------------
(* The levels of the tables are those that the pointers lead to. *)

\* The tables of one level.
OnLevel(S, lv, l) == {f \in S : lv[f] = l}

\* The children of the tables of one level are those of the next.
LEMMA LevelsBelow ==
  ASSUME NEW H, Typed, NEW lv, Tree(table, Tables(H), lv), NEW l \in 0..2
  PROVE  Below(OnLevel(Tables(H), lv, l + 1)) = OnLevel(Tables(H), lv, l)
<1> DEFINE S == Tables(H)
<1>1. ASSUME NEW f \in S, lv[f] = l + 1, NEW x \in Indexes, table[f][x].kind = "table"
      PROVE  table[f][x].at \in S /\ lv[table[f][x].at] = l
  <2>1. table[f][x].at \in S /\ lv[f] = lv[table[f][x].at] + 1
    <3> HIDE DEF S
    <3>1. Tree(table, S, lv)
      BY DEF S
    <3> QED BY SMTT(60), <1>1, <3>1, EntryKinds
  <2>2. lv[table[f][x].at] \in 0..3
    BY <2>1 DEF Tree, TOP
  <2> QED BY SMTT(60), <1>1, <2>1, <2>2
<1>2. ASSUME NEW g \in S, lv[g] = l
      PROVE  \E f \in S : lv[f] = l + 1 /\ \E x \in Indexes : table[f][x].kind = "table" /\ table[f][x].at = g
  <2>1. g # Root
    BY SMTT(60), <1>2 DEF Tree, TOP
  <2>2. PICK f \in S, x \in Indexes : table[f][x] = TableAt(g)
    BY <2>1 DEF Tree
  <2>3. table[f][x].kind = "table" /\ table[f][x].at = g
    BY <2>2, EntryTypes
  <2>4. lv[f] = l + 1
    <3> HIDE DEF S
    <3>1. Tree(table, S, lv)
      BY DEF S
    <3> QED BY SMTT(60), <1>2, <2>3, <3>1, EntryKinds
  <2> QED BY <2>3, <2>4
<1> HIDE DEF S
<1>3. \A f : Children(f) = {table[f][x].at : x \in {y \in Indexes : table[f][y].kind = "table"}}
  BY DEF Children
<1>4. ASSUME NEW g PROVE g \in Below({f \in S : lv[f] = l + 1}) <=> g \in S /\ lv[g] = l
  <2>1. g \in Below({f \in S : lv[f] = l + 1}) <=> \E f \in S : lv[f] = l + 1 /\ g \in Children(f)
    BY DEF Below
  <2>2. \A f : g \in Children(f) <=> \E x \in Indexes : table[f][x].kind = "table" /\ table[f][x].at = g
    BY <1>3
  <2>3. ASSUME NEW f \in S, lv[f] = l + 1, g \in Children(f) PROVE g \in S /\ lv[g] = l
    <3>1. PICK x \in Indexes : table[f][x].kind = "table" /\ table[f][x].at = g
      BY <2>2, <2>3
    <3>2. table[f][x].at \in S /\ lv[table[f][x].at] = l
      BY <1>1, <2>3, <3>1
    <3> QED BY <3>1, <3>2
  <2> QED BY <1>2, <2>1, <2>2, <2>3
<1>5. Below(OnLevel(S, lv, l + 1)) = OnLevel(S, lv, l)
  BY <1>4 DEF OnLevel
<1> QED BY <1>5 DEF S

\* TablesAt is the tree, level by level.
LEMMA Levels ==
  ASSUME NEW H, Typed, NEW lv, Tree(table, Tables(H), lv)
  PROVE  \A l \in 0..3 : TablesAt[l] = OnLevel(Tables(H), lv, l)
<1> DEFINE L(l) == OnLevel(Tables(H), lv, l)
<1>1. L(3) = {Root}
  <2>1. Root \in Tables(H) /\ lv[Root] = 3
    BY DEF Tree, TOP
  <2>2. ASSUME NEW g \in Tables(H), g # Root PROVE lv[g] # 3
    <3>1. PICK f \in Tables(H), x \in Indexes : table[f][x] = TableAt(g)
      BY <2>2 DEF Tree
    <3>2. table[f][x].kind = "table" /\ table[f][x].at = g
      BY <3>1, EntryTypes
    <3>3. lv[f] = lv[g] + 1
      <4> DEFINE S == Tables(H)
      <4>1. Tree(table, S, lv) /\ f \in S
        OBVIOUS
      <4> HIDE DEF S
      <4> QED BY SMTT(60), <3>2, <4>1, EntryKinds
    <3>4. lv[f] \in 0..3 /\ lv[g] \in 0..3
      BY DEF Tree, TOP
    <3> QED BY SMTT(60), <3>3, <3>4
  <2> QED BY <2>1, <2>2 DEF OnLevel
<1>2. ASSUME NEW l \in 0..2 PROVE Below(L(l + 1)) = L(l)
  BY LevelsBelow
<1> HIDE DEF L
<1>3. Below(L(3)) = L(2) /\ Below(L(2)) = L(1) /\ Below(L(1)) = L(0)
  BY SMTT(60), <1>2
<1>4. L(2) = Below({Root}) /\ L(1) = Below(Below({Root})) /\ L(0) = Below(Below(Below({Root})))
  BY <1>1, <1>3
<1>5. \A l \in 0..3 : TablesAt[l] = L(l)
  BY SMTT(60), <1>1, <1>4 DEF TablesAt, TOP, Huge, Large
<1> QED BY <1>5 DEF L

\* What TablesAccounted says, from the invariant.
LEMMA AccountedFor ==
  ASSUME Struct({})
  PROVE  TablesAccounted
<1> DEFINE S == Tables({})
           at == TablesAt
<1>1. PICK lv : Tree(table, S, lv)
  BY DEF Struct, Shaped
<1>2. Typed /\ S = Frames \ free
  BY DEF Struct, Tables
<1>3. \A l \in 0..3 : at[l] = OnLevel(S, lv, l)
  BY <1>1, <1>2, Levels
<1>4. \A f \in S : lv[f] \in 0..3
  BY <1>1 DEF Tree, TOP
<1>5. \A f \in Frames \ S, x \in Indexes : table[f][x].kind = "junk"
  BY EntryTypes DEF Struct, Shaped
<1>6. TypeOK
  <2>1. ASSUME NEW f \in Frames, NEW x \in Indexes
        PROVE  /\ table[f][x].kind \in {"none", "table", "page", "junk"}
               /\ table[f][x].kind = "table" => table[f][x].at \in Frames
               /\ table[f][x].kind = "page" => table[f][x].at \in Nat
    <3>1. CASE f \in S
      <4>1. /\ table[f][x].kind \in {"none", "page", "table"}
            /\ table[f][x].kind = "page" => table[f][x].at \in Nat
            /\ table[f][x].kind = "table" => table[f][x].at \in S \ {Root}
        <5> HIDE DEF S
        <5> QED BY <1>1, <3>1, EntryKinds
      <4> QED BY <1>2, <4>1
    <3>2. CASE f \notin S
      <4>1. table[f][x].kind = "junk"
        BY <1>5, <3>2
      <4> QED BY <4>1
    <3> QED BY <3>1, <3>2
  <2>2. Len(path) <= TOP + 1
    <3>1. CASE Walking
      <4>1. Len(path) \in 1..4
        BY <1>1, <3>1, InHand
      <4> DEFINE n == Len(path)
      <4> HIDE DEF n
      <4>2. n \in 1..4
        BY <4>1 DEF n
      <4>3. n <= TOP + 1
        BY SMTT(60), <4>2 DEF TOP
      <4> QED BY <4>3 DEF n
    <3>2. CASE ~Walking
      <4>1. path = <<>>
        BY <3>2 DEF Struct, OnPath
      <4>2. Len(path) = 0
        BY <4>1
      <4> QED BY SMTT(60), <4>2 DEF TOP
    <3> QED BY <3>1, <3>2
  <2> QED BY <1>2, <2>1, <2>2 DEF TypeOK, Typed, Pcs, Results
<1>7. UNION {at[l] : l \in 0..3} = Frames \ free
  <2>1. ASSUME NEW f PROVE (\E l \in 0..3 : f \in at[l]) <=> f \in S
    BY <1>3, <1>4 DEF OnLevel
  <2> HIDE DEF S, at
  <2> QED BY <1>2, <2>1
<1>8. \A l, m \in 0..3 : l # m => at[l] \cap at[m] = {}
  <2>1. ASSUME NEW l \in 0..3, NEW m \in 0..3, NEW f \in at[l], f \in at[m] PROVE l = m
    BY <1>3, <2>1 DEF OnLevel
  <2> HIDE DEF S, at
  <2> QED BY <2>1
<1>9. ASSUME NEW f \in Frames, NEW x \in Indexes, NEW g, table[f][x] = TableAt(g)
      PROVE  f \in S /\ g \in S \ {Root}
  <2>1. table[f][x].kind = "table" /\ table[f][x].at = g
    BY <1>9, EntryTypes
  <2>2. f \in S
    <3>1. ASSUME f \notin S PROVE FALSE
      <4>1. table[f][x].kind = "junk"
        BY <1>5, <3>1
      <4> QED BY <2>1, <4>1
    <3> QED BY <3>1
  <2> HIDE DEF S
  <2> QED BY <1>1, <2>1, <2>2, EntryKinds
<1>10. References(Root) = {}
  <2>1. ASSUME NEW r \in References(Root) PROVE FALSE
    <3>1. r[1] \in Frames /\ r[2] \in Indexes /\ table[r[1]][r[2]] = TableAt(Root)
      BY DEF References
    <3> QED BY <1>9, <3>1
  <2> QED BY <2>1
<1>11. ASSUME NEW g \in Frames \ (free \cup {Root}) PROVE \E r \in Frames \X Indexes : References(g) = {r}
  <2>1. g \in S \ {Root}
    BY <1>2
  <2>2. PICK f \in S, x \in Indexes : table[f][x] = TableAt(g)
    BY <1>1, <2>1 DEF Tree
  <2>3. f \in Frames /\ TableAt(g).kind = "table"
    BY <1>2 DEF TableAt
  <2>4. <<f, x>> \in References(g) /\ <<f, x>> \in Frames \X Indexes
    BY <2>2, <2>3 DEF References
  <2>5. ASSUME NEW r \in References(g) PROVE r = <<f, x>>
    <3>1. r \in Frames \X Indexes /\ table[r[1]][r[2]] = TableAt(g)
      BY DEF References
    <3>2. r[1] \in Frames /\ r[2] \in Indexes /\ r = <<r[1], r[2]>>
      BY SMTT(60), <3>1
    <3>3. r[1] \in S
      BY <1>9, <3>1, <3>2
    <3>4. f = r[1] /\ x = r[2]
      <4>1. \A e, g2 \in S, y, z \in Indexes :
              table[e][y] = table[g2][z] /\ table[e][y].kind = "table" => e = g2 /\ y = z
        BY <1>1 DEF Tree
      <4>2. table[f][x] = table[r[1]][r[2]] /\ table[f][x].kind = "table"
        BY <2>2, <2>3, <3>1
      <4> DEFINE e == r[1]
                 y == r[2]
      <4>3. e \in S /\ y \in Indexes /\ table[f][x] = table[e][y]
        BY <3>2, <3>3, <4>2
      <4> HIDE DEF e, y, S
      <4>4. f = e /\ x = y
        BY SMTT(60), <4>1, <4>2, <4>3
      <4> QED BY <4>4 DEF e, y
    <3> QED BY <3>2, <3>4
  <2> QED BY <2>4, <2>5
<1>12. ASSUME NEW l \in 0..3, NEW f \in at[l], NEW x \in Indexes
       PROVE  table[f][x].kind \in {"none"} \cup (IF l > 0 THEN {"table"} ELSE {}) \cup (IF l < 3 THEN {"page"} ELSE {})
  <2>1. f \in S /\ lv[f] = l
    BY <1>3 DEF OnLevel
  <2>2. /\ table[f][x].kind \in {"none", "page", "table"}
        /\ table[f][x].kind = "page" => lv[f] < 3
        /\ table[f][x].kind = "table" => table[f][x].at \in S /\ lv[f] = lv[table[f][x].at] + 1
    <3> HIDE DEF S, at
    <3> QED BY SMTT(60), <1>1, <2>1, EntryKinds
  <2>3. table[f][x].kind = "table" => l > 0
    <3>1. CASE table[f][x].kind = "table"
      <4> DEFINE g == table[f][x].at
      <4>1. lv[g] \in 0..3 /\ l = lv[g] + 1
        BY <1>4, <2>1, <2>2, <3>1
      <4> HIDE DEF g
      <4> QED BY SMTT(60), <4>1
    <3> QED BY <3>1
  <2> QED BY <2>1, <2>2, <2>3
<1> HIDE DEF S
<1> QED BY <1>6, <1>7, <1>8, <1>10, <1>11, <1>12 DEF TablesAccounted, TOP

(***************************************************************************)
(* The frames split into the free ones and the tables, and the tables form *)
(* a tree, at every step of map and unmap: no table leaks and none is      *)
(* freed while an entry points to it, for tables of any size and any calls.*)
(***************************************************************************)
THEOREM TablesAreAccounted == Spec => []TablesAccounted
<1>1. Inv({}) => TablesAccounted
  BY AccountedFor DEF Inv
<1> QED BY <1>1, Invariance, PTL

(***************************************************************************)
(* Between calls no table but the root is empty: reclaim_pt, reclaim_pd    *)
(* and reclaim_pdpt, and map's rollback of the tables it made, give back   *)
(* all that a call has made or emptied.                                    *)
(***************************************************************************)
THEOREM NoTableStaysEmpty == Spec => []NoEmptyTables
<1>1. Inv({}) => NoEmptyTables
  <2> SUFFICES ASSUME Inv({}), pc = "idle", NEW f \in Frames \ (free \cup {Root}) PROVE ~is_empty(f)
    BY DEF NoEmptyTables
  <2>1. AllUsed({})
    BY UsedRests DEF Inv
  <2>2. f \in Tables({}) \ {Root}
    BY DEF Tables
  <2> QED BY <2>1, <2>2 DEF AllUsed
<1> QED BY <1>1, Invariance, PTL

\* The addresses of the whole range, as the properties write them.
LEMMA WholeSpan ==
  ASSUME call \in CallSet, NEW n \in Nat
  PROVE  Span(0, n) = call.virt..(call.virt + n * Stride(call.size) - 1)
<1> DEFINE s == Stride(call.size)
           c == call.virt
<1>1. s \in Nat /\ c \in Nat
  BY StrideNat
<1>2. Span(0, n) = (c + 0 * s)..((c + n * s) - 1)
  BY DEF Span, VirtAt
<1> HIDE DEF s, c
<1>3. c + 0 * s = c
  BY SMTT(60), <1>1
<1>4. Span(0, n) = c..(c + n * s - 1)
  BY SMTT(60), <1>1, <1>2, <1>3
<1> QED BY <1>4 DEF s, c

(***************************************************************************)
(* map_range is all or nothing.  The rollback finds every page it has to   *)
(* take back, which is why ignoring unmap's error there does no harm.      *)
(***************************************************************************)
THEOREM MapIsAllOrNothing == Spec => []MapAllOrNothing
<1>1. Inv({}) => MapAllOrNothing
  <2> SUFFICES ASSUME Inv({}), pc = "done", call.op \in {"map", "undo"}
               PROVE  Translation =
                        IF result = "Ok"
                        THEN [v \in Canonical |->
                                IF v \in call.virt..(call.virt + call.pages * Stride(call.size) - 1)
                                THEN call.phys + (v - call.virt) ELSE before[v]]
                        ELSE before
    BY DEF MapAllOrNothing
  <2>1. call \in CallSet /\ call.pages \in Nat /\ Done = i /\ pc # "idle"
    BY StrideNat DEF Inv, Struct, Typed, Done
  <2>2. CASE call.op = "map"
    <3>1. result = "Ok" /\ MappedFrom(0, call.pages)
      BY <2>2 DEF Inv, SoFar, MapSoFar
    <3>2. ASSUME NEW v \in Canonical
          PROVE  translate(table, v) = IF v \in call.virt..(call.virt + call.pages * Stride(call.size) - 1)
                                       THEN call.phys + (v - call.virt) ELSE before[v]
      BY <2>1, <3>1, WholeSpan DEF MappedFrom
    <3> QED BY <3>1, <3>2 DEF Translation
  <2>3. CASE call.op = "undo"
    <3>1. result # "Ok" /\ MappedFrom(call.pages, call.pages)
      BY <2>1, <2>3 DEF Inv, SoFar, UndoSoFar
    <3>2. ASSUME NEW v \in Canonical PROVE translate(table, v) = before[v]
      BY <2>1, <3>1, Spans DEF MappedFrom
    <3>3. before = [v \in Canonical |-> before[v]]
      BY <2>1 DEF Inv, SoFar
    <3>4. Translation = [v \in Canonical |-> before[v]]
      BY <3>2 DEF Translation
    <3> QED BY <3>1, <3>3, <3>4
  <2> QED BY <2>2, <2>3
<1> QED BY <1>1, Invariance, PTL

(***************************************************************************)
(* unmap_range takes out a prefix of its range, all of it if and only if   *)
(* it returns Ok, and nothing else.                                        *)
(***************************************************************************)
THEOREM UnmapIsAPrefix == Spec => []UnmapIsPrefix
<1>1. Inv({}) => UnmapIsPrefix
  <2> SUFFICES ASSUME Inv({}), pc = "done", call.op = "unmap"
               PROVE  /\ Translation = [v \in Canonical |->
                           IF v \in call.virt..(call.virt + i * Stride(call.size) - 1) THEN Unmapped ELSE before[v]]
                      /\ result = "Ok" <=> i = call.pages
                      /\ result = "Ok" => \A v \in call.virt..(call.virt + call.pages * Stride(call.size) - 1) :
                                            before[v] # Unmapped
    BY DEF UnmapIsPrefix
  <2>1. call \in CallSet /\ i \in Nat /\ Done = i
    BY SMTT(60), StrideNat DEF Inv, Struct, Typed, Done
  <2>2. UnmapSoFar
    BY DEF Inv, SoFar
  <2>3. Span(0, i) = call.virt..(call.virt + i * Stride(call.size) - 1)
    BY <2>1, WholeSpan
  <2>4. /\ \A v \in Canonical : translate(table, v) = IF v \in Span(0, i) THEN Unmapped ELSE before[v]
        /\ \A v \in Span(0, i) : before[v] # Unmapped
        /\ result = "Ok" <=> i = call.pages
    BY <2>1, <2>2 DEF UnmapSoFar
  <2>5. Translation = [v \in Canonical |->
           IF v \in call.virt..(call.virt + i * Stride(call.size) - 1) THEN Unmapped ELSE before[v]]
    BY <2>3, <2>4 DEF Translation
  <2> QED BY <2>3, <2>4, <2>5
<1> QED BY <1>1, Invariance, PTL

-----------------------------------------------------------------------------
(* The set of pages. *)

\* A page as MappedPages has it.
PageRec(v, p, l) == [virt |-> v, phys |-> p, size |-> l]

\* The fields of a page.
LEMMA PageFields ==
  \A v, p, l : PageRec(v, p, l).virt = v /\ PageRec(v, p, l).phys = p /\ PageRec(v, p, l).size = l
  BY DEF PageRec

\* What it takes to be a page.
LEMMA PageIn ==
  ASSUME NEW T, NEW m
  PROVE  m \in PagesIn(T) <=> \E v \in Canonical, l \in 0..2 :
                                m = PageRec(v, LeafAt(T, v, l), l) /\ v % ENTRIES^l = 0 /\ Leaf(T, v, l)
<1>1. {Base, Large, Huge} = 0..2
  BY SMTT(60) DEF Base, Large, Huge
<1> DEFINE P(l) == {PageRec(v, LeafAt(T, v, l), l) : v \in {w \in Canonical : w % ENTRIES^l = 0 /\ Leaf(T, w, l)}}
<1>2. PagesIn(T) = UNION {P(l) : l \in 0..2}
  BY <1>1 DEF PagesIn, PageRec
<1>3. ASSUME NEW l PROVE m \in P(l) <=> \E v \in Canonical : m = PageRec(v, LeafAt(T, v, l), l) /\ v % ENTRIES^l = 0 /\ Leaf(T, v, l)
  OBVIOUS
<1> HIDE DEF P
<1>4. m \in PagesIn(T) <=> \E l \in 0..2 : m \in P(l)
  BY <1>2
<1> QED BY <1>3, <1>4

\* The page in hand is the only one that starts in its addresses.
LEMMA FirstOfPage ==
  ASSUME NEW H, Struct(H), Walking
  PROVE  /\ virt \in Canonical /\ virt \in PageOf(i) /\ virt % ENTRIES^call.size = 0
         /\ \A v \in Canonical : v \in PageOf(i) /\ v % ENTRIES^call.size = 0 => v = virt
<1>1. call \in CallSet /\ i \in Nat /\ call.size \in 0..2 /\ virt \in Nat /\ is_canonical(virt) /\ ~misaligned(virt)
  BY AtPage
<1>2. virt = VirtAt(i) /\ VirtAt(i) \in PageOf(i)
  BY <1>1, VirtIsAt, Spans
<1>3. virt % ENTRIES^call.size = 0
  BY <1>1 DEF misaligned, Stride
<1>4. ASSUME NEW v \in Canonical, v \in PageOf(i), v % ENTRIES^call.size = 0 PROVE v = virt
  <2>1. v \in Nat
    BY CanonicalNat
  <2>2. v % ENTRIES^call.size = v - VirtAt(i)
    BY <1>1, <1>2, <1>4, <2>1, PageBlock
  <2>3. 0 = v - VirtAt(i) /\ VirtAt(i) \in Nat
    BY <1>1, <1>2, <1>4, <2>2
  <2>4. v = VirtAt(i)
    BY SMTT(60), <2>1, <2>3
  <2> QED BY <1>2, <2>4
<1> QED BY <1>1, <1>2, <1>3, <1>4, CanonicalNat

\* The other pages are left alone.
LEMMA OtherPages ==
  ASSUME NEW H, Struct(H), Walking, NEW e, Writes(H, e), NEW v \in Canonical, NEW l \in 0..2, v % ENTRIES^l = 0,
         v # virt \/ l # call.size
  PROVE  (Leaf(table', v, l) <=> Leaf(table, v, l)) /\ LeafAt(table', v, l) = LeafAt(table, v, l)
<1>1. ~(l = call.size /\ v \in PageOf(i))
  BY FirstOfPage
<1> QED BY <1>1, LeavesAfter

\* map adds a page that overlaps none.
LEMMA MapLeafAdds ==
  ASSUME NEW H, Struct(H), Struct(H)', MapLeaf
  PROVE  LET m == PageRec(virt, phys, call.size)
         IN  /\ m \notin MappedPages /\ MappedPages' = MappedPages \cup {m}
             /\ Space!AlignedPage(m)
             /\ \A n \in MappedPages : Space!Span(m) \cap Space!Span(n) = {}
<1> DEFINE m == PageRec(virt, phys, call.size)
<1>1. Writes(H, PageAt(phys)) /\ Walking /\ pc = "map_walk"
  BY MapLeafDoes
<1>2. /\ call \in CallSet /\ i \in Nat /\ call.size \in 0..2 /\ virt \in Nat /\ is_canonical(virt) /\ ~misaligned(virt)
      /\ ~misaligned(phys)
  BY <1>1, AtPage
<1>3. /\ virt \in Canonical /\ virt \in PageOf(i) /\ virt % ENTRIES^call.size = 0
  BY <1>1, FirstOfPage
<1>4. /\ Leaf(table', virt, call.size) /\ LeafAt(table', virt, call.size) = phys
      /\ \A v \in Canonical : v \in PageOf(i) => \A l \in 0..2 : ~Leaf(table, v, l)
  BY MapLeafTranslates
<1>5. m.virt = virt /\ m.phys = phys /\ m.size = call.size
  BY DEF PageRec
<1>6. m \notin PagesIn(table)
  <2>1. ASSUME NEW v \in Canonical, NEW l \in 0..2, m = PageRec(v, LeafAt(table, v, l), l), Leaf(table, v, l) PROVE FALSE
    <3>1. v = virt /\ l = call.size
      <4> HIDE DEF m
      <4> QED BY SMTT(60), <1>5, <2>1, PageFields
    <3> QED BY <1>2, <1>3, <1>4, <2>1, <3>1
  <2> QED BY <2>1, PageIn
<1>7. m \in PagesIn(table')
  BY <1>2, <1>3, <1>4, PageIn
<1>8. ASSUME NEW n PROVE n \in PagesIn(table') <=> n \in PagesIn(table) \/ n = m
  <2>1. ASSUME NEW v \in Canonical, NEW l \in 0..2, v % ENTRIES^l = 0, n = PageRec(v, LeafAt(table, v, l), l), Leaf(table, v, l)
        PROVE  n \in PagesIn(table')
    <3>1. v # virt \/ l # call.size
      BY <1>2, <1>3, <1>4, <2>1
    <3>2. Leaf(table', v, l) /\ LeafAt(table', v, l) = LeafAt(table, v, l)
      BY <1>1, <2>1, <3>1, OtherPages
    <3> QED BY <2>1, <3>2, PageIn
  <2>2. ASSUME NEW v \in Canonical, NEW l \in 0..2, v % ENTRIES^l = 0, n = PageRec(v, LeafAt(table', v, l), l), Leaf(table', v, l)
        PROVE  n \in PagesIn(table) \/ n = m
    <3>1. CASE v = virt /\ l = call.size
      BY <1>4, <2>2, <3>1
    <3>2. CASE v # virt \/ l # call.size
      <4>1. Leaf(table, v, l) /\ LeafAt(table', v, l) = LeafAt(table, v, l)
        BY <1>1, <2>2, <3>2, OtherPages
      <4> QED BY <2>2, <4>1, PageIn
    <3> QED BY <3>1, <3>2
  <2> QED BY <1>7, <2>1, <2>2, PageIn
<1>9. Space!AlignedPage(m)
  BY <1>2, <1>5 DEF Space!AlignedPage, misaligned, Stride
<1>10. Space!Span(m) = PageOf(i)
  BY <1>5, VirtIsAt DEF Space!Span, PageOf, Stride
<1>11. ASSUME NEW n \in PagesIn(table) PROVE Space!Span(m) \cap Space!Span(n) = {}
  <2>1. PICK w \in Canonical, l \in 0..2 : n = PageRec(w, LeafAt(table, w, l), l) /\ w % ENTRIES^l = 0 /\ Leaf(table, w, l)
    BY PageIn
  <2>2. Space!Span(n) = w..(w + ENTRIES^l - 1)
    BY <2>1, PageFields DEF Space!Span
  <2>3. ASSUME NEW v, v \in PageOf(i), v \in w..(w + ENTRIES^l - 1) PROVE FALSE
    <3>1. w \in Nat /\ is_canonical(w)
      BY CanonicalNat
    <3>2. v \in Nat /\ l \in 0..3
      BY SMTT(60), <2>3, <3>1
    <3>3. Block(v, l) = Block(w, l)
      BY <2>1, <2>3, <3>1, <3>2, InPage
    <3>4. v \in Canonical
      BY <3>1, <3>2, <3>3, CanonicalPage, CanonicalNat
    <3>5. Leaf(table, v, l)
      BY <2>1, <3>1, <3>2, <3>3, LeafSame
    <3> QED BY <1>4, <2>3, <3>4, <3>5
  <2> QED BY <1>10, <2>2, <2>3
<1>12. MappedPages = PagesIn(table) /\ MappedPages' = PagesIn(table')
  BY DEF MappedPages
<1> HIDE DEF m
<1>13. /\ m \notin MappedPages /\ MappedPages' = MappedPages \cup {m}
       /\ Space!AlignedPage(m)
       /\ \A n \in MappedPages : Space!Span(m) \cap Space!Span(n) = {}
  BY <1>6, <1>8, <1>9, <1>11, <1>12
<1> QED BY <1>13 DEF m

\* unmap takes one out.
LEMMA UnmapLeafRemoves ==
  ASSUME NEW H, Struct(H), Struct(H)', UnmapLeaf
  PROVE  LET m == PageRec(virt, LeafAt(table, virt, call.size), call.size)
         IN  m \in MappedPages /\ MappedPages' = MappedPages \ {m}
<1> DEFINE m == PageRec(virt, LeafAt(table, virt, call.size), call.size)
<1>1. Writes(H, Nothing) /\ Walking
  BY UnmapLeafDoes
<1>2. call.size \in 0..2
  BY <1>1, AtPage
<1>3. virt \in Canonical /\ virt \in PageOf(i) /\ virt % ENTRIES^call.size = 0
  BY <1>1, FirstOfPage
<1>4. /\ \A v \in Canonical : v \in PageOf(i) => \A l \in 0..2 : ~Leaf(table', v, l)
      /\ Leaf(table, virt, call.size)
  BY UnmapLeafTranslates
<1>5. m.virt = virt /\ m.size = call.size
  BY DEF PageRec
<1>6. m \in PagesIn(table)
  BY <1>2, <1>3, <1>4, PageIn
<1>7. m \notin PagesIn(table')
  <2>1. ASSUME NEW v \in Canonical, NEW l \in 0..2, m = PageRec(v, LeafAt(table', v, l), l), Leaf(table', v, l) PROVE FALSE
    <3>1. v = virt /\ l = call.size
      <4> HIDE DEF m
      <4> QED BY SMTT(60), <1>5, <2>1, PageFields
    <3> QED BY <1>2, <1>3, <1>4, <2>1, <3>1
  <2> QED BY <2>1, PageIn
<1>8. ASSUME NEW n, n # m PROVE n \in PagesIn(table') <=> n \in PagesIn(table)
  <2>1. ASSUME NEW v \in Canonical, NEW l \in 0..2, v % ENTRIES^l = 0, n = PageRec(v, LeafAt(table, v, l), l), Leaf(table, v, l)
        PROVE  n \in PagesIn(table')
    <3>1. v # virt \/ l # call.size
      BY <1>8, <2>1
    <3>2. Leaf(table', v, l) /\ LeafAt(table', v, l) = LeafAt(table, v, l)
      BY <1>1, <2>1, <3>1, OtherPages
    <3> QED BY <2>1, <3>2, PageIn
  <2>2. ASSUME NEW v \in Canonical, NEW l \in 0..2, v % ENTRIES^l = 0, n = PageRec(v, LeafAt(table', v, l), l), Leaf(table', v, l)
        PROVE  n \in PagesIn(table)
    <3>1. v # virt \/ l # call.size
      BY <1>2, <1>3, <1>4, <2>2
    <3>2. Leaf(table, v, l) /\ LeafAt(table', v, l) = LeafAt(table, v, l)
      BY <1>1, <2>2, <3>1, OtherPages
    <3> QED BY <2>2, <3>2, PageIn
  <2> QED BY <2>1, <2>2, PageIn
<1>9. MappedPages = PagesIn(table) /\ MappedPages' = PagesIn(table')
  BY DEF MappedPages
<1> HIDE DEF m
<1>10. m \in MappedPages /\ MappedPages' = MappedPages \ {m}
  BY <1>6, <1>7, <1>8, <1>9
<1> QED BY <1>10 DEF m

\* Without pages that come or go, MappedPages stays.
LEMMA QuietPages ==
  ASSUME Quiet
  PROVE  MappedPages' = MappedPages
<1>1. PagesIn(table) = PagesIn(table')
  BY SamePages DEF Quiet
<1> QED BY <1>1 DEF MappedPages

(***************************************************************************)
(* The page tables implement AddressSpace: whatever tables are made and    *)
(* given back underneath, pages come and go one at a time, aligned and     *)
(* never overlapping, from those that the loader left.                     *)
(***************************************************************************)
THEOREM PagesComeAndGo == Spec => ImplementsAddressSpace
<1>1. Init => Space!Init
  <2> SUFFICES ASSUME Init PROVE PagesIn(table) = PagesIn(BootTable)
    BY DEF Space!Init, MappedPages
  <2> DEFINE D == DOMAIN BootTable
  <2>1. PICK lv : Tree(BootTable, D, lv)
    BY BootTree
  <2>2. Tree(BootTable, D \cup {}, lv) /\ Pruned(BootTable, table, D, {})
    BY <2>1, BootPruned
  <2> HIDE DEF D
  <2>3. \A v \in Canonical : SameLeaves(BootTable, table, v)
    BY <2>2, PrunedLeaves, CanonicalNat
  <2> QED BY <2>3, SamePages
<1>2. Inv({}) /\ Inv({})' /\ [Next]_vars => [Space!Next]_MappedPages
  <2> SUFFICES ASSUME Inv({}), Inv({})', [Next]_vars PROVE Space!Next \/ MappedPages' = MappedPages
    OBVIOUS
  <2>1. Struct({}) /\ Struct({})'
    BY DEF Inv
  <2>2. CASE MapLeaf
    <3> DEFINE m == PageRec(virt, phys, call.size)
    <3>1. /\ m \notin MappedPages /\ MappedPages' = MappedPages \cup {m}
          /\ Space!AlignedPage(m)
          /\ \A n \in MappedPages : Space!Span(m) \cap Space!Span(n) = {}
      BY <2>1, <2>2, MapLeafAdds
    <3> HIDE DEF m
    <3>2. m \in MappedPages' \ MappedPages /\ Space!Map(m)
      BY <3>1 DEF Space!Map
    <3> QED BY <3>2 DEF Space!Next
  <2>3. CASE UnmapLeaf
    <3> DEFINE m == PageRec(virt, LeafAt(table, virt, call.size), call.size)
    <3>1. m \in MappedPages /\ MappedPages' = MappedPages \ {m}
      BY <2>1, <2>3, UnmapLeafRemoves
    <3> HIDE DEF m
    <3>2. m \in MappedPages \ MappedPages' /\ Space!Unmap(m)
      BY <3>1 DEF Space!Unmap
    <3> QED BY <3>2 DEF Space!Next
  <2> QED BY <2>1, <2>2, <2>3, QuietSteps, QuietPages
<1> QED BY <1>1, <1>2, Invariance, PTL DEF Spec, ImplementsAddressSpace, Space!Spec

-----------------------------------------------------------------------------
(* The caches of the CPU. *)

\* The first address of a block.
LEMMA FirstNat ==
  ASSUME NEW v \in Nat, NEW l \in 0..3
  PROVE  /\ First(v, l) \in Nat /\ First(v, l) % ENTRIES^l = 0 /\ Block(First(v, l), l) = Block(v, l)
         /\ First(v, l) = Block(v, l) * ENTRIES^l
<1> DEFINE n == ENTRIES^l
           q == v \div n
           r == v % n
<1>1. l \in 0..4
  BY SMTT(60)
<1>2. n \in Nat \ {0}
  BY <1>1, Powers
<1>3. q \in Nat /\ r \in 0..(n - 1) /\ v = q * n + r
  BY <1>2, Divide
<1>4. First(v, l) = v - r /\ Block(v, l) = q
  BY DEF First, Block
<1> HIDE DEF n, q, r
<1>5. q * n \in Nat /\ v - r = q * n
  BY SMTT(60), <1>2, <1>3
<1>6. (q * n + 0) \div n = q /\ (q * n + 0) % n = 0
  BY SMTT(60), <1>2, <1>3, Quotient
<1>7. q * n + 0 = q * n
  BY SMTT(60), <1>5
<1>8. First(v, l) = q * n
  BY <1>4, <1>5
<1>9. First(v, l) % n = 0 /\ First(v, l) \div n = q
  BY <1>6, <1>7, <1>8
<1> QED BY <1>4, <1>5, <1>8, <1>9 DEF n, Block

\* Addresses of one block have one first address.
LEMMA SameFirst ==
  ASSUME NEW v \in Nat, NEW w \in Nat, NEW l \in 0..3
  PROVE  First(v, l) = First(w, l) <=> Block(v, l) = Block(w, l)
  BY FirstNat

\* A cached pointer is one of the tables.
Pointer(T, p) == p.level \in 0..2 /\ p.virt \in Nat /\ p.at # Root /\ Walk(T, p.virt, p.level) = p.at

\* The first address of a page stands for all of them.
LEMMA FirstOnWalk ==
  ASSUME NEW T, NEW v \in Canonical, NEW l \in 0..2
  PROVE  /\ First(v, l) \in Canonical /\ First(v, l) % ENTRIES^l = 0
         /\ Leaf(T, First(v, l), l) <=> Leaf(T, v, l)
         /\ LeafAt(T, First(v, l), l) = LeafAt(T, v, l)
<1>1. v \in Nat /\ is_canonical(v)
  BY CanonicalNat
<1>2. l \in 0..3
  BY SMTT(60)
<1>3. First(v, l) \in Nat /\ First(v, l) % ENTRIES^l = 0 /\ Block(First(v, l), l) = Block(v, l)
  BY <1>1, <1>2, FirstNat
<1>4. First(v, l) \in Canonical
  BY <1>1, <1>3, CanonicalPage, CanonicalNat
<1> QED BY <1>1, <1>3, <1>4, LeafSame

\* What the walker makes of an entry.
LEMMA WalkerReads ==
  ASSUME NEW v, NEW l \in 0..3, NEW e
  PROVE  /\ e.kind = "none" => Found(v, l, e) = {} /\ Cached(v, l, e) = {}
         /\ e.kind = "page" => Found(v, l, e) = {PageRec(First(v, l), e.at, l)} /\ Cached(v, l, e) = {}
         /\ e.kind = "table" /\ l \in 1..3 =>
              Found(v, l, e) = {} /\ Cached(v, l, e) = {[virt |-> First(v, l), level |-> l - 1, at |-> e.at]}
  BY SMTT(60) DEF Found, Cached, PageRec

\* What the walker finds in a table of its walk is a page or a pointer.
LEMMA WalkerFinds ==
  ASSUME NEW T, NEW S, NEW lv, Tree(T, S, lv), NEW v \in Canonical, NEW l \in 0..3, Reached(T, v, l),
         NEW e, e = T[Walk(T, v, l)][index(v, l)]
  PROVE  /\ Found(v, l, e) \subseteq PagesIn(T)
         /\ \A p \in Cached(v, l, e) : Pointer(T, p)
<1> DEFINE f == Walk(T, v, l)
           x == index(v, l)
<1>1. v \in Nat /\ f \in S /\ lv[f] = l /\ x \in Indexes
  BY CanonicalNat, WalkIn, BlockStep
<1>2. /\ e.kind \in {"none", "page", "table"}
      /\ e.kind = "page" => lv[f] < 3
      /\ e.kind = "table" => e.at \in S \ {Root} /\ lv[f] = lv[e.at] + 1
  <2>1. e = T[f][x]
    OBVIOUS
  <2> HIDE DEF f, x
  <2>2. f \in S /\ x \in Indexes
    BY <1>1
  <2>3. /\ T[f][x].kind \in {"none", "page", "table"}
        /\ T[f][x].kind = "none" => T[f][x] = Nothing
        /\ T[f][x].kind = "page" => T[f][x].at \in Nat /\ lv[f] < 3
        /\ T[f][x].kind = "table" =>
             /\ T[f][x] = TableAt(T[f][x].at) /\ T[f][x].at \in S \ {Root}
             /\ lv[f] = lv[T[f][x].at] + 1
    BY SMTT(60), <2>2, EntryKinds
  <2> QED BY <2>1, <2>3
<1>3. e.kind = "table" => l \in 1..3
  <2>1. CASE e.kind = "table"
    <3> DEFINE k == lv[e.at]
    <3>1. k \in 0..3
      BY <1>2, <2>1 DEF Tree, TOP
    <3>2. l = k + 1
      BY <1>1, <1>2, <2>1
    <3> HIDE DEF k
    <3> QED BY SMTT(60), <3>1, <3>2
  <2> QED BY <2>1
<1>4. CASE e.kind = "page"
  <2>1. l \in 0..2
    BY SMTT(60), <1>1, <1>2, <1>4
  <2>2. f # Root
    BY SMTT(60), <2>1 DEF Reached
  <2>3. Leaf(T, v, l) /\ LeafAt(T, v, l) = e.at
    BY <1>4, <2>2 DEF Leaf, LeafAt
  <2>4. PageRec(First(v, l), LeafAt(T, First(v, l), l), l) \in PagesIn(T) /\ LeafAt(T, First(v, l), l) = e.at
    BY <2>1, <2>3, FirstOnWalk, PageIn
  <2>5. Found(v, l, e) = {PageRec(First(v, l), e.at, l)} /\ Cached(v, l, e) = {}
    BY <1>4, WalkerReads
  <2> QED BY <2>4, <2>5
<1>5. CASE e.kind = "table"
  <2> DEFINE w == First(v, l)
             p == [virt |-> w, level |-> l - 1, at |-> e.at]
  <2>1. Found(v, l, e) = {} /\ Cached(v, l, e) = {p}
    BY <1>3, <1>5, WalkerReads
  <2>2. e = TableAt(Walk(T, v, l - 1)) /\ Walk(T, v, l - 1) # Root
    BY <1>1, <1>3, <1>5, WalkDown
  <2>3. e.at = Walk(T, v, l - 1)
    BY <2>2, EntryTypes
  <2>4. l - 1 \in 0..2 /\ (l - 1) + 1 = l
    BY SMTT(60), <1>3, <1>5
  <2>5. w \in Nat /\ Block(w, l) = Block(v, l)
    BY <1>1, FirstNat
  <2>6. Walk(T, w, l - 1) = Walk(T, v, l - 1)
    <3> DEFINE k == l - 1
    <3>1. k \in 0..2 /\ Block(w, k + 1) = Block(v, k + 1)
      BY <2>4, <2>5
    <3> HIDE DEF k
    <3>2. Walk(T, w, k) = Walk(T, v, k)
      BY <1>1, <2>5, <3>1, WalkSame
    <3> QED BY <3>2 DEF k
  <2>7. p.virt = w /\ p.level = l - 1 /\ p.at = e.at
    OBVIOUS
  <2> HIDE DEF p, w
  <2>8. Pointer(T, p)
    BY <2>2, <2>3, <2>4, <2>5, <2>6, <2>7 DEF Pointer
  <2> QED BY <2>1, <2>8
<1>6. CASE e.kind = "none"
  BY <1>6, WalkerReads
<1> QED BY <1>2, <1>4, <1>5, <1>6

\* A page of the smallest size, and the walk to it.
LEMMA BasePage ==
  ASSUME NEW T, NEW m \in PagesIn(T), m.size = Base
  PROVE  m.virt \in Canonical /\ Leaf(T, m.virt, 0) /\ m = PageRec(m.virt, LeafAt(T, m.virt, 0), 0)
<1>1. PICK v \in Canonical, l \in 0..2 : m = PageRec(v, LeafAt(T, v, l), l) /\ v % ENTRIES^l = 0 /\ Leaf(T, v, l)
  BY PageIn
<1>2. m.virt = v /\ m.size = l
  BY SMTT(60), <1>1, PageFields
<1>3. l = 0
  BY <1>2 DEF Base
<1> QED BY <1>1, <1>2, <1>3

\* The walk to a base page passes a table on every level.
LEMMA BaseWalk ==
  ASSUME NEW T, NEW S, NEW lv, Tree(T, S, lv), NEW v \in Nat, Leaf(T, v, 0), NEW l \in 1..3,
         NEW e, e = T[Walk(T, v, l)][index(v, l)]
  PROVE  e.kind = "table" /\ e.at = Walk(T, v, l - 1)
<1>1. l \in 0..3 /\ 0 \in 0..3 /\ 0 < l
  BY SMTT(60)
<1>2. Reached(T, v, 0)
  BY DEF Leaf, Reached
<1>3. Reached(T, v, l) /\ e.kind = "table"
  BY <1>1, <1>2, ReachedUp
<1>4. e = TableAt(Walk(T, v, l - 1))
  BY <1>3, WalkDown
<1> QED BY <1>3, <1>4, EntryTypes

\* Whatever table the walker starts from, what it finds for the addresses of a
\* base page is right if it starts from a table of that page's walk.
OnBaseWalk(T, S, lv, m, v, l, e) ==
  /\ Tree(T, S, lv) /\ m \in PagesIn(T) /\ m.size = Base /\ v \in Nat /\ l \in 0..3
  /\ First(m.virt, l) = First(v, l) /\ e = T[Walk(T, m.virt, l)][index(v, l)]

\* What the walker finds for a base page is that page or the next table of its walk.
LEMMA WalkerFindsBase ==
  ASSUME NEW T, NEW S, NEW lv, NEW m, NEW v, NEW l, NEW e, OnBaseWalk(T, S, lv, m, v, l, e)
  PROVE  /\ \A t \in Found(v, l, e) : t = m
         /\ \A p \in Cached(v, l, e) : p.level = l - 1 /\ l \in 1..3 /\ p.at = Walk(T, m.virt, p.level)
<1> Tree(T, S, lv) /\ m \in PagesIn(T) /\ m.size = Base /\ v \in Nat /\ l \in 0..3 /\ First(m.virt, l) = First(v, l)
  BY DEF OnBaseWalk
<1>1. m.virt \in Canonical /\ Leaf(T, m.virt, 0) /\ m = PageRec(m.virt, LeafAt(T, m.virt, 0), 0)
  BY BasePage
<1>2. m.virt \in Nat
  BY <1>1, CanonicalNat
<1>3. Block(m.virt, l) = Block(v, l)
  BY <1>2, SameFirst
<1>4. index(m.virt, l) = index(v, l)
  BY <1>2, <1>3, SameBlock
<1>5. e = T[Walk(T, m.virt, l)][index(m.virt, l)]
  BY <1>4 DEF OnBaseWalk
<1>6. CASE l \in 1..3
  <2>1. e.kind = "table" /\ e.at = Walk(T, m.virt, l - 1)
    BY <1>1, <1>2, <1>5, <1>6, BaseWalk
  <2>2. Found(v, l, e) = {} /\ Cached(v, l, e) = {[virt |-> First(v, l), level |-> l - 1, at |-> e.at]}
    BY <1>6, <2>1, WalkerReads
  <2> QED BY SMTT(60), <1>6, <2>1, <2>2
<1>7. CASE l = 0
  <2>1. e.kind = "page" /\ e.at = LeafAt(T, m.virt, 0)
    <3>1. e = T[Walk(T, m.virt, 0)][index(m.virt, 0)]
      BY <1>5, <1>7
    <3> QED BY <1>1, <3>1 DEF Leaf, LeafAt
  <2>2. Found(v, 0, e) = {PageRec(First(v, 0), e.at, 0)} /\ Cached(v, 0, e) = {}
    BY <1>7, <2>1, WalkerReads
  <2>3. First(v, 0) = m.virt
    <3>1. ENTRIES^0 = 1
      BY Powers
    <3>2. m.virt % 1 = 0 /\ m.virt - 0 = m.virt
      BY SMTT(60), <1>2
    <3> QED BY <1>7, <3>1, <3>2 DEF First
  <2> QED BY <1>1, <1>7, <2>1, <2>2, <2>3
<1>8. l = 0 \/ l \in 1..3
  BY SMTT(60)
<1> QED BY <1>6, <1>7, <1>8

-----------------------------------------------------------------------------
(* The caches step by step.  The frames held by others are H. *)

\* The CPU's steps are those of Vmm.
LEMMA CpuIsNext ==
  ASSUME CpuStep
  PROVE  Next
  BY DEF CpuStep, Next, Step

\* The invariant of Vmm holds, whatever others do with frames between calls.
LEMMA TlbInv ==
  ASSUME Inv(held), [TlbNext]_tlb_vars
  PROVE  Inv(held)'
<1>1. ASSUME [Next]_vars, held' = held PROVE Inv(held)'
  <2>1. PICK H : H = held
    OBVIOUS
  <2>2. Inv(H)'
    BY <1>1, <2>1, StepInv
  <2>3. H = held'
    BY <1>1, <2>1
  <2> QED BY <2>2, <2>3
<1>2. CASE CpuStep /\ UNCHANGED held
  BY <1>1, <1>2, CpuIsNext
<1>3. ASSUME NEW v, HwWalk(v) PROVE Inv(held)'
  <2>1. UNCHANGED vars /\ held' = held
    BY <1>3 DEF HwWalk, WalkFrom
  <2> QED BY <1>1, <2>1
<1>4. CASE UNCHANGED tlb_vars
  <2>1. UNCHANGED vars /\ held' = held
    BY <1>4 DEF tlb_vars
  <2> QED BY <1>1, <2>1
<1>5. CASE OthersAlloc \/ OthersFree
  <2>1. /\ pc = "idle" /\ table' = table /\ pc' = pc /\ call' = call /\ i' = i /\ path' = path /\ new' = new
        /\ result' = result /\ before' = before
        /\ \/ \E f \in free : free' = free \ {f} /\ held' = held \cup {f}
           \/ \E f \in held : free' = free \cup {f} /\ held' = held \ {f}
    BY <1>5 DEF OthersAlloc, OthersFree
  <2>2. free \subseteq Frames /\ held \subseteq Frames \ free
    BY DEF Inv, Struct, Typed, Shaped
  <2>3. Tables(held)' = Tables(held) /\ free' \subseteq Frames /\ held' \subseteq Frames \ free'
    BY <2>1, <2>2 DEF Tables
  <2>4. Shaped(held)'
    BY <2>1, <2>3 DEF Inv, Struct, Shaped
  <2>5. Typed'
    BY <2>1, <2>3 DEF Inv, Struct, Typed
  <2>6. path = <<>> /\ new = {} /\ ~Walking /\ ~Walking'
    BY <2>1 DEF Inv, Struct, OnPath, OnlyNew, Walking
  <2>7. OnPath' /\ OnlyNew(held)'
    BY <2>1, <2>6 DEF OnPath, OnlyNew
  <2>8. pc \notin {"map_walk", "reclaim", "flush"} /\ pc' # "map_walk" /\ pc' = "idle"
    BY <2>1
  <2>9. \A f \in Tables(held) \ {Root} : ~is_empty(f)
    BY <2>8, UsedRests DEF Inv, AllUsed
  <2>10. \A f \in Tables(held)' \ {Root} : ~is_empty(f)'
    BY <2>1, <2>3, <2>9 DEF is_empty
  <2>11. Used(held)'
    BY <2>8, <2>10 DEF Used
  <2>12. call'.op \notin {"map", "unmap", "undo"}
    BY <2>5, <2>8, OpsAtPcs DEF Typed
  <2>13. SoFar'
    BY <2>8, <2>12 DEF SoFar
  <2> QED BY <2>4, <2>5, <2>7, <2>11, <2>13 DEF Inv, Struct
<1> QED BY <1>2, <1>3, <1>4, <1>5 DEF TlbNext

\* A table that a walk passes stays on it while map makes new ones.
LEMMA PointersStay ==
  ASSUME NEW H, Struct(H), table' = table \/ MapNewTable, NEW p, Pointer(table, p)
  PROVE  Pointer(table', p)
<1>1. p.level \in 0..2 /\ p.virt \in Nat /\ p.at # Root /\ Walk(table, p.virt, p.level) = p.at
  BY DEF Pointer
<1>2. p.level \in 0..3 /\ Reached(table, p.virt, p.level)
  BY SMTT(60), <1>1 DEF Reached
<1>3. CASE table' = table
  BY <1>3
<1>4. CASE MapNewTable
  <2>1. PICK f : Makes(H, f)
    BY <1>4, MapNewTableDoes
  <2> DEFINE S == Tables(H)
             D == {f}
  <2>2. PICK lv : Tree(table', S \cup D, lv)
    BY <2>1 DEF Makes
  <2>3. Pruned(table', table, S, D)
    BY <2>1 DEF Makes
  <2> HIDE DEF S, D
  <2>4. Walk(table', p.virt, p.level) = Walk(table, p.virt, p.level)
    BY <1>1, <1>2, <2>2, <2>3, PrunedReached
  <2> QED BY <1>1, <2>4 DEF Pointer
<1> QED BY <1>3, <1>4

\* Without new tables to free, running out of memory changes no table.
LEMMA NothingToFree ==
  ASSUME NEW H, Struct(H), MapOutOfMemory, new = {}
  PROVE  table' = table
<1>1. table \in [Frames -> [Indexes -> Entries]]
  BY DEF Struct, Typed
<1>2. table' = [f \in Frames |-> IF f \in new THEN Junk
       ELSE [x \in Indexes |-> IF table[f][x].kind = "table" /\ table[f][x].at \in new
                               THEN Nothing ELSE table[f][x]]]
  BY DEF MapOutOfMemory
<1>3. table' = [f \in Frames |-> [x \in Indexes |-> table[f][x]]]
  BY <1>2
<1>4. \A f \in Frames : table[f] = [x \in Indexes |-> table[f][x]]
  BY <1>1
<1>5. table = [f \in Frames |-> table[f]]
  BY <1>1
<1> QED BY <1>3, <1>4, <1>5

\* The steps that leave the caches alone.
Uncached ==
  \/ RangeDone \/ Return \/ MapStart \/ MapDescend \/ MapBlocked \/ MapNewTable
  \/ UnmapStart \/ UnmapDescend \/ UnmapMiss \/ Reclaim \/ UnmapDone
  \/ \E c \in Calls : MapRange(c) \/ UnmapRange(c)

\* The steps and what they do to the caches.
LEMMA CpuCases ==
  ASSUME CpuStep
  PROVE  \/ (MapLeaf \/ UnmapLeaf) /\ flush(virt)
         \/ FlushAll /\ flush_all
         \/ MapOutOfMemory /\ rolled' = (rolled \/ new # {}) /\ UNCHANGED <<tlb, psc>>
         \/ Uncached /\ UNCHANGED <<tlb, psc, rolled>>
  BY DEF CpuStep, Uncached

\* None of them runs in reclaim's window, and only reclaim opens it.
LEMMA UncachedStep ==
  ASSUME NEW H, Struct(H), Uncached
  PROVE  /\ pc # "flush"
         /\ table' = table \/ MapNewTable \/ (Reclaim /\ is_empty(Lowest) /\ pc' = "flush")
<1>1. CASE RangeDone
  <2>1. pc \in {"map", "unmap", "undo"}
    BY <1>1, RangeDoneStruct
  <2> QED BY <1>1, <2>1 DEF RangeDone
<1>2. CASE Return \/ MapStart \/ UnmapStart \/ \E c \in Calls : MapRange(c) \/ UnmapRange(c)
  BY <1>2 DEF Return, MapStart, UnmapStart, MapRange, UnmapRange, Enter
<1>3. CASE MapDescend \/ MapBlocked \/ UnmapDescend \/ UnmapMiss \/ UnmapDone
  BY <1>3 DEF MapDescend, MapBlocked, UnmapDescend, UnmapMiss, UnmapDone
<1>4. CASE MapNewTable
  BY <1>4 DEF MapNewTable
<1>5. CASE Reclaim
  BY <1>5 DEF Reclaim
<1> QED BY <1>1, <1>2, <1>3, <1>4, <1>5 DEF Uncached

\* What the caches hold is in the tables.
Cohere == tlb \subseteq MappedPages /\ \A p \in psc : Pointer(table, p)

\* What the walker adds to coherent caches is in the tables.
LEMMA WalkCoheres ==
  ASSUME NEW H, Struct(H), Cohere, NEW v \in Probes, HwWalk(v)
  PROVE  Cohere'
<1>1. PICK lv : Tree(table, Tables(H), lv)
  BY DEF Struct, Shaped
<1>2. v \in Canonical /\ v \in Nat
  BY TlbAssumption, CanonicalNat
<1>3. ASSUME NEW l \in 0..3, NEW f, WalkFrom(v, l, f), Reached(table, v, l), f = Walk(table, v, l)
      PROVE  Cohere'
  <2>1. PICK e : e = table[f][index(v, l)]
    OBVIOUS
  <2>2. table' = table /\ tlb' = tlb \cup Found(v, l, e) /\ psc' = psc \cup Cached(v, l, e)
    BY <1>3, <2>1 DEF WalkFrom, vars
  <2>3. MappedPages' = MappedPages
    BY <2>2, Untouched, QuietPages
  <2>4. Found(v, l, e) \subseteq MappedPages /\ \A p \in Cached(v, l, e) : Pointer(table, p)
    BY <1>1, <1>2, <1>3, <2>1, WalkerFinds DEF MappedPages
  <2> QED BY <2>2, <2>3, <2>4 DEF Cohere
<1>4. CASE WalkFrom(v, TOP, Root)
  <2>1. Walk(table, v, 3) = Root /\ Reached(table, v, 3) /\ TOP = 3 /\ 3 \in 0..3
    BY SMTT(60) DEF Walk, Reached, TOP, Huge, Large, Base
  <2> QED BY <1>3, <1>4, <2>1
<1>5. ASSUME NEW p \in psc, First(v, p.level + 1) = p.virt, WalkFrom(v, p.level, p.at)
      PROVE  Cohere'
  <2>1. PICK k : k = p.level
    OBVIOUS
  <2>2. k \in 0..2 /\ p.virt \in Nat /\ p.at # Root /\ Walk(table, p.virt, k) = p.at
    BY <2>1 DEF Cohere, Pointer
  <2>3. k \in 0..3 /\ k + 1 \in 0..3
    BY SMTT(60), <2>2
  <2>4. First(v, k + 1) = p.virt /\ WalkFrom(v, k, p.at)
    BY <1>5, <2>1
  <2>5. Block(p.virt, k + 1) = Block(v, k + 1)
    BY <1>2, <2>3, <2>4, FirstNat
  <2>6. Walk(table, v, k) = p.at
    BY <1>2, <2>2, <2>5, WalkSame
  <2>7. Reached(table, v, k)
    BY <2>2, <2>6 DEF Reached
  <2> QED BY <1>3, <2>3, <2>4, <2>6, <2>7
<1> QED BY <1>4, <1>5 DEF HwWalk

\* The flush of the page that came or went leaves the caches coherent.
LEMMA LeafCoheres ==
  ASSUME NEW H, Struct(H), Struct(H)', Cohere, MapLeaf \/ UnmapLeaf, flush(virt)
  PROVE  Cohere'
<1>1. tlb' = {t \in tlb : First(virt, t.size) # t.virt} /\ psc' = {}
  BY DEF flush
<1>2. tlb' \subseteq tlb /\ tlb \subseteq MappedPages
  BY <1>1 DEF Cohere
<1>3. CASE MapLeaf
  <2> DEFINE m == PageRec(virt, phys, call.size)
  <2>1. MappedPages' = MappedPages \cup {m}
    BY <1>3, MapLeafAdds
  <2> HIDE DEF m
  <2> QED BY <1>1, <1>2, <2>1 DEF Cohere
<1>4. CASE UnmapLeaf
  <2> DEFINE m == PageRec(virt, LeafAt(table, virt, call.size), call.size)
  <2>1. MappedPages' = MappedPages \ {m}
    BY <1>4, UnmapLeafRemoves
  <2>2. m.virt = virt /\ m.size = call.size
    <3>1. PICK x : x = LeafAt(table, virt, call.size)
      OBVIOUS
    <3>2. m = PageRec(virt, x, call.size)
      BY <3>1
    <3> QED BY SMTT(60), <3>2, PageFields
  <2> HIDE DEF m
  <2>3. Walking
    BY <1>4, UnmapLeafDoes
  <2>4. virt \in Canonical /\ virt % ENTRIES^call.size = 0
    BY <2>3, FirstOfPage
  <2>5. virt \in Nat
    BY <2>4, CanonicalNat
  <2>6. virt - 0 = virt
    <3> DEFINE a == virt
    <3>1. a \in Nat
      BY <2>5
    <3> HIDE DEF a
    <3>2. a - 0 = a
      BY SMTT(60), <3>1
    <3> QED BY <3>2 DEF a
  <2>7. First(virt, call.size) = virt
    BY <2>4, <2>6 DEF First
  <2>8. m \notin tlb'
    BY <1>1, <2>2, <2>7
  <2> QED BY <1>1, <1>2, <2>1, <2>8 DEF Cohere
<1> QED BY <1>3, <1>4

\* The inductive form of CachesCoherent.
Coherent == pc # "flush" /\ ~rolled => Cohere

\* Every step keeps Coherent.
LEMMA CoherentStep ==
  ASSUME Inv(held), Inv(held)', Coherent, [TlbNext]_tlb_vars
  PROVE  Coherent'
<1>1. PICK H : H = held
  OBVIOUS
<1>2. Struct(H)
  BY <1>1 DEF Inv
<1>3. ASSUME table' = table \/ MapNewTable, tlb' = tlb, psc' = psc, Cohere
      PROVE  Cohere'
  <2>1. Quiet
    BY <1>2, <1>3, Untouched, MapNewTableDoes, MakesQuiet
  <2>2. MappedPages' = MappedPages
    BY <2>1, QuietPages
  <2>3. \A p \in psc : Pointer(table', p)
    BY <1>2, <1>3, PointersStay DEF Cohere
  <2> QED BY <1>3, <2>2, <2>3 DEF Cohere
<1>4. ASSUME NEW v \in Probes, HwWalk(v) PROVE Coherent'
  <2>1. pc' = pc /\ rolled' = rolled
    <3>1. UNCHANGED <<vars, rolled, held>>
      BY <1>4 DEF HwWalk, WalkFrom
    <3> QED BY <3>1 DEF vars
  <2>2. Cohere => Cohere'
    BY <1>2, <1>4, WalkCoheres
  <2> QED BY <2>1, <2>2 DEF Coherent
<1>5. CASE OthersAlloc \/ OthersFree \/ UNCHANGED tlb_vars
  <2>1. pc' = pc /\ rolled' = rolled /\ table' = table /\ tlb' = tlb /\ psc' = psc
    BY <1>5 DEF OthersAlloc, OthersFree, tlb_vars, vars
  <2> QED BY <1>3, <2>1 DEF Coherent
<1>6. CASE CpuStep /\ UNCHANGED held
  <2>1. Struct(H)'
    <3>1. Struct(held)' /\ H = held'
      BY <1>1, <1>6 DEF Inv
    <3> QED BY <3>1
  <2>2. CASE (MapLeaf \/ UnmapLeaf) /\ flush(virt)
    <3>1. pc # "flush"
      BY <2>2 DEF MapLeaf, UnmapLeaf
    <3>2. rolled' = rolled
      BY <2>2 DEF flush
    <3>3. Cohere => Cohere'
      BY <1>2, <2>1, <2>2, LeafCoheres
    <3> QED BY <3>1, <3>2, <3>3 DEF Coherent
  <2>3. CASE FlushAll /\ flush_all
    <3>1. tlb' = {} /\ psc' = {}
      BY <2>3 DEF flush_all
    <3> QED BY <3>1 DEF Coherent, Cohere
  <2>4. CASE MapOutOfMemory /\ rolled' = (rolled \/ new # {}) /\ UNCHANGED <<tlb, psc>>
    <3>1. pc # "flush" /\ tlb' = tlb /\ psc' = psc
      BY <2>4 DEF MapOutOfMemory
    <3>2. ~rolled' => ~rolled /\ new = {}
      BY <2>4
    <3>3. new = {} => table' = table
      BY <1>2, <2>4, NothingToFree
    <3> QED BY <1>3, <3>1, <3>2, <3>3 DEF Coherent
  <2>5. CASE Uncached /\ UNCHANGED <<tlb, psc, rolled>>
    <3>1. tlb' = tlb /\ psc' = psc /\ rolled' = rolled
      BY <2>5
    <3>2. pc # "flush" /\ (table' = table \/ MapNewTable \/ pc' = "flush")
      BY <1>2, <2>5, UncachedStep
    <3> QED BY <1>3, <3>1, <3>2 DEF Coherent
  <2> QED BY <1>6, <2>2, <2>3, <2>4, <2>5, CpuCases
<1> QED BY <1>4, <1>5, <1>6 DEF TlbNext

\* A translation is cached for the block of its address.
LEMMA FoundShape ==
  ASSUME NEW v, NEW l, NEW e
  PROVE  \A t \in Found(v, l, e) : t.size = l /\ t.virt = First(v, l)
  BY SMTT(60) DEF Found

\* A pointer is cached for the block of its address, too.
LEMMA CachedShape ==
  ASSUME NEW v, NEW l \in 0..3, NEW e
  PROVE  \A p \in Cached(v, l, e) : p.virt = First(v, l) /\ p.level = l - 1 /\ l \in 1..3
  BY SMTT(60) DEF Cached

\* What the caches hold for a base page, wrong as the rest may be, is that
\* page and the tables of its walk.
BasePages == {m \in MappedPages : m.size = Base}
PageTrusted == \A t \in tlb, m \in BasePages : First(m.virt, t.size) = t.virt => t = m
PointerTrusted ==
  \A p \in psc, m \in BasePages : First(m.virt, p.level + 1) = p.virt => Walk(table, m.virt, p.level) = p.at
Trusted == (\A p \in psc : p.level \in 0..2) /\ PageTrusted /\ PointerTrusted

\* What the walker finds for a base page, it finds in a table of its walk: Trusted is kept.
LEMMA WalkTrusted ==
  ASSUME NEW H, Struct(H), Trusted, NEW v \in Probes, HwWalk(v)
  PROVE  Trusted'
<1>1. PICK lv : Tree(table, Tables(H), lv)
  BY DEF Struct, Shaped
<1>2. v \in Nat
  BY TlbAssumption, CanonicalNat
<1>3. \A m \in BasePages : m \in PagesIn(table) /\ m.size = Base /\ m.virt \in Nat
  BY BasePage, CanonicalNat DEF BasePages, MappedPages
<1>4. ASSUME NEW l \in 0..3, NEW f, WalkFrom(v, l, f),
             \A m \in BasePages : First(m.virt, l) = First(v, l) => f = Walk(table, m.virt, l)
      PROVE  Trusted'
  <2>1. PICK e : e = table[f][index(v, l)]
    OBVIOUS
  <2>2. table' = table /\ tlb' = tlb \cup Found(v, l, e) /\ psc' = psc \cup Cached(v, l, e)
    BY <1>4, <2>1 DEF WalkFrom, vars
  <2>3. MappedPages' = MappedPages
    BY <2>2, Untouched, QuietPages
  <2>4. BasePages' = BasePages
    BY <2>3 DEF BasePages
  <2>5. ASSUME NEW m \in BasePages, First(m.virt, l) = First(v, l)
        PROVE  /\ \A t \in Found(v, l, e) : t = m
               /\ \A p \in Cached(v, l, e) : p.at = Walk(table, m.virt, p.level)
    <3>1. m \in PagesIn(table) /\ m.size = Base /\ f = Walk(table, m.virt, l)
      BY <1>3, <1>4, <2>5
    <3>2. OnBaseWalk(table, Tables(H), lv, m, v, l, e)
      BY <1>1, <1>2, <2>1, <2>5, <3>1 DEF OnBaseWalk
    <3>3. PICK T, S : T = table /\ S = Tables(H)
      OBVIOUS
    <3>4. OnBaseWalk(T, S, lv, m, v, l, e)
      BY <3>2, <3>3
    <3>5. /\ \A t \in Found(v, l, e) : t = m
          /\ \A p \in Cached(v, l, e) : p.level = l - 1 /\ l \in 1..3 /\ p.at = Walk(T, m.virt, p.level)
      BY SMTT(60), <3>4, WalkerFindsBase
    <3> QED BY <3>3, <3>5
  <2>6. ASSUME NEW t \in Found(v, l, e), NEW m \in BasePages, First(m.virt, t.size) = t.virt
        PROVE  t = m
    <3>1. t.size = l /\ t.virt = First(v, l)
      BY FoundShape
    <3>2. First(m.virt, l) = First(v, l)
      BY <2>6, <3>1
    <3> QED BY <2>5, <3>2
  <2>7. ASSUME NEW p \in Cached(v, l, e) PROVE p.level \in 0..2 /\ p.level + 1 = l /\ p.virt = First(v, l)
    BY SMTT(60), <2>7, CachedShape
  <2>8. ASSUME NEW p \in Cached(v, l, e), NEW m \in BasePages, First(m.virt, p.level + 1) = p.virt
        PROVE  Walk(table, m.virt, p.level) = p.at
    BY <2>5, <2>7, <2>8
  <2>9. PageTrusted'
    BY <2>2, <2>4, <2>6 DEF Trusted, PageTrusted
  <2>10. PointerTrusted'
    BY <2>2, <2>4, <2>8 DEF Trusted, PointerTrusted
  <2> QED BY <2>2, <2>7, <2>9, <2>10 DEF Trusted
<1>5. CASE WalkFrom(v, TOP, Root)
  <2>1. TOP = 3 /\ 3 \in 0..3
    BY SMTT(60) DEF TOP
  <2>2. \A m \in BasePages : Walk(table, m.virt, 3) = Root
    BY WalkStep
  <2> QED BY <1>4, <1>5, <2>1, <2>2
<1>6. ASSUME NEW p \in psc, First(v, p.level + 1) = p.virt, WalkFrom(v, p.level, p.at)
      PROVE  Trusted'
  <2>1. PICK k : k = p.level
    OBVIOUS
  <2>2. k \in 0..2
    BY <2>1 DEF Trusted
  <2>3. k \in 0..3 /\ k + 1 \in 0..3
    BY SMTT(60), <2>2
  <2>4. First(v, k + 1) = p.virt /\ WalkFrom(v, k, p.at)
    BY <1>6, <2>1
  <2>5. ASSUME NEW m \in BasePages, First(m.virt, k) = First(v, k)
        PROVE  p.at = Walk(table, m.virt, k)
    <3>1. m.virt \in Nat
      BY <1>3
    <3>2. Block(m.virt, k) = Block(v, k)
      BY <1>2, <2>3, <2>5, <3>1, SameFirst
    <3>3. Block(m.virt, k + 1) = Block(v, k + 1)
      BY <1>2, <2>3, <3>1, <3>2, SameBlock
    <3>4. First(m.virt, k + 1) = First(v, k + 1)
      BY <1>2, <2>3, <3>1, <3>3, SameFirst
    <3> QED BY <2>1, <2>4, <3>4 DEF Trusted, PointerTrusted
  <2> QED BY <1>4, <2>3, <2>4, <2>5
<1> QED BY <1>5, <1>6 DEF HwWalk

\* The flush of a page that is written takes out what was cached for its addresses.
LEMMA LeafTrusted ==
  ASSUME NEW H, Struct(H), Struct(H)', Trusted, MapLeaf \/ UnmapLeaf, flush(virt)
  PROVE  Trusted'
<1>1. tlb' = {t \in tlb : First(virt, t.size) # t.virt} /\ psc' = {}
  BY DEF flush
<1>2. PICK w : w = virt
  OBVIOUS
<1>3. \A m \in MappedPages' : m \in MappedPages \/ m.virt = w
  <2>1. CASE MapLeaf
    <3> DEFINE m == PageRec(virt, phys, call.size)
    <3>1. MappedPages' = MappedPages \cup {m}
      BY <2>1, MapLeafAdds
    <3>2. PICK a, b, c : a = virt /\ b = phys /\ c = call.size
      OBVIOUS
    <3>3. m = PageRec(a, b, c)
      BY <3>2
    <3> HIDE DEF m
    <3>4. m.virt = a
      BY <3>3, PageFields
    <3> QED BY <1>2, <3>1, <3>2, <3>4
  <2>2. CASE UnmapLeaf
    <3> DEFINE m == PageRec(virt, LeafAt(table, virt, call.size), call.size)
    <3>1. MappedPages' = MappedPages \ {m}
      BY <2>2, UnmapLeafRemoves
    <3> HIDE DEF m
    <3> QED BY <3>1
  <2> QED BY <2>1, <2>2
<1>4. ASSUME NEW t \in tlb', NEW m \in BasePages', First(m.virt, t.size) = t.virt
      PROVE  t = m
  <2>1. t \in tlb /\ First(w, t.size) # t.virt
    BY <1>1, <1>2
  <2>2. m \in MappedPages' /\ m.size = Base
    BY <1>4 DEF BasePages
  <2>3. m \in BasePages
    BY <1>3, <1>4, <2>1, <2>2 DEF BasePages
  <2> QED BY <1>4, <2>1, <2>3 DEF Trusted, PageTrusted
<1>5. PageTrusted'
  BY <1>4 DEF PageTrusted
<1>6. PointerTrusted'
  BY <1>1 DEF PointerTrusted
<1> QED BY <1>1, <1>5, <1>6 DEF Trusted

\* Making and freeing tables leaves the walks to the base pages as they are.
LEMMA BaseWalksStay ==
  ASSUME NEW H, Struct(H), Struct(H)', NEW S, NEW D,
         \/ Pruned(table, table', S, D) /\ \E lv : Tree(table, S \cup D, lv)
         \/ Pruned(table', table, S, D) /\ \E lv : Tree(table', S \cup D, lv),
         Quiet, NEW m \in BasePages, NEW l \in 0..3
  PROVE  Walk(table', m.virt, l) = Walk(table, m.virt, l)
<1>1. m.virt \in Canonical /\ Leaf(table, m.virt, 0)
  BY BasePage DEF BasePages, MappedPages
<1>2. m.virt \in Nat
  BY <1>1, CanonicalNat
<1>3. 0 \in 0..2 /\ 0 \in 0..3 /\ (l = 0 \/ 0 < l)
  BY SMTT(60)
<1>4. Leaf(table', m.virt, 0)
  BY <1>1, <1>3 DEF Quiet, SameLeaves
<1>5. ASSUME NEW T, NEW R, NEW lv, Tree(T, R, lv), Leaf(T, m.virt, 0) PROVE Reached(T, m.virt, l)
  <2>1. Reached(T, m.virt, 0)
    BY <1>5 DEF Leaf, Reached
  <2> QED BY <1>2, <1>3, <1>5, <2>1, ReachedUp
<1>6. PICK lv : Tree(table, Tables(H), lv)
  BY DEF Struct, Shaped
<1>7. PICK lw : Tree(table', Tables(H)', lw)
  BY DEF Struct, Shaped
<1>8. Reached(table, m.virt, l)
  BY <1>1, <1>5, <1>6
<1>9. Reached(table', m.virt, l)
  BY <1>4, <1>5, <1>7
<1>10. CASE Pruned(table, table', S, D) /\ \E k : Tree(table, S \cup D, k)
  <2>1. PICK k : Tree(table, S \cup D, k)
    BY <1>10
  <2> QED BY <1>2, <1>9, <1>10, <2>1, PrunedReached
<1>11. CASE Pruned(table', table, S, D) /\ \E k : Tree(table', S \cup D, k)
  <2>1. PICK k : Tree(table', S \cup D, k)
    BY <1>11
  <2> QED BY <1>2, <1>8, <1>11, <2>1, PrunedReached
<1> QED BY <1>10, <1>11

\* So what is cached for the base pages stays right.
LEMMA StaysTrusted ==
  ASSUME NEW H, Struct(H), Struct(H)', Trusted, tlb' = tlb, psc' = psc,
         \/ table' = table
         \/ \E f : Makes(H, f)
         \/ \E D : Drops(H, D)
  PROVE  Trusted'
<1>1. Quiet
  BY Untouched, MakesQuiet, DropsQuiet
<1>2. MappedPages' = MappedPages
  BY <1>1, QuietPages
<1>3. BasePages' = BasePages
  BY <1>2 DEF BasePages
<1>4. \A m \in BasePages, l \in 0..3 : Walk(table', m.virt, l) = Walk(table, m.virt, l)
  <2>1. CASE table' = table
    BY <2>1
  <2>2. ASSUME NEW f, Makes(H, f)
        PROVE  \A m \in BasePages, l \in 0..3 : Walk(table', m.virt, l) = Walk(table, m.virt, l)
    <3>1. Pruned(table', table, Tables(H), {f}) /\ \E lv : Tree(table', Tables(H) \cup {f}, lv)
      BY <2>2 DEF Makes
    <3> QED BY <1>1, <3>1, BaseWalksStay
  <2>3. ASSUME NEW D, Drops(H, D)
        PROVE  \A m \in BasePages, l \in 0..3 : Walk(table', m.virt, l) = Walk(table, m.virt, l)
    <3> DEFINE S == Tables(H) \ D
    <3>1. D \subseteq Tables(H) /\ Pruned(table, table', S, D)
      BY <2>3 DEF Drops
    <3>2. S \cup D = Tables(H)
      BY <3>1
    <3> HIDE DEF S
    <3>3. \E lv : Tree(table, S \cup D, lv)
      BY <3>2 DEF Struct, Shaped
    <3> QED BY <1>1, <3>1, <3>3, BaseWalksStay
  <2> QED BY <2>1, <2>2, <2>3
<1>5. \A p \in psc : p.level \in 0..3
  BY SMTT(60) DEF Trusted
<1>6. PageTrusted'
  BY <1>3 DEF Trusted, PageTrusted
<1>7. PointerTrusted'
  BY <1>3, <1>4, <1>5 DEF Trusted, PointerTrusted
<1> QED BY <1>6, <1>7 DEF Trusted

\* Every step keeps Trusted.
LEMMA TrustedStep ==
  ASSUME Inv(held), Inv(held)', Trusted, [TlbNext]_tlb_vars
  PROVE  Trusted'
<1>1. PICK H : H = held
  OBVIOUS
<1>2. Struct(H)
  BY <1>1 DEF Inv
<1>3. ASSUME NEW v \in Probes, HwWalk(v) PROVE Trusted'
  BY <1>2, <1>3, WalkTrusted
<1>4. CASE OthersAlloc \/ OthersFree \/ UNCHANGED tlb_vars
  <2>1. table' = table /\ tlb' = tlb /\ psc' = psc
    BY <1>4 DEF OthersAlloc, OthersFree, tlb_vars, vars
  <2>2. MappedPages' = MappedPages
    BY <2>1, Untouched, QuietPages
  <2>3. BasePages' = BasePages
    BY <2>2 DEF BasePages
  <2> QED BY <2>1, <2>3 DEF Trusted, PageTrusted, PointerTrusted
<1>5. CASE CpuStep /\ UNCHANGED held
  <2>1. Struct(H)'
    <3>1. Struct(held)' /\ H = held'
      BY <1>1, <1>5 DEF Inv
    <3> QED BY <3>1
  <2>2. CASE (MapLeaf \/ UnmapLeaf) /\ flush(virt)
    BY <1>2, <2>1, <2>2, LeafTrusted
  <2>3. CASE FlushAll /\ flush_all
    <3>1. tlb' = {} /\ psc' = {}
      BY <2>3 DEF flush_all
    <3> QED BY <3>1 DEF Trusted, PageTrusted, PointerTrusted
  <2>4. CASE MapOutOfMemory /\ rolled' = (rolled \/ new # {}) /\ UNCHANGED <<tlb, psc>>
    <3>1. tlb' = tlb /\ psc' = psc /\ Drops(H, new)
      BY <1>2, <2>4, MapOutOfMemoryDoes
    <3> QED BY <1>2, <2>1, <3>1, StaysTrusted
  <2>5. CASE Uncached /\ UNCHANGED <<tlb, psc, rolled>>
    <3>1. tlb' = tlb /\ psc' = psc
      BY <2>5
    <3>2. table' = table \/ MapNewTable \/ (Reclaim /\ is_empty(Lowest))
      BY <1>2, <2>5, UncachedStep
    <3>3. table' = table \/ (\E f : Makes(H, f)) \/ (\E D : Drops(H, D))
      BY <1>2, <3>2, MapNewTableDoes, ReclaimDoes
    <3> QED BY <1>2, <2>1, <3>1, <3>3, StaysTrusted
  <2> QED BY <1>5, <2>2, <2>3, <2>4, <2>5, CpuCases
<1> QED BY <1>3, <1>4, <1>5 DEF TlbNext

\* The invariants hold at first, with empty caches.
LEMMA TlbInitInv ==
  ASSUME TlbInit
  PROVE  Inv(held) /\ Coherent /\ Trusted
<1>1. Init /\ held = {} /\ tlb = {} /\ psc = {}
  BY DEF TlbInit
<1>2. Inv({})
  BY <1>1, InitInv
<1>3. Inv(held)
  BY <1>1, <1>2
<1> QED BY <1>1, <1>3 DEF Coherent, Cohere, Trusted, PageTrusted, PointerTrusted

(***************************************************************************)
(* What the CPU has cached is in the tables (CachesCoherent), for any      *)
(* tables, calls and walks: flush and flush_all take out all that map and  *)
(* unmap made wrong.                                                       *)
(***************************************************************************)
THEOREM CachesStayCoherent == TlbSpec => []CachesCoherent
<1>1. ASSUME Coherent PROVE CachesCoherent
  BY <1>1 DEF Coherent, Cohere, Pointer, CachesCoherent
<1> QED BY <1>1, TlbInitInv, TlbInv, CoherentStep, PTL DEF TlbSpec

(***************************************************************************)
(* What the CPU has cached for a mapped base page is that page             *)
(* (MappedPagesTrusted), whatever it found in tables that a failed map     *)
(* gave back: such a table is never on the walk to a mapped page.          *)
(***************************************************************************)
THEOREM MappedPagesStayTrusted == TlbSpec => []MappedPagesTrusted
<1>1. ASSUME Trusted PROVE MappedPagesTrusted
  BY <1>1 DEF Trusted, PageTrusted, BasePages, MappedPagesTrusted
<1> QED BY <1>1, TlbInitInv, TlbInv, TrustedStep, PTL DEF TlbSpec

=============================================================================
