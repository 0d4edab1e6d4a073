----------------------------- MODULE UacpiProofs -----------------------------
(***************************************************************************)
(* Proofs about UacpiMap, for any page sizes, ranges and boot pages: no    *)
(* page is left behind, no large page is lost, and the ranges uACPI has    *)
(* mapped stay mapped as long as they share no pages.                      *)
(*                                                                         *)
(* And about UacpiIo, for every width of the bus, every size of the        *)
(* configuration space and any functions and ports: each access reaches    *)
(* the registers it names.                                                 *)
(***************************************************************************)
EXTENDS UacpiMap, UacpiIo, TLAPS

\* Zenon proves the leaves that name no prover.
USE ZenonT(60)

(* Rounding to pages. *)

\* A number is its quotient and its remainder.
LEMMA DivMod ==
  ASSUME NEW a \in Nat, NEW n \in Nat \ {0}
  PROVE  a \div n \in Nat /\ a % n \in 0..(n - 1) /\ a = n * (a \div n) + (a % n)
  BY SMTT(60)

\* The quotients of ordered numbers are ordered.
LEMMA QuotientOrder ==
  ASSUME NEW n \in Nat \ {0}, NEW q \in Int, NEW p \in Int, NEW r \in 0..(n - 1), NEW s \in 0..(n - 1),
         n * q + r <= n * p + s
  PROVE  q <= p
<1> SUFFICES ASSUME q >= p + 1 PROVE FALSE
  BY SMTT(60)
<1>1. q - p - 1 \in Nat
  BY SMTT(60)
<1>2. n * (q - p - 1) >= 0
  BY SMTT(60), <1>1
<1>3. n * q - n * p - n >= 0
  BY SMTT(60), <1>2
<1> QED BY SMTT(60), <1>3

\* A quotient is determined by its remainder.
LEMMA Quotient ==
  ASSUME NEW n \in Nat \ {0}, NEW a \in Nat, NEW q \in Int, NEW r \in 0..(n - 1), a = n * q + r
  PROVE  a \div n = q
<1>1. a \div n \in Int /\ a % n \in 0..(n - 1) /\ a = n * (a \div n) + (a % n)
  <2>1. a \div n \in Nat /\ a % n \in 0..(n - 1) /\ a = n * (a \div n) + (a % n)
    BY DivMod
  <2>2. \A m \in Nat : m \in Int
    BY SMTT(60)
  <2> QED BY <2>1, <2>2
<1>2. n * (a \div n) + (a % n) <= n * q + r /\ n * q + r <= n * (a \div n) + (a % n)
  BY SMTT(60), <1>1
<1>3. a \div n <= q
  BY <1>1, <1>2, QuotientOrder
<1>4. q <= a \div n
  BY <1>1, <1>2, QuotientOrder
<1> QED BY SMTT(60), <1>1, <1>3, <1>4

\* Dividing by the page size keeps the order.
LEMMA Monotone ==
  ASSUME NEW n \in Nat \ {0}, NEW a \in Nat, NEW b \in Nat, a <= b
  PROVE  a \div n <= b \div n
  BY SMTT(60), DivMod, QuotientOrder

\* align_down stays in the page of the address.
LEMMA RoundDown ==
  ASSUME NEW n \in Nat \ {0}, NEW a \in Nat
  PROVE  align_down(a, n) \in Nat /\ align_down(a, n) \div n = a \div n
<1>1. a - (a % n) \in Nat /\ a \div n \in Int
  BY SMTT(60), DivMod
<1>2. a - (a % n) = n * (a \div n) + 0
  BY SMTT(60), DivMod
<1>3. 0 \in 0..(n - 1)
  BY SMTT(60)
<1> QED BY <1>1, <1>2, <1>3, Quotient DEF align_down

\* One page further on is the next page.
LEMMA NextQuotient ==
  ASSUME NEW n \in Nat \ {0}, NEW a \in Nat
  PROVE  (a + n) \div n = (a \div n) + 1
<1>1. a + n = n * ((a \div n) + 1) + (a % n)
  BY SMTT(60), DivMod
<1>2. (a \div n) + 1 \in Int /\ a % n \in 0..(n - 1) /\ a + n \in Nat
  BY SMTT(60), DivMod
<1> QED BY <1>1, <1>2, Quotient

\* The pages of a range are numbers, and hold all its bytes.
LEMMA RangePages ==
  ASSUME NEW r \in Ranges
  PROVE  /\ First(r) \in Nat /\ End(r) \in Nat
         /\ \A b \in r.addr..(r.addr + r.len - 1) : b \div PAGE \in PagesOf(r)
<1>1. PAGE \in Nat \ {0} /\ r.addr \in Nat /\ r.len \in Nat
  BY MapAssumption
<1>2. First(r) = r.addr \div PAGE /\ First(r) \in Nat
  BY <1>1, RoundDown, DivMod DEF First
<1>3. r.addr + r.len + PAGE - 1 \in Nat
  BY SMTT(60), <1>1
<1>4. End(r) = (r.addr + r.len + PAGE - 1) \div PAGE /\ End(r) \in Nat
  BY <1>1, <1>3, RoundDown, DivMod DEF End, align_up
<1>5. ASSUME NEW b \in r.addr..(r.addr + r.len - 1) PROVE b \div PAGE \in PagesOf(r)
  <2>1. b \in Nat /\ b + PAGE \in Nat /\ r.addr <= b /\ b + PAGE <= r.addr + r.len + PAGE - 1
    BY SMTT(60), <1>1
  <2>2. r.addr \div PAGE <= b \div PAGE /\ b \div PAGE \in Nat
    BY <1>1, <2>1, Monotone, DivMod
  <2>3. (b + PAGE) \div PAGE <= (r.addr + r.len + PAGE - 1) \div PAGE
    BY <1>1, <1>3, <2>1, Monotone
  <2>4. (b \div PAGE) + 1 <= End(r)
    BY <1>1, <1>4, <2>1, <2>3, NextQuotient
  <2> QED BY SMTT(60), <1>2, <1>4, <2>2, <2>4 DEF PagesOf
<1> QED BY <1>2, <1>4, <1>5

\* A base page is where it says, and nowhere else.
LEMMA BasePage ==
  ASSUME NEW p \in Nat
  PROVE  Page(p) \in DirectPages /\ Page(p).virt = p /\ Page(p).size = 0 /\ Space!Span(Page(p)) = {p}
<1>1. ENTRIES^Page(p).size = 1
  BY MapAssumption DEF Page
<1> QED BY SMTT(60), <1>1 DEF Page, DirectPages, Space!Span
-----------------------------------------------------------------------------
(* Types. *)

\* The call that runs.
LEMMA CallFacts ==
  ASSUME TypeOK, call.op # "none"
  PROVE  /\ call.op \in {"map", "unmap"} /\ call.range \in Ranges /\ call.at \in Nat
         /\ First(call.range) \in Nat /\ End(call.range) \in Nat /\ First(call.range) <= call.at
         /\ call = [op |-> call.op, range |-> call.range, at |-> call.at]
<1>1. call \in [op : {"map", "unmap"}, range : Ranges, at : Nat]
  BY SMTT(60) DEF TypeOK, NoCall
<1>2. call.op \in {"map", "unmap"} /\ call.range \in Ranges /\ call.at \in Nat
  BY <1>1
<1>3. First(call.range) \in Nat /\ End(call.range) \in Nat
  BY <1>2, RangePages
<1> QED BY SMTT(60), <1>1, <1>2, <1>3 DEF TypeOK

\* The next page of it.
LEMMA Advance ==
  ASSUME TypeOK, call.op # "none", More, NextPage
  PROVE  /\ call'.op = call.op /\ call'.range = call.range /\ call'.at = call.at + 1
         /\ call' \in [op : {"map", "unmap"}, range : Ranges, at : Nat]
         /\ call'.at \in First(call.range)..End(call.range)
<1>1. /\ call.op \in {"map", "unmap"} /\ call.range \in Ranges /\ call.at \in Nat
      /\ First(call.range) \in Nat /\ End(call.range) \in Nat /\ First(call.range) <= call.at
      /\ call = [op |-> call.op, range |-> call.range, at |-> call.at]
  BY CallFacts
<1>2. call' = [op |-> call.op, range |-> call.range, at |-> call.at + 1]
  BY <1>1 DEF NextPage
<1> QED BY SMTT(60), <1>1, <1>2 DEF More

\* A call starts at the first page of its range.
LEMMA Starts ==
  ASSUME NEW r \in Ranges, NEW op \in {"map", "unmap"}, Begin(op, r)
  PROVE  /\ call' \in [op : {"map", "unmap"}, range : Ranges, at : Nat]
         /\ call'.op = op /\ call'.range = r /\ call'.at = First(r)
  BY RangePages DEF Begin

\* Every step keeps the types.
LEMMA Types == ASSUME TypeOK, [Next]_vars PROVE TypeOK'
<1> USE DEF Running
<1>1. /\ pages \subseteq DirectPages /\ live \in [Ranges -> 0..MaxLive]
      /\ boot \in 1..(Len(Kernel) + 1) /\ halted \in BOOLEAN /\ leftover \subseteq Nat
  BY DEF TypeOK
<1>2. ASSUME NEW r \in Ranges, MapStart(r) PROVE TypeOK'
  BY <1>1, <1>2, Starts DEF MapStart, TypeOK
<1>3. ASSUME NEW r \in Ranges, UnmapStart(r) PROVE TypeOK'
  <2>1. live' \in [Ranges -> 0..MaxLive]
    BY SMTT(60), <1>1, <1>3, MapAssumption DEF UnmapStart
  <2> QED BY <1>1, <1>3, <2>1, Starts DEF UnmapStart, TypeOK
<1>4. CASE MapPage
  <2>1. call.op # "none" /\ More /\ NextPage
    BY <1>4 DEF MapPage
  <2>2. Page(call.at) \in DirectPages
    BY <2>1, CallFacts, BasePage
  <2>3. pages' \subseteq DirectPages
    BY <1>1, <1>4, <2>2 DEF MapPage, Space!Map
  <2> QED BY <1>1, <1>4, <2>1, <2>3, Advance DEF MapPage, TypeOK
<1>5. CASE UnmapPage
  <2>1. call.op # "none" /\ More /\ NextPage
    BY <1>5 DEF UnmapPage
  <2>2. pages' \subseteq DirectPages
    BY <1>1, <1>5 DEF UnmapPage, Space!Unmap
  <2> QED BY <1>1, <1>5, <2>1, <2>2, Advance DEF UnmapPage, TypeOK
<1>6. CASE MapPageFails
  <2>1. First(call.range)..(call.at - 1) \subseteq Nat
    BY SMTT(60), <1>6, CallFacts DEF MapPageFails
  <2> QED BY <1>1, <1>6, <2>1 DEF MapPageFails, TypeOK, NoCall
<1>7. CASE MapDone
  <2>1. call.op = "map" /\ call.range \in Ranges
    BY <1>7, CallFacts DEF MapDone
  <2>2. live[call.range] < MaxLive
    BY <2>1 DEF TypeOK
  <2>3. live' \in [Ranges -> 0..MaxLive]
    BY SMTT(60), <1>1, <1>7, <2>1, <2>2, MapAssumption DEF MapDone
  <2> QED BY <1>1, <1>7, <2>3 DEF MapDone, TypeOK, NoCall
<1>8. CASE UnmapDone
  BY <1>1, <1>8 DEF UnmapDone, TypeOK, NoCall
<1>9. CASE ApicMaps \/ PciMaps
  <2>1. boot \in 1..(Len(Kernel) + 1) /\ boot <= Len(Kernel) /\ Kernel \in Seq(SUBSET DirectPages)
    BY <1>1, <1>9, MapAssumption DEF ApicMaps, PciMaps, map_range
  <2>2. Kernel[boot] \in SUBSET DirectPages /\ boot + 1 \in 1..(Len(Kernel) + 1)
    <3> HIDE DEF DirectPages
    <3> QED BY SMTT(60), <2>1
  <2> QED BY <1>1, <1>9, <2>2 DEF ApicMaps, PciMaps, map_range, TypeOK
<1>10. CASE KernelMapFails
  BY <1>1, <1>10 DEF KernelMapFails, TypeOK
<1>11. CASE UNCHANGED vars
  BY <1>11 DEF vars, TypeOK
<1> QED BY <1>2, <1>3, <1>4, <1>5, <1>6, <1>7, <1>8, <1>9, <1>10, <1>11 DEF Next, Halted

\* The types hold when the boot mappings are still to be made.
LEMMA InitTypes == Init => TypeOK
<1> SUFFICES ASSUME Init PROVE TypeOK
  OBVIOUS
<1>1. live \in [Ranges -> 0..MaxLive] /\ Boot \subseteq DirectPages /\ Len(Kernel) \in Nat
  BY SMTT(60), MapAssumption DEF Init
<1>2. pages \subseteq DirectPages /\ call = NoCall /\ call.op = "none" /\ boot \in 1..(Len(Kernel) + 1)
  BY SMTT(60), <1>1 DEF Init, NoCall
<1>3. halted \in BOOLEAN /\ leftover \subseteq Nat /\ shared \in BOOLEAN
  BY DEF Init
<1> QED BY <1>1, <1>2, <1>3 DEF TypeOK

-----------------------------------------------------------------------------
(* No page is left behind. *)

\* Every step keeps every page owed to a range, to the kernel or to the call at work.
LEMMA StrayStep == ASSUME TypeOK, NoStrayPages, [Next]_vars PROVE NoStrayPages'
<1> USE DEF Running
<1> DEFINE Kept(m) ==
      /\ m = Page(m.virt)
      /\ \/ \E r \in Ranges : live[r] > 0 /\ m.virt \in PagesOf(r)
         \/ m.virt \in leftover
         \/ call.op = "map" /\ m.virt \in First(call.range)..(call.at - 1)
         \/ call.op = "unmap" /\ m.virt \in call.at..(End(call.range) - 1)
<1>1. \A m \in pages \ (Boot \cup KernelPages) : Kept(m) /\ m.virt \in Nat
  BY DEF NoStrayPages, TypeOK, DirectPages
<1>2. SUFFICES ASSUME NEW m \in pages' \ (Boot \cup KernelPages') PROVE Kept(m)'
  BY DEF NoStrayPages
<1>3. live \in [Ranges -> 0..MaxLive]
  BY DEF TypeOK
<1>4. ASSUME NEW r \in Ranges, MapStart(r) PROVE Kept(m)'
  <2>1. m \in pages \ (Boot \cup KernelPages) /\ UNCHANGED <<live, leftover>> /\ call.op = "none"
    BY <1>2, <1>4 DEF MapStart, KernelPages
  <2> QED BY <1>1, <2>1 DEF Page
<1>5. ASSUME NEW r \in Ranges, UnmapStart(r) PROVE Kept(m)'
  <2>1. m \in pages \ (Boot \cup KernelPages) /\ UNCHANGED leftover /\ call.op = "none"
    BY <1>2, <1>5 DEF UnmapStart, KernelPages
  <2>2. call'.op = "unmap" /\ call'.range = r /\ call'.at = First(r)
    BY <1>5, Starts DEF UnmapStart
  <2>3. \A q \in Ranges \ {r} : live'[q] = live[q]
    BY <1>3, <1>5 DEF UnmapStart
  <2> QED BY <1>1, <2>1, <2>2, <2>3 DEF Page, PagesOf
<1>6. CASE MapPage
  <2>1. /\ call.op = "map" /\ More /\ NextPage /\ UNCHANGED <<live, leftover, boot>>
    BY <1>6 DEF MapPage
  <2>2. /\ call.at \in Nat /\ First(call.range) \in Nat /\ First(call.range) <= call.at
        /\ call'.op = "map" /\ call'.range = call.range /\ call'.at = call.at + 1
    BY <2>1, CallFacts, Advance
  <2>3. m \in pages \ (Boot \cup KernelPages) \/ m = Page(call.at)
    BY <1>2, <1>6, <2>1 DEF MapPage, Space!Map, KernelPages
  <2>4. CASE m = Page(call.at)
    BY SMTT(60), <2>2, <2>4 DEF Page
  <2>5. CASE m \in pages \ (Boot \cup KernelPages)
    BY SMTT(60), <1>1, <2>1, <2>2, <2>5 DEF Page
  <2> QED BY <2>3, <2>4, <2>5
<1>7. CASE MapPageFails
  <2>1. call.op = "map" /\ UNCHANGED <<live, boot, pages>>
        /\ leftover' = leftover \cup First(call.range)..(call.at - 1)
    BY <1>7 DEF MapPageFails
  <2>2. m \in pages \ (Boot \cup KernelPages)
    BY <1>2, <2>1 DEF KernelPages
  <2> QED BY <1>1, <2>1, <2>2 DEF Page
<1>8. CASE MapDone
  <2>1. call.op = "map" /\ ~More /\ UNCHANGED <<boot, pages, leftover>>
        /\ live' = [live EXCEPT ![call.range] = @ + 1]
    BY <1>8 DEF MapDone
  <2>2. m \in pages \ (Boot \cup KernelPages)
    BY <1>2, <2>1 DEF KernelPages
  <2>3. call.range \in Ranges /\ call.at \in Nat /\ First(call.range) \in Nat /\ End(call.range) \in Nat
    BY <2>1, CallFacts
  <2>4. call.at = First(call.range) \/ call.at \in First(call.range)..End(call.range)
    BY <2>1 DEF TypeOK
  <2>5. /\ live'[call.range] > 0
        /\ \A q \in Ranges : live[q] > 0 => live'[q] > 0
    BY SMTT(60), <1>3, <2>1, <2>3, MapAssumption
  <2>6. m.virt \in First(call.range)..(call.at - 1) => m.virt \in PagesOf(call.range)
    BY SMTT(60), <2>3, <2>4 DEF PagesOf
  <2> QED BY <1>1, <2>1, <2>2, <2>3, <2>5, <2>6 DEF Page
<1>9. CASE UnmapPage
  <2>1. /\ call.op = "unmap" /\ More /\ NextPage /\ UNCHANGED <<live, leftover, boot>>
    BY <1>9 DEF UnmapPage
  <2>2. /\ call.at \in Nat /\ End(call.range) \in Nat
        /\ call'.op = "unmap" /\ call'.range = call.range /\ call'.at = call.at + 1
    BY <2>1, CallFacts, Advance
  <2>3. m \in pages \ (Boot \cup KernelPages) /\ m # Page(call.at)
    BY <1>2, <1>9, <2>1 DEF UnmapPage, Space!Unmap, KernelPages
  <2>4. m.virt # call.at
    BY <1>1, <2>3
  <2> QED BY SMTT(60), <1>1, <2>1, <2>2, <2>3, <2>4 DEF Page
<1>10. CASE UnmapDone
  <2>1. call.op = "unmap" /\ ~More /\ UNCHANGED <<live, leftover, boot, pages>>
    BY <1>10 DEF UnmapDone
  <2>2. m \in pages \ (Boot \cup KernelPages) /\ call.at \in Nat /\ End(call.range) \in Nat
    BY <1>2, <2>1, CallFacts DEF KernelPages
  <2>3. m.virt \notin call.at..(End(call.range) - 1)
    BY SMTT(60), <1>1, <2>1, <2>2 DEF More
  <2> QED BY <1>1, <2>1, <2>2, <2>3 DEF Page
<1>11. CASE ApicMaps \/ PciMaps
  <2>1. /\ boot \in Nat /\ boot > 0 /\ boot' = boot + 1 /\ pages' = pages \cup Kernel[boot]
        /\ UNCHANGED <<live, call, leftover>>
    BY SMTT(60), <1>11 DEF ApicMaps, PciMaps, map_range, TypeOK
  <2>2. KernelPages \cup Kernel[boot] \subseteq KernelPages'
    BY SMTT(60), <2>1 DEF KernelPages
  <2>3. m \in pages \ (Boot \cup KernelPages)
    BY <1>2, <2>1, <2>2
  <2> QED BY <1>1, <2>1, <2>3 DEF Page
<1>12. CASE KernelMapFails \/ UNCHANGED vars
  <2>1. UNCHANGED <<pages, live, call, boot, leftover>>
    BY <1>12 DEF KernelMapFails, vars
  <2>2. m \in pages \ (Boot \cup KernelPages)
    BY <1>2, <2>1 DEF KernelPages
  <2> QED BY <1>1, <2>1, <2>2 DEF Page
<1> QED BY <1>4, <1>5, <1>6, <1>7, <1>8, <1>9, <1>10, <1>11, <1>12 DEF Next, Halted

(***************************************************************************)
(* uacpi_kernel_unmap leaves nothing of what uacpi_kernel_map mapped,      *)
(* whatever ranges overlap and however calls nest, except where a map ran  *)
(* out of memory half way.                                                 *)
(***************************************************************************)
THEOREM NothingLeftMapped == Spec => []NoStrayPages
<1>1. Init => NoStrayPages
  BY DEF Init, NoStrayPages
<1>2. TypeOK /\ NoStrayPages /\ [Next]_vars => TypeOK' /\ NoStrayPages'
  BY Types, StrayStep
<1> QED BY <1>1, <1>2, InitTypes, PTL DEF Spec

\* uacpi_kernel_unmap takes no large page of the direct map or of PCI away.
THEOREM LargePagesAlwaysStay == Spec => LargePagesStay
<1>1. ASSUME TypeOK, [Next]_vars PROVE \A m \in pages : m.size > 0 => m \in pages'
  <2> SUFFICES ASSUME NEW m \in pages, m.size > 0 PROVE m \in pages'
    OBVIOUS
  <2>1. CASE UnmapPage
    <3>1. call.at \in Nat
      BY <1>1, <2>1, CallFacts DEF UnmapPage, Running
    <3>2. m # Page(call.at)
      BY SMTT(60), <3>1, BasePage
    <3> QED BY <2>1, <3>2 DEF UnmapPage, Space!Unmap
  <2>2. CASE ~UnmapPage
    BY <1>1, <2>2 DEF Next, MapStart, MapPage, Space!Map, MapPageFails, MapDone, UnmapStart,
                      UnmapDone, ApicMaps, PciMaps, map_range, KernelMapFails, Halted, vars
  <2> QED BY <2>1, <2>2
<1>2. Spec => []TypeOK
  BY InitTypes, Types, PTL DEF Spec
<1> DEFINE Stay == \A m \in pages : m.size > 0 => m \in pages'
<1>3. TypeOK /\ [Next]_vars => [Stay]_vars
  BY <1>1
<1>4. Spec => [][Stay]_vars
  BY <1>2, <1>3, PTL DEF Spec
<1> QED BY <1>4 DEF LargePagesStay
-----------------------------------------------------------------------------
(* Ranges that share no pages. *)

\* Mapping covers no less, ...
LEMMA StaysCovered ==
  ASSUME NEW p, Covered(p), pages \subseteq pages'
  PROVE  Covered(p)'
  BY DEF Covered

\* ... and unmapping a base page uncovers just that page.
LEMMA UncoversOne ==
  ASSUME NEW p, NEW a \in Nat, Covered(p), p # a, pages \ {Page(a)} \subseteq pages'
  PROVE  Covered(p)'
<1>1. PICK n \in pages : p \in Space!Span(n)
  BY DEF Covered
<1>2. n # Page(a)
  BY <1>1, BasePage
<1> QED BY <1>1, <1>2 DEF Covered

\* As long as the ranges share no pages, every step keeps the pages of the live ones mapped.
LEMMA ApartStep == ASSUME ApartInv, [Next]_vars, ~shared' PROVE ApartInv'
<1> USE DEF Running
<1>1. /\ TypeOK /\ live \in [Ranges -> 0..MaxLive]
      /\ \A q, r \in Ranges :
           live[q] > 0 /\ live[r] > 0 /\ PagesOf(q) \cap PagesOf(r) # {} => q = r /\ live[q] = 1
      /\ \A r \in Ranges : live[r] > 0 => \A p \in PagesOf(r) : Covered(p)
      /\ call.op # "none" => Apart(call.range)
      /\ call.op = "map" => \A p \in First(call.range)..(call.at - 1) : Covered(p)
  BY DEF ApartInv, TypeOK
<1>2. TypeOK'
  BY <1>1, Types
<1>3. ASSUME NEW r \in Ranges, MapStart(r) PROVE ApartInv'
  <2>1. UNCHANGED <<live, pages>> /\ call'.op = "map" /\ call'.range = r /\ call'.at = First(r)
    BY <1>3, Starts DEF MapStart
  <2>2. Apart(r)' /\ First(r) \in Nat
    BY <1>3, <2>1, RangePages DEF Apart, MapStart
  <2>3. First(r)..(call'.at - 1) = {}
    BY SMTT(60), <2>1, <2>2
  <2> QED BY <1>1, <1>2, <2>1, <2>2, <2>3 DEF ApartInv, Covered
<1>4. ASSUME NEW r \in Ranges, UnmapStart(r) PROVE ApartInv'
  <2>1. /\ UNCHANGED pages /\ call'.op = "unmap" /\ call'.range = r /\ live[r] > 0
        /\ live' = [live EXCEPT ![r] = @ - 1]
    BY <1>4, Starts DEF UnmapStart
  <2>2. /\ live'[r] = live[r] - 1 /\ live[r] \in Nat
        /\ \A q \in Ranges \ {r} : live'[q] = live[q]
    BY SMTT(60), <1>1, <2>1, MapAssumption
  <2>3. \A q \in Ranges : live'[q] > 0 => live[q] > 0
    BY <2>1, <2>2
  <2>4. ASSUME NEW q \in Ranges, live'[q] > 0, PagesOf(q) \cap PagesOf(r) # {} PROVE FALSE
    <3>1. q = r /\ live[q] = 1
      BY <1>1, <2>1, <2>3, <2>4
    <3> QED BY SMTT(60), <2>2, <2>4, <3>1
  <2>5. Apart(r)'
    BY <2>4 DEF Apart
  <2>6. ASSUME NEW p \in Ranges, NEW q \in Ranges, live'[p] > 0, live'[q] > 0,
               PagesOf(p) \cap PagesOf(q) # {}
        PROVE  p = q /\ live'[p] = 1
    <3>1. p = q /\ live[p] = 1
      BY <1>1, <2>3, <2>6
    <3>2. p # r
      BY <2>4, <2>6, <3>1
    <3> QED BY <2>2, <3>1, <3>2
  <2> QED BY <1>1, <1>2, <2>1, <2>3, <2>5, <2>6 DEF ApartInv, Covered
<1>5. CASE MapPage
  <2>1. call.op = "map" /\ More /\ NextPage /\ UNCHANGED live
    BY <1>5 DEF MapPage
  <2>2. call'.op = "map" /\ call'.range = call.range /\ call'.at = call.at + 1 /\ call.at \in Nat
        /\ First(call.range) \in Nat
    BY <1>1, <2>1, Advance, CallFacts
  <2>3. pages \subseteq pages'
    BY <1>5 DEF MapPage, Space!Map
  <2>5. \E n \in pages' : call.at \in Space!Span(n)
    <3>1. PICK a : a = call.at /\ a \in Nat
      BY <2>2
    <3>2. CASE Covered(a)
      BY <2>3, <3>1, <3>2 DEF Covered
    <3>3. CASE ~Covered(a)
      <4>1. Page(a) \in pages'
        BY <1>5, <3>1, <3>3 DEF MapPage, Space!Map
      <4>2. a \in Space!Span(Page(a))
        BY <3>1, BasePage
      <4> QED BY <3>1, <4>1, <4>2
    <3> QED BY <3>2, <3>3
  <2>6. \A p \in First(call.range)..(call'.at - 1) : Covered(p)'
    <3> SUFFICES ASSUME NEW p \in First(call.range)..(call'.at - 1) PROVE Covered(p)'
      OBVIOUS
    <3>1. p \in First(call.range)..(call.at - 1) \/ p = call.at
      BY SMTT(60), <2>2
    <3> QED BY <1>1, <2>1, <2>3, <2>5, <3>1 DEF Covered
  <2>7. \A r \in Ranges : live'[r] > 0 => \A p \in PagesOf(r) : Covered(p)'
    BY <1>1, <2>1, <2>3 DEF Covered
  <2>8. Apart(call.range)'
    BY <1>1, <2>1, <2>2 DEF Apart
  <2> QED BY <1>1, <1>2, <2>1, <2>2, <2>6, <2>7, <2>8 DEF ApartInv
<1>6. CASE MapPageFails
  <2>1. UNCHANGED <<pages, live>> /\ call'.op = "none"
    BY <1>6 DEF MapPageFails, NoCall
  <2> QED BY <1>1, <1>2, <2>1 DEF ApartInv, Covered
<1>7. CASE MapDone
  <2>1. /\ call.op = "map" /\ ~More /\ UNCHANGED pages /\ call'.op = "none"
        /\ live' = [live EXCEPT ![call.range] = @ + 1]
    BY <1>7 DEF MapDone, NoCall
  <2>2. PICK r \in Ranges : r = call.range
    BY <1>1, <2>1, CallFacts
  <2>3. /\ live[r] \in Nat /\ live'[r] = live[r] + 1 /\ \A q \in Ranges \ {r} : live'[q] = live[q]
    BY SMTT(60), <1>1, <2>1, <2>2, MapAssumption
  <2>4. \A q \in Ranges : live[q] > 0 => PagesOf(q) \cap PagesOf(r) = {}
    BY <1>1, <2>1, <2>2 DEF Apart
  <2>5. \A p \in PagesOf(r) : Covered(p)
    <3>1. /\ First(r) \in Nat /\ End(r) \in Nat /\ call.at \in Nat /\ ~(call.at < End(r))
          /\ \A p \in First(r)..(call.at - 1) : Covered(p)
      BY <1>1, <2>1, <2>2, CallFacts DEF More
    <3> QED BY SMTT(60), <3>1 DEF PagesOf
  <2>6. ASSUME NEW p \in Ranges, NEW q \in Ranges, live'[p] > 0, live'[q] > 0,
               PagesOf(p) \cap PagesOf(q) # {}
        PROVE  p = q /\ live'[p] = 1
    <3>1. CASE p = r /\ q = r
      <4>1. ~(live[r] > 0)
        BY <2>4, <2>6, <3>1
      <4> QED BY SMTT(60), <2>3, <3>1, <4>1
    <3>2. CASE p = r /\ q # r
      BY <2>3, <2>4, <2>6, <3>2
    <3>3. CASE p # r /\ q = r
      BY <2>3, <2>4, <2>6, <3>3
    <3>4. CASE p # r /\ q # r
      BY <1>1, <2>3, <2>6, <3>4
    <3> QED BY <3>1, <3>2, <3>3, <3>4
  <2>7. \A q \in Ranges : live'[q] > 0 => \A p \in PagesOf(q) : Covered(p)
    BY <1>1, <2>3, <2>5
  <2> QED BY <1>2, <2>1, <2>6, <2>7 DEF ApartInv, Covered
<1>8. CASE UnmapPage
  <2>1. /\ call.op = "unmap" /\ More /\ NextPage /\ UNCHANGED live
        /\ pages \ {Page(call.at)} \subseteq pages'
    BY <1>8 DEF UnmapPage, Space!Unmap
  <2>2. /\ call'.op = "unmap" /\ call'.range = call.range /\ call.at \in Nat
        /\ call.at \in PagesOf(call.range)
    BY SMTT(60), <1>1, <2>1, Advance, CallFacts DEF More, PagesOf
  <2>3. PICK a \in Nat : a = call.at
    BY <2>2
  <2>4. ASSUME NEW r \in Ranges, live[r] > 0, NEW p \in PagesOf(r) PROVE Covered(p)'
    <3>1. Covered(p) /\ p # a
      BY <1>1, <2>1, <2>2, <2>3, <2>4 DEF Apart
    <3> QED BY <2>1, <2>3, <3>1, UncoversOne
  <2>5. Apart(call.range)'
    BY <1>1, <2>1, <2>2 DEF Apart
  <2> QED BY <1>1, <1>2, <2>1, <2>2, <2>4, <2>5 DEF ApartInv
<1>9. CASE UnmapDone
  <2>1. UNCHANGED <<pages, live>> /\ call'.op = "none"
    BY <1>9 DEF UnmapDone, NoCall
  <2> QED BY <1>1, <1>2, <2>1 DEF ApartInv, Covered
<1>10. CASE ApicMaps \/ PciMaps \/ KernelMapFails \/ UNCHANGED vars
  <2>1. pages \subseteq pages' /\ UNCHANGED <<live, call>>
    BY <1>10 DEF ApicMaps, PciMaps, map_range, KernelMapFails, vars
  <2> QED BY <1>1, <1>2, <2>1 DEF ApartInv, Covered, Apart
<1> QED BY <1>3, <1>4, <1>5, <1>6, <1>7, <1>8, <1>9, <1>10 DEF Next, Halted

(***************************************************************************)
(* As long as uACPI never has two ranges mapped that share a page, each    *)
(* byte of each range it has mapped is there, whatever was mapped before   *)
(* and whatever apic::init and pci::init map in between.                   *)
(***************************************************************************)
THEOREM ApartStaysMapped == Spec => []LiveMapped
<1> DEFINE Inv == TypeOK /\ (~shared => ApartInv)
<1>1. Init => Inv
  <2> SUFFICES ASSUME Init PROVE TypeOK /\ ApartInv
    OBVIOUS
  <2>1. TypeOK /\ call.op = "none" /\ \A r \in Ranges : live[r] = 0
    BY InitTypes DEF Init, NoCall
  <2> QED BY SMTT(60), <2>1 DEF ApartInv
<1>2. Inv => LiveMapped
  <2> SUFFICES ASSUME ApartInv, NEW r \in Ranges, live[r] > 0,
                      NEW b \in r.addr..(r.addr + r.len - 1)
               PROVE  \E n \in pages : b \div PAGE \in Space!Span(n) /\ n.virt = n.phys
    BY DEF LiveMapped
  <2>1. b \div PAGE \in PagesOf(r)
    BY RangePages
  <2>2. PICK n \in pages : b \div PAGE \in Space!Span(n)
    BY <2>1 DEF ApartInv, Covered
  <2> QED BY <2>2 DEF ApartInv, TypeOK, DirectPages
<1>3. Inv /\ [Next]_vars => Inv'
  <2> SUFFICES ASSUME TypeOK, ~shared => ApartInv, [Next]_vars PROVE TypeOK' /\ (~shared' => ApartInv')
    OBVIOUS
  <2>1. TypeOK'
    BY Types
  <2>2. ~shared' => ~shared
    BY DEF Next, MapStart, MapPage, MapPageFails, MapDone, UnmapStart, UnmapPage, UnmapDone,
           ApicMaps, PciMaps, map_range, KernelMapFails, Halted, vars
  <2> QED BY <2>1, <2>2, ApartStep
<1> QED BY <1>1, <1>2, <1>3, PTL DEF Spec

-----------------------------------------------------------------------------
(* Registers: UacpiIo. *)

\* Quotient and remainder of a number put together from them.
LEMMA PutTogether ==
  ASSUME NEW L \in Nat \ {0}, NEW f \in Nat, NEW r \in Nat, r < L
  PROVE  (f * L + r) \div L = f /\ (f * L + r) % L = r
<1>1. PICK n \in Nat : n = f * L + r
  BY SMTT(60)
<1>2. n \div L \in Int /\ n = L * (n \div L) + (n % L) /\ n % L \in 0..(L - 1)
  BY SMTT(60)
<1>3. PICK d \in Int : d = n \div L
  BY <1>2
<1>4. PICK m \in Int : m = n % L /\ 0 <= m /\ m < L
  BY SMTT(60), <1>2
<1>5. f * L + r = L * d + m
  BY <1>1, <1>2, <1>3, <1>4
<1>6. ASSUME f < d PROVE FALSE
  <2>1. (f + 1) * L <= d * L /\ (f + 1) * L = f * L + L
    BY SMTT(60), <1>6
  <2> QED BY SMTT(60), <1>4, <1>5, <2>1
<1>7. ASSUME d < f PROVE FALSE
  <2>1. (d + 1) * L <= f * L /\ (d + 1) * L = d * L + L
    BY SMTT(60), <1>7
  <2> QED BY SMTT(60), <1>4, <1>5, <2>1
<1>8. d = f
  BY SMTT(60), <1>6, <1>7
<1>9. m = r
  BY SMTT(60), <1>4, <1>5, <1>8
<1> QED BY <1>1, <1>3, <1>4, <1>8, <1>9

\* The ports reach each of the first LEGACY bytes of each function: the word
\* that 0xCF8 names and the byte of it that 0xCFC adds make up the offset.
LEMMA ThroughPorts ==
  ASSUME NEW f \in Nat, NEW offset \in Nat, offset < LEGACY, NEW i \in Nat
  PROVE  Selected(io_address(f, offset), (offset % WORD) + i) = f * EXTENDED + offset + i
<1>1. WORD \in Nat \ {0} /\ LEGACY \in Nat \ {0} /\ EXTENDED \in Nat \ {0}
  BY IoAssumption
<1>2. offset % LEGACY = offset
  BY SMTT(60), <1>1
<1>3. /\ offset \div WORD \in Nat /\ offset % WORD \in Nat
      /\ offset = WORD * (offset \div WORD) + (offset % WORD)
  BY SMTT(60), <1>1
<1>4. PICK r \in Nat : r = (offset \div WORD) * WORD /\ r + (offset % WORD) = offset
  <2>1. (offset \div WORD) * WORD \in Nat
    BY SMTT(60), <1>1, <1>3
  <2>2. (offset \div WORD) * WORD + (offset % WORD) = offset
    BY SMTT(60), <1>1, <1>3
  <2> QED BY <2>1, <2>2
<1>5. r < LEGACY
  BY SMTT(60), <1>1, <1>3, <1>4
<1>6. io_address(f, offset) = f * LEGACY + r
  <2>1. (offset % LEGACY) \div WORD = offset \div WORD
    BY <1>2
  <2>2. ((offset % LEGACY) \div WORD) * WORD = r
    BY <1>4, <2>1
  <2> QED BY <2>2 DEF io_address
<1>7. io_address(f, offset) \div LEGACY = f /\ io_address(f, offset) % LEGACY = r
  <2>1. (f * LEGACY + r) \div LEGACY = f /\ (f * LEGACY + r) % LEGACY = r
    BY <1>1, <1>5, PutTogether
  <2> QED BY <1>6, <2>1
<1>8. Selected(io_address(f, offset), (offset % WORD) + i)
        = f * EXTENDED + r + ((offset % WORD) + i)
  BY <1>7 DEF Selected
<1>9. PICK b \in Nat : b = f * EXTENDED
  BY SMTT(60), <1>1
<1> QED BY SMTT(60), <1>3, <1>4, <1>8, <1>9

\* The two kinds of handles.
LEMMA HandleKinds ==
  ASSUME NEW h \in Handles
  PROVE  \/ h.space = "pci" /\ h.base \in Functions /\ h.base \in Nat
         \/ h.space = "io" /\ h.base \in Ports /\ h.base \in 0..(U16 - 1)
<1>1. Functions \subseteq Nat /\ Ports \subseteq 0..(U16 - 1)
  BY IoAssumption
<1>2. CASE h \in {PciHandle(f) : f \in Functions}
  <2>1. PICK f \in Functions : h = PciHandle(f)
    BY <1>2
  <2>2. h.space = "pci" /\ h.base = f
    BY <2>1 DEF PciHandle
  <2> QED BY <1>1, <2>2
<1>3. CASE h \in {IoHandle(p) : p \in Ports}
  <2>1. PICK p \in Ports : h = IoHandle(p)
    BY <1>3
  <2>2. h.space = "io" /\ h.base = p
    BY <2>1 DEF IoHandle
  <2> QED BY <1>1, <2>2
<1> QED BY <1>2, <1>3 DEF Handles

\* A port that is a register is one of the ports.
LEMMA PortRegister ==
  ASSUME NEW at, [space |-> "io", at |-> at] \in Registers
  PROVE  at \in Ports
<1> DEFINE r == [space |-> "io", at |-> at]
<1>1. r.space = "io" /\ r.at = at
  OBVIOUS
<1>2. CASE r \in [space : {"pci"}, at : {f * EXTENDED + o : f \in Functions, o \in 0..(EXTENDED - 1)}]
  <2>1. r.space = "pci"
    <3> DEFINE A == {f * EXTENDED + o : f \in Functions, o \in 0..(EXTENDED - 1)}
    <3>1. r \in [space : {"pci"}, at : A]
      BY SMTT(60), <1>2
    <3> HIDE DEF A, r
    <3> QED BY <3>1
  <2> QED BY <1>1, <2>1
<1>3. CASE r \in [space : {"io"}, at : Ports]
  <2>1. r.at \in Ports
    <3> HIDE DEF r
    <3> QED BY <1>3
  <2> QED BY <1>1, <2>1
<1> QED BY SMTT(60), <1>2, <1>3 DEF Registers

\* An access that uACPI may make reaches the register it names.
LEMMA Reaches ==
  ASSUME NEW h \in Handles, NEW offset \in Nat, NEW i \in Nat, Reachable(h, offset),
         Meant(h, offset, 0) \in Registers
  PROVE  Byte(h, offset, i) = Meant(h, offset, i)
<1>1. CASE h.space = "pci" /\ h.base \in Nat
  <2>1. PICK f \in Nat : f = h.base
    BY <1>1
  <2>2. PciByte(f, offset, i) = f * EXTENDED + offset + i
    <3>1. CASE mmio
      BY <3>1 DEF PciByte, mmio_address
    <3>2. CASE ~mmio
      <4>1. offset < LEGACY
        BY <1>1, <3>2 DEF Reachable
      <4>2. Selected(io_address(f, offset), (offset % WORD) + i) = f * EXTENDED + offset + i
        BY <4>1, ThroughPorts
      <4> QED BY <3>2, <4>2 DEF PciByte
    <3> QED BY <3>1, <3>2
  <2>3. Byte(h, offset, i) = [space |-> "pci", at |-> PciByte(f, offset, i)]
    BY <1>1, <2>1 DEF Byte, PciRegister
  <2>4. Meant(h, offset, i) = [space |-> "pci", at |-> f * EXTENDED + offset + i]
    BY <1>1, <2>1 DEF Meant
  <2> QED BY <2>2, <2>3, <2>4
<1>2. CASE h.space = "io" /\ h.base \in Ports /\ h.base \in 0..(U16 - 1)
  <2>1. PICK p \in 0..(U16 - 1) : p = h.base
    BY <1>2
  <2>2. /\ h.space # "pci"
        /\ Meant(h, offset, i) = [space |-> "io", at |-> p + offset + i]
        /\ Meant(h, offset, 0) = [space |-> "io", at |-> p + offset + 0]
    <3>1. h.space # "pci"
      BY <1>2
    <3> QED BY <1>2, <2>1, <3>1 DEF Meant
  <2>3. p + offset + 0 \in Ports
    BY <2>2, PortRegister
  <2>4. offset \in 0..(U16 - 1)
    <3>1. Ports \subseteq 0..(U16 - 1) /\ U16 \in Nat
      BY IoAssumption
    <3>2. p + offset + 0 \in 0..(U16 - 1)
      BY <2>3, <3>1
    <3> QED BY SMTT(60), <3>1, <3>2
  <2>5. p % U16 = p /\ offset % U16 = offset
    BY SMTT(60), <2>4, IoAssumption
  <2>6. Byte(h, offset, i) = [space |-> "io", at |-> (p % U16) + (offset % U16) + i]
    BY <2>1, <2>2 DEF Byte, IoRegister
  <2> QED BY <2>2, <2>5, <2>6
<1> QED BY <1>1, <1>2, HandleKinds

(***************************************************************************)
(* uacpi_kernel_pci_read and _write and uacpi_kernel_io_read and _write    *)
(* reach the registers they name and no others, before and after           *)
(* pci::init switches from the ports to memory, as long as uACPI asks for  *)
(* no register past the first 256 bytes before the switch.                 *)
(***************************************************************************)
THEOREM AlwaysFaithful == IoSpec => []RegistersFaithful
<1>1. IoInit => RegistersFaithful
  BY DEF IoInit, RegistersFaithful
<1>2. RegistersFaithful /\ [IoNext]_io_vars => RegistersFaithful'
  <2> SUFFICES ASSUME RegistersFaithful, [IoNext]_io_vars PROVE RegistersFaithful'
    OBVIOUS
  <2>1. CASE Rest \/ UNCHANGED io_vars
    <3>1. /\ regs' = regs /\ written' = written /\ answer' = answer /\ expected' = expected
          /\ beyond' = beyond
      BY <2>1 DEF Rest, Open, Close, SetMcfg, io_vars
    <3> QED BY <3>1 DEF RegistersFaithful
  <2>2. ASSUME NEW h \in Handles, NEW w \in Widths, NEW offset \in 0..(EXTENDED - 1),
               Access(h, offset, w)
        PROVE  RegistersFaithful'
    <3>0. SUFFICES ASSUME ~beyond, Reachable(h, offset)
                   PROVE  regs' = written' /\ answer' = expected'
      BY <2>2 DEF Access, RegistersFaithful
    <3>1. w \in Nat \ {0} /\ offset \in Nat /\ 0 \in 0..(w - 1)
      BY SMTT(60), IoAssumption
    <3>2. \A i \in 0..(w - 1) : Byte(h, offset, i) = Meant(h, offset, i)
      <4>1. Meant(h, offset, 0) \in Registers
        BY <2>2, <3>1 DEF Access
      <4>2. \A i \in 0..(w - 1) : i \in Nat
        BY SMTT(60), <3>1
      <4> QED BY <3>0, <3>1, <4>1, <4>2, Reaches
    <3>3. CASE Read(h, offset, w)
      BY <3>0, <3>2, <3>3 DEF Read, RegistersFaithful
    <3>4. ASSUME NEW value \in [0..(w - 1) -> Bytes], Write(h, offset, w, value)
          PROVE  regs' = written' /\ answer' = expected'
      <4>1. [i \in 0..(w - 1) |-> Byte(h, offset, i)] = [i \in 0..(w - 1) |-> Meant(h, offset, i)]
        BY <3>2
      <4> QED BY <3>0, <3>4, <4>1 DEF Write, RegistersFaithful
    <3> QED BY <2>2, <3>3, <3>4 DEF Access
  <2> QED BY <2>1, <2>2 DEF IoNext
<1> QED BY <1>1, <1>2, PTL DEF IoSpec
=============================================================================
