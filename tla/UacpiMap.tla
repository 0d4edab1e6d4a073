------------------------------- MODULE UacpiMap -------------------------------
(***************************************************************************)
(* The window at HHDM_OFFSET as its three users see it: uACPI maps and     *)
(* unmaps ranges of bytes through uacpi_kernel_map and uacpi_kernel_unmap  *)
(* (acpi/uacpi.rs), page by page; apic::init maps the I/O APIC, pci::init  *)
(* the configuration space, and what the bootloader mapped is there from   *)
(* the start.  Page tables are those of AddressSpace; virtual addresses    *)
(* are counted from HHDM_OFFSET, pages in base pages.                      *)
(***************************************************************************)
EXTENDS Integers, Sequences

CONSTANTS
  ENTRIES,   \* entries of a table: a page of size k spans ENTRIES^k base pages
  PAGE,      \* bytes of a base page
  Boot,      \* the pages the bootloader mapped
  Ranges,    \* the ranges uACPI maps: [addr, len], in bytes
  Kernel,    \* what apic::init and then pci::init map: two sets of pages
  MaxLive    \* bound: times uACPI maps the same range

VARIABLES
  pages,     \* the pages mapped: [virt, phys, size]
  live,      \* how often uACPI has each range mapped
  call,      \* the call of uACPI that runs: [op, range, at], or NoCall
  boot,      \* the next element of Kernel to be mapped
  halted,    \* kmain unwraps the error
  \* History: pages left by a uacpi_kernel_map that failed; two ranges that
  \* share a page were mapped at a time.
  leftover, shared

vars == <<pages, live, call, boot, halted, leftover, shared>>

Space == INSTANCE AddressSpace

align_down(a, n) == a - (a % n)
align_up(a, n) == align_down(a + n - 1, n)

\* Mutant: a last page that is only partly in the range is left out.
End_Down(r) == align_down(r.addr + r.len, PAGE) \div PAGE

First(r) == align_down(r.addr, PAGE) \div PAGE
End(r) == align_up(r.addr + r.len, PAGE) \div PAGE
PagesOf(r) == First(r)..(End(r) - 1)

\* Every page maps the physical memory of its own number.
DirectPages == {m \in [virt : Nat, phys : Nat, size : 0..2] : m.virt = m.phys}
Page(p) == [virt |-> p, phys |-> p, size |-> 0]
Covered(p) == \E n \in pages : p \in Space!Span(n)

ASSUME MapAssumption ==
  /\ ENTRIES \in Nat \ {0} /\ PAGE \in Nat \ {0} /\ MaxLive \in Nat
  /\ Ranges \subseteq [addr : Nat, len : Nat]
  /\ Boot \subseteq DirectPages /\ Kernel \in Seq(SUBSET DirectPages) /\ Len(Kernel) = 2
  /\ ENTRIES^0 = 1

NoCall == [op |-> "none", range |-> [addr |-> 0, len |-> 0], at |-> 0]
Begin(op, r) == call' = [op |-> op, range |-> r, at |-> First(r)]
NextPage == call' = [call EXCEPT !.at = @ + 1]
Running(op) == ~halted /\ call.op = op
More == call.at < End(call.range)

-----------------------------------------------------------------------------
(* uacpi_kernel_map *)

\* uACPI has no range mapped that shares a page with r.
Apart(r) == \A q \in Ranges : live[q] > 0 => PagesOf(q) \cap PagesOf(r) = {}

MapStart(r) ==
  /\ Running("none") /\ live[r] < MaxLive
  /\ Begin("map", r)
  /\ shared' = (shared \/ ~Apart(r))
  /\ UNCHANGED <<pages, live, boot, halted, leftover>>

\* vmm::map returns Ok or AlreadyMapped.
MapPage ==
  /\ Running("map") /\ More
  /\ IF Covered(call.at) THEN UNCHANGED pages ELSE Space!Map(Page(call.at))
  /\ NextPage
  /\ UNCHANGED <<live, boot, halted, leftover, shared>>

\* vmm::map has to make a table for m: no page is in the table m belongs in.
NeedsTable(m) ==
  LET table(n) == n.virt \div ENTRIES^(m.size + 1)
  IN  \A n \in pages : n.size <= m.size => table(n) # table(m)

\* vmm::map returns OutOfMemory: null is returned.
MapPageFails ==
  /\ Running("map") /\ More
  /\ ~Covered(call.at) /\ NeedsTable(Page(call.at))
  /\ leftover' = leftover \cup First(call.range)..(call.at - 1)
  /\ call' = NoCall
  /\ UNCHANGED <<pages, live, boot, halted, shared>>

MapDone ==
  /\ Running("map") /\ ~More
  /\ live' = [live EXCEPT ![call.range] = @ + 1]
  /\ call' = NoCall
  /\ UNCHANGED <<pages, boot, halted, leftover, shared>>

-----------------------------------------------------------------------------
(* uacpi_kernel_unmap, called for a range that uacpi_kernel_map returned *)

UnmapStart(r) ==
  /\ Running("none") /\ live[r] > 0
  /\ live' = [live EXCEPT ![r] = @ - 1]
  /\ Begin("unmap", r)
  /\ UNCHANGED <<pages, boot, halted, leftover, shared>>

\* Mutant: the last page is left out unless the range ends at its end.
UnmapPage_Down ==
  /\ Running("unmap") /\ More
  /\ \/ /\ (call.at + 1) * PAGE <= call.range.addr + call.range.len
        /\ Space!Unmap(Page(call.at))
     \/ /\ Page(call.at) \notin pages \/ (call.at + 1) * PAGE > call.range.addr + call.range.len
        /\ UNCHANGED pages
  /\ NextPage
  /\ UNCHANGED <<live, boot, halted, leftover, shared>>

\* An error of vmm::unmap is only logged.
UnmapPage ==
  /\ Running("unmap") /\ More
  /\ \/ Space!Unmap(Page(call.at))
     \/ Page(call.at) \notin pages /\ UNCHANGED pages
  /\ NextPage
  /\ UNCHANGED <<live, boot, halted, leftover, shared>>

UnmapDone ==
  /\ Running("unmap") /\ ~More
  /\ call' = NoCall
  /\ UNCHANGED <<pages, live, boot, halted, leftover, shared>>

-----------------------------------------------------------------------------
(***************************************************************************)
(* apic::init and pci::init: map_hhdm and map_range map all or nothing,    *)
(* and do not take AlreadyMapped for success.                              *)
(***************************************************************************)
Aligned(m) == m.virt % ENTRIES^m.size = 0

map_range ==
  /\ Running("none") /\ boot <= Len(Kernel)
  /\ \A m \in Kernel[boot] : Aligned(m)
  /\ \A m \in Kernel[boot], n \in pages : Space!Span(m) \cap Space!Span(n) = {}
  /\ pages' = pages \cup Kernel[boot]
  /\ boot' = boot + 1
  /\ UNCHANGED <<live, call, halted, leftover, shared>>

ApicMaps == boot = 1 /\ map_range
PciMaps == boot = 2 /\ map_range

(***************************************************************************)
(* AlreadyMapped or OutOfMemory; or the tables of the firmware are missing *)
(* or name an address that no page of that size can begin at.              *)
(***************************************************************************)
KernelMapFails ==
  /\ Running("none") /\ boot <= Len(Kernel)
  /\ halted' = TRUE
  /\ UNCHANGED <<pages, live, call, boot, leftover, shared>>

\* kmain is in hcf.
Halted == halted /\ UNCHANGED vars

Init ==
  /\ pages = Boot /\ live = [r \in Ranges |-> 0] /\ call = NoCall
  /\ boot = 1 /\ halted = FALSE /\ leftover = {} /\ shared = FALSE

Next ==
  \/ (\E r \in Ranges : MapStart(r)) \/ MapPage \/ MapPageFails \/ MapDone
  \/ (\E r \in Ranges : UnmapStart(r)) \/ UnmapPage \/ UnmapDone
  \/ ApicMaps \/ PciMaps \/ KernelMapFails \/ Halted

Spec == Init /\ [][Next]_vars
-----------------------------------------------------------------------------
\* Types, and how far the call that runs has come.
TypeOK ==
  /\ pages \subseteq DirectPages
  /\ live \in [Ranges -> 0..MaxLive]
  /\ call \in [op : {"map", "unmap"}, range : Ranges, at : Nat] \cup {NoCall}
  /\ call.op = "map" => live[call.range] < MaxLive
  /\ call.op # "none" => call.at = First(call.range) \/ call.at \in First(call.range)..End(call.range)
  /\ boot \in 1..(Len(Kernel) + 1) /\ halted \in BOOLEAN
  /\ leftover \subseteq Nat /\ shared \in BOOLEAN

(***************************************************************************)
(* "return a virtual address that can be used to access it" (the comment   *)
(* on uacpi_kernel_map): every byte of a range that uACPI has mapped is    *)
(* mapped, to itself, whatever it mapped and unmapped before and whatever  *)
(* apic::init and pci::init map meanwhile, as long as it never has two     *)
(* ranges mapped that share a page: pages are not counted, so that the     *)
(* first of the two to be unmapped takes the page of the other with it.    *)
(***************************************************************************)
LiveMapped ==
  ~shared => \A r \in Ranges : live[r] > 0 =>
    \A b \in r.addr..(r.addr + r.len - 1) :
      \E n \in pages : b \div PAGE \in Space!Span(n) /\ n.virt = n.phys

(***************************************************************************)
(* uacpi_kernel_unmap undoes uacpi_kernel_map, however calls overlap: any  *)
(* page of the window was mapped by the bootloader or by apic::init or     *)
(* pci::init, is one of a range uACPI still has mapped or is being called  *)
(* for, or was left by a map that ran out of memory.  Only such a page can *)
(* make apic::init or pci::init find its pages AlreadyMapped.              *)
(***************************************************************************)
KernelPages == UNION {Kernel[i] : i \in 1..(boot - 1)}
NoStrayPages ==
  \A m \in pages \ (Boot \cup KernelPages) :
    /\ m = Page(m.virt)
    /\ \/ \E r \in Ranges : live[r] > 0 /\ m.virt \in PagesOf(r)
       \/ m.virt \in leftover
       \/ call.op = "map" /\ m.virt \in First(call.range)..(call.at - 1)
       \/ call.op = "unmap" /\ m.virt \in call.at..(End(call.range) - 1)

(***************************************************************************)
(* uACPI takes away no page larger than its own: neither the direct map of *)
(* the memory nor the PCI configuration space lose one to unmap.           *)
(***************************************************************************)
LargePagesStay == [][\A m \in pages : m.size > 0 => m \in pages']_vars

(***************************************************************************)
(* What keeps LiveMapped as long as no page is shared: no two live ranges  *)
(* do, none shares one with the range of the call that runs, and the pages *)
(* of both are mapped as far as the call has come.                         *)
(***************************************************************************)
ApartInv ==
  /\ TypeOK
  /\ \A q, r \in Ranges :
       live[q] > 0 /\ live[r] > 0 /\ PagesOf(q) \cap PagesOf(r) # {} => q = r /\ live[q] = 1
  /\ \A r \in Ranges : live[r] > 0 => \A p \in PagesOf(r) : Covered(p)
  /\ call.op # "none" => Apart(call.range)
  /\ call.op = "map" => \A p \in First(call.range)..(call.at - 1) : Covered(p)
=============================================================================
