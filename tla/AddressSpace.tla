---------------------------- MODULE AddressSpace ----------------------------
(***************************************************************************)
(* What mm/vmm.rs promises, without tables: a set of pages that do not     *)
(* overlap, which grows and shrinks one page at a time.                    *)
(***************************************************************************)
EXTENDS Integers

CONSTANTS
  ENTRIES,  \* entries of a table: a page of size k spans ENTRIES^k base pages
  Boot      \* the pages mapped at boot

VARIABLE pages  \* [virt, phys, size], in base pages

Span(m) == m.virt..(m.virt + ENTRIES^m.size - 1)
AlignedPage(m) == m.virt % ENTRIES^m.size = 0 /\ m.phys % ENTRIES^m.size = 0

Init == pages = Boot

Map(m) ==
  /\ AlignedPage(m)
  /\ \A n \in pages : Span(m) \cap Span(n) = {}
  /\ pages' = pages \cup {m}

Unmap(m) == m \in pages /\ pages' = pages \ {m}

Next == (\E m \in pages' \ pages : Map(m)) \/ (\E m \in pages \ pages' : Unmap(m))

Spec == Init /\ [][Next]_pages
=============================================================================
