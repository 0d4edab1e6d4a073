------------------------------- MODULE MCLocks -------------------------------
(* Model-checking instance of Locks with the nestings of the kernel: heap     *)
(* and page tables call the frame allocator, install_handler drops the old    *)
(* handler, a heap object, with the slot locked, reclaim_bootloader prints    *)
(* with the frame allocator locked.                                           *)
EXTENDS Locks

CONSTANTS Heap, Vmm, Pmm, c1, c2

MCIntLocks == {Heap, Vmm, Pmm}
MCBootPlans == {<<Slot, Heap>>}
MCRank == [l \in MCIntLocks \cup {Slot, Acpi} |->
             CASE l = Pmm -> 1 [] l = Slot -> 2 [] l = Acpi -> 3 [] OTHER -> 0]
MCRunPlans == {<<Heap, Pmm>>, <<Vmm, Pmm>>, <<Acpi, Critical>>, <<Pmm, Critical>>, <<Critical>>}
=============================================================================
