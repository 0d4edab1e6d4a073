------------------------------ MODULE MCUacpiMap ------------------------------
(* Model-checking instance of UacpiMap: ten pages of two bytes, the first two *)
(* one large page of the bootloader, the next a base page of it, the last two *)
(* the configuration space; ranges that start and end within a page, that     *)
(* share pages, and one that reaches the I/O APIC.                            *)
EXTENDS UacpiMap

MCBoot == {[virt |-> 0, phys |-> 0, size |-> 1], Page(2)}
MCKernel == <<{Page(6)}, {[virt |-> 8, phys |-> 8, size |-> 1]}>>
MCRanges == {[addr |-> 3, len |-> 2], [addr |-> 5, len |-> 4], [addr |-> 7, len |-> 1],
             [addr |-> 8, len |-> 3], [addr |-> 11, len |-> 3]}
=============================================================================
