----------------------------- MODULE MCInterrupts -----------------------------
(* Model-checking instance of Interrupts: boards with the keyboard where the  *)
(* kernel expects it, moved by an override, behind another I/O APIC, and with *)
(* no I/O APIC at all; irqs that share a vector and one at the system call's. *)
EXTENDS Interrupts

IoApic(base, size) == [type |-> "ioapic", base |-> base, size |-> size]
Override(source, gsi) == [type |-> "iso", source |-> source, gsi |-> gsi]

MCMadts == {<<>>, <<IoApic(0, 24)>>, <<Override(0, 2), IoApic(0, 24), Override(1, 12)>>,
            <<IoApic(24, 24), IoApic(0, 24)>>, <<Override(1, 25), IoApic(24, 24), IoApic(0, 24)>>}
MCUacpiIrqs == {1, 9, 12, 96, 265}
MCTraps == {2, 14}
=============================================================================
