------------------------------ MODULE Interrupts ------------------------------
(***************************************************************************)
(* The way of an interrupt: the table HANDLERS and isr_handler (idt.rs),   *)
(* the two calls by which uACPI installs and uninstalls handlers           *)
(* (acpi/uacpi.rs), and apic::init, which routes the keyboard (apic.rs).   *)
(* The keyboard controller, the I/O APIC and the local APIC are external.  *)
(***************************************************************************)
EXTENDS Integers, Sequences

CONSTANTS
  Madts,      \* the interrupt tables the firmware may have: sequences of entries
  UacpiIrqs,  \* the irqs uACPI asks for
  Traps,      \* exceptions the CPU raises
  MaxKeys, MaxTraps  \* bounds: keys pressed, exceptions

VARIABLES
  madt,       \* entries [type, base, size] of I/O APICs and [type, source, gsi] of overrides
  phase,      \* how far kmain has come
  intf,       \* the interrupt flag
  handlers,   \* HANDLERS: what is installed at each vector
  owned,      \* uACPI's installed handlers: the handle is the vector
  route,      \* the pins enabled in the I/O APIC: [pin, vector]
  pending, service,  \* IRR and ISR of the local APIC: vectors
  isr,        \* isr_handler: [vec, at, flag], or NoIsr; flag is for iretq
  traps,      \* exceptions so far
  keys, full, \* keys pressed; the output buffer of the keyboard controller
  \* History: a byte was in the buffer before its interrupt was routed; an
  \* interrupt found no handler.
  stale, unhandled

vars == <<madt, phase, intf, handlers, owned, route, pending, service, isr, traps,
          keys, full, stale, unhandled>>
table == <<handlers, owned>>
apic == <<route, pending, service>>
devices == <<keys, full, traps>>
history == <<stale, unhandled>>

KEYBOARD == 33   \* 0x21
SYSCALL == 128   \* 0x80
None == -1
Keyboard == -2  \* its handler; those of uACPI are named by their irqs

\* irq + 0x20, cut to eight bits
VectorOf(irq) == (irq + 32) % 256

\* Vectors for which isr_handler looks into HANDLERS.
Dispatched == (32..255) \ {SYSCALL}

ASSUME InterruptsAssumption ==
  /\ UacpiIrqs \subseteq Nat
  /\ \A m \in Madts :
       /\ m \in Seq([type : {"ioapic"}, base : Nat, size : Nat]
                     \cup [type : {"iso"}, source : Nat, gsi : Nat])
       \* a source is moved at most once
       /\ \A i, j \in DOMAIN m :
            m[i].type = "iso" /\ m[j].type = "iso" /\ m[i].source = m[j].source => i = j
  /\ Traps \subseteq 0..31 /\ MaxKeys \in Nat /\ MaxTraps \in Nat

NoIsr == [vec |-> 0, at |-> "none", flag |-> FALSE]

\* Code of kmain runs, and no handler suspends it.
InThread == isr = NoIsr /\ phase # "panic"

-----------------------------------------------------------------------------
(* uacpi_kernel_install_interrupt_handler and _uninstall_ *)

is_handler_installed(vec) == handlers[vec] # None
install_handler(vec, h) == handlers' = [handlers EXCEPT ![vec] = h]
clear_handler(vec) == handlers' = [handlers EXCEPT ![vec] = None]

\* Mutant: whoever is there is replaced.
Install_Replaces(irq) ==
  /\ InThread /\ phase = "acpi" /\ irq \notin owned
  /\ install_handler(VectorOf(irq), irq) /\ owned' = owned \cup {irq}
  /\ UNCHANGED <<madt, phase, intf, apic, isr, devices, history>>

\* ALREADY_EXISTS leaves all as it is.  The slot is locked once to look and once to
\* write; with interrupts off and one thread nothing comes between.
Install(irq) ==
  /\ InThread /\ phase = "acpi" /\ irq \notin owned
  /\ ~is_handler_installed(VectorOf(irq))
  /\ install_handler(VectorOf(irq), irq) /\ owned' = owned \cup {irq}
  /\ UNCHANGED <<madt, phase, intf, apic, isr, devices, history>>

Uninstall(irq) ==
  /\ InThread /\ phase = "acpi" /\ irq \in owned
  /\ clear_handler(VectorOf(irq)) /\ owned' = owned \ {irq}
  /\ UNCHANGED <<madt, phase, intf, apic, isr, devices, history>>

-----------------------------------------------------------------------------
(* apic::init *)

First(S) == CHOOSE i \in S : \A j \in S : i <= j

IoApics == {i \in DOMAIN madt : madt[i].type = "ioapic"}
find_ioapic == madt[First(IoApics)]

resolve_isa_irq(source) ==
  LET overrides == {i \in DOMAIN madt : madt[i].type = "iso" /\ madt[i].source = source}
  IN  IF overrides = {} THEN source ELSE madt[First(overrides)].gsi

Step(from, to) == InThread /\ phase = from /\ phase' = to

\* acpi::init has returned; the legacy controllers are masked, the handler installed.
InstallKeyboard ==
  /\ Step("acpi", "installed")
  /\ install_handler(KEYBOARD, Keyboard)
  /\ UNCHANGED <<madt, intf, owned, apic, isr, devices, history>>

\* No table, no I/O APIC in it, one that starts after the keyboard, or no memory for its page.
SetupFails ==
  /\ Step("installed", "panic")
  /\ UNCHANGED <<madt, intf, table, apic, isr, devices, history>>

\* Mutant: the number of the interrupt is taken for the number of the pin.
EnablePin_NoBase ==
  /\ Step("installed", "routed")
  /\ IoApics # {} /\ resolve_isa_irq(1) >= find_ioapic.base
  /\ LET pin == resolve_isa_irq(1) % 256
     IN  route' = {[pin |-> pin, vector |-> VectorOf(pin)]}
  /\ stale' = full
  /\ UNCHANGED <<madt, intf, table, pending, service, isr, devices, unhandled>>

EnablePin ==
  /\ Step("installed", "routed")
  /\ IoApics # {} /\ resolve_isa_irq(1) >= find_ioapic.base
  /\ LET pin == (resolve_isa_irq(1) - find_ioapic.base) % 256
     IN  route' = {[pin |-> pin, vector |-> VectorOf(pin)]}  \* external: IoApic::enable
  /\ stale' = full
  /\ UNCHANGED <<madt, intf, table, pending, service, isr, devices, unhandled>>

irq_enable ==
  /\ Step("routed", "on")
  /\ intf' = TRUE
  /\ UNCHANGED <<madt, table, apic, isr, devices, history>>

\* The rest of kmain masks interrupts around its locks and its output ...
Section ==
  /\ Step("on", "on") /\ intf' = ~intf
  /\ UNCHANGED <<madt, table, apic, isr, devices, history>>

\* ... and ends in hcf.
hcf ==
  /\ Step("on", "hcf") /\ intf
  /\ UNCHANGED <<madt, intf, table, apic, isr, devices, history>>

-----------------------------------------------------------------------------
(***************************************************************************)
(* isr_handler.  The gate clears the flag; the local APIC holds back       *)
(* vectors of the priority class in service and below.                     *)
(***************************************************************************)
Enter(vec) == intf' = FALSE /\ isr' = [vec |-> vec, at |-> "match", flag |-> intf]

Deliver(vec) ==
  /\ intf /\ isr = NoIsr /\ vec \in pending
  /\ \A s \in service : vec \div 16 > s \div 16
  /\ pending' = pending \ {vec} /\ service' = service \cup {vec}
  /\ Enter(vec)
  /\ UNCHANGED <<madt, phase, table, route, devices, history>>

\* An exception of the code of kmain, or an NMI.
Trap(vec) ==
  /\ InThread /\ traps < MaxTraps /\ traps' = traps + 1
  /\ Enter(vec)
  /\ UNCHANGED <<madt, phase, table, apic, keys, full, history>>

Matching(vec) == isr.at = "match" /\ isr.vec = vec
Goto(l) == isr' = [isr EXCEPT !.at = l]

\* NMI, debug, breakpoint and the system call only print.
IsrPrints ==
  /\ \E vec \in {1, 2, 3, SYSCALL} : Matching(vec)
  /\ Goto("iretq")
  /\ UNCHANGED <<madt, phase, intf, table, apic, devices, history>>

\* All other exceptions end in hcf with interrupts off.
IsrPanics ==
  /\ \E vec \in (0..31) \ {1, 2, 3} : Matching(vec)
  /\ phase' = "panic" /\ Goto("panic")
  /\ UNCHANGED <<madt, intf, table, apic, devices, history>>

IsrUnhandled ==
  /\ \E vec \in Dispatched : Matching(vec) /\ ~is_handler_installed(vec)
  /\ unhandled' = TRUE /\ Goto("iretq")
  /\ UNCHANGED <<madt, phase, intf, table, apic, devices, stale>>

\* uACPI's handler returns; nothing writes the end-of-interrupt register.
IsrUacpi ==
  /\ \E vec \in Dispatched : Matching(vec) /\ handlers[vec] \in UacpiIrqs
  /\ Goto("iretq")
  /\ UNCHANGED <<madt, phase, intf, table, apic, devices, history>>

\* The keyboard's handler reads the scan code, ...
KeyboardReads ==
  /\ \E vec \in Dispatched : Matching(vec) /\ handlers[vec] = Keyboard
  /\ full' = FALSE /\ Goto("eoi")
  /\ UNCHANGED <<madt, phase, intf, table, apic, keys, traps, history>>

Highest(S) == CHOOSE v \in S : \A w \in S : w <= v

\* Mutant: the handler does not write IA32_X2APIC_EOI.
KeyboardEnds_NoEoi ==
  /\ isr.at = "eoi" /\ Goto("iretq")
  /\ UNCHANGED <<madt, phase, intf, table, apic, devices, history>>

\* ... then ends the interrupt of the highest priority in service.
KeyboardEnds ==
  /\ isr.at = "eoi" /\ Goto("iretq")
  /\ service' = service \ {Highest(service)}
  /\ UNCHANGED <<madt, phase, intf, table, route, pending, devices, history>>

iretq ==
  /\ isr.at = "iretq" /\ isr' = NoIsr /\ intf' = isr.flag
  /\ UNCHANGED <<madt, phase, table, apic, devices, history>>

-----------------------------------------------------------------------------
(***************************************************************************)
(* External: lines and the I/O APIC.  A rising line of a pin that is       *)
(* enabled becomes pending, of any other is lost.                          *)
(***************************************************************************)
Wire(source) ==
  LET moved == {madt[i].gsi : i \in {j \in DOMAIN madt : madt[j].type = "iso" /\ madt[j].source = source}}
  IN  IF moved = {} THEN source ELSE CHOOSE gsi \in moved : TRUE

Rises(gsi) ==
  pending' = pending \cup
    {r.vector : r \in {q \in route : q.pin < find_ioapic.size /\ find_ioapic.base + q.pin = gsi}}

PressKey ==
  /\ keys < MaxKeys /\ ~full
  /\ keys' = keys + 1 /\ full' = TRUE
  /\ Rises(Wire(1))
  /\ UNCHANGED <<madt, phase, intf, table, route, service, isr, traps, history>>

Init ==
  /\ madt \in Madts /\ phase = "acpi" /\ intf = FALSE
  /\ handlers = [v \in 0..255 |-> None] /\ owned = {}
  /\ route = {} /\ pending = {} /\ service = {} /\ isr = NoIsr
  /\ traps = 0 /\ keys = 0 /\ full = FALSE
  /\ stale = FALSE /\ unhandled = FALSE

Isr ==
  \/ (\E vec \in 0..255 : Deliver(vec))
  \/ IsrPrints \/ IsrPanics \/ IsrUnhandled \/ IsrUacpi \/ KeyboardReads \/ KeyboardEnds \/ iretq

Next ==
  \/ \E irq \in UacpiIrqs : Install(irq) \/ Uninstall(irq)
  \/ InstallKeyboard \/ SetupFails \/ EnablePin \/ irq_enable \/ Section \/ hcf
  \/ (\E vec \in Traps : Trap(vec)) \/ Isr \/ PressKey

Spec == Init /\ [][Next]_vars

(***************************************************************************)
(* The CPU goes on: a handler returns, kmain leaves every section of       *)
(* masked interrupts and reaches hcf, what can be delivered is.            *)
(***************************************************************************)
FairSpec == Spec /\ WF_vars(Isr) /\ WF_vars(~intf /\ Section) /\ SF_vars(hcf)
-----------------------------------------------------------------------------
(***************************************************************************)
(* As long as uACPI has a handler installed, its slot is its own: no other *)
(* irq whose vector is the same after the cut to eight bits takes it over, *)
(* and no uninstall clears it.  Only apic::init replaces a handler, at the *)
(* keyboard's vector.                                                      *)
(***************************************************************************)
SlotsKept ==
  \A irq \in owned :
    handlers[VectorOf(irq)] = irq \/ (VectorOf(irq) = KEYBOARD /\ phase # "acpi")

\* The keyboard is on pin 1 of the first I/O APIC: IoApic::enable gives it vector 0x21.
OnPinOne == IoApics # {} /\ Wire(1) = find_ioapic.base + 1 /\ find_ioapic.size > 1

(***************************************************************************)
(* With the keyboard on pin 1, each interrupt delivered finds its handler, *)
(* whatever uACPI installed and uninstalled before; and none stays in      *)
(* service when its handler has returned, holding back the others.         *)
(***************************************************************************)
InterruptsEnd == OnPinOne => ~unhandled /\ (isr = NoIsr => service = {})

(***************************************************************************)
(* With the keyboard on pin 1 and no byte in its buffer when apic::init    *)
(* enables the pin, every key is read, unless the kernel panics.           *)
(***************************************************************************)
KeysRead ==
  (OnPinOne /\ ~stale /\ phase \in {"on", "hcf"} /\ full) ~> (~full \/ phase = "panic")

(***************************************************************************)
(* What keeps InterruptsEnd: only the keyboard is ever routed, after its   *)
(* handler was installed for good, and it is in service while it runs.     *)
(***************************************************************************)
KeyboardOnly ==
  /\ route = {} \/ route = {[pin |-> 1, vector |-> KEYBOARD]}
  /\ route # {} => phase # "acpi"
  /\ pending # {} => route # {}
  /\ pending \subseteq {KEYBOARD}
  /\ service = {} \/ (service = {KEYBOARD} /\ isr.vec = KEYBOARD /\ isr.at \in {"match", "eoi"})
  /\ isr.at \in {"match", "eoi"} /\ isr.vec = KEYBOARD => service = {KEYBOARD} /\ phase # "acpi"
  /\ isr.at \in {"match", "eoi"} => isr.vec \in {KEYBOARD} \cup Traps
  /\ isr.at = "eoi" => isr.vec = KEYBOARD
  /\ ~unhandled

IInv ==
  /\ madt \in Madts
  /\ handlers \in [0..255 -> UacpiIrqs \cup {None, Keyboard}] /\ owned \subseteq UacpiIrqs
  /\ intf \in BOOLEAN
  /\ isr \in [vec : 0..255, at : {"none", "match", "eoi", "iretq", "panic"}, flag : BOOLEAN]
  /\ phase \notin {"acpi", "panic"} => handlers[KEYBOARD] = Keyboard
  /\ isr.at # "none" => ~intf
  /\ intf => phase \in {"on", "hcf"}
  /\ isr.flag => phase \in {"on", "hcf", "panic"}
  /\ isr.at \in {"match", "eoi", "iretq"} => phase # "panic"
  /\ SlotsKept
  /\ OnPinOne => KeyboardOnly
=============================================================================
