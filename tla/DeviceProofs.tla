----------------------------- MODULE DeviceProofs -----------------------------
(***************************************************************************)
(* Proofs about Interrupts, for every firmware table and any irqs, and     *)
(* about Pci, for every machine, any number of devices and functions, and  *)
(* any size of the large pages.                                            *)
(***************************************************************************)
EXTENDS Interrupts, Pci, WellFoundedInduction, TLAPS

\* Zenon proves the leaves that name no prover.
USE ZenonT(60)

\* The vectors of the irqs are entries of the IDT (uacpi.rs adds 32 to the irq), and the keyboard's is that of irq 1.
LEMMA Vectors == /\ \A irq \in Nat : VectorOf(irq) \in 0..255
                 /\ VectorOf(1) = KEYBOARD /\ None \notin Nat /\ Keyboard \notin Nat /\ None # Keyboard
                 /\ KEYBOARD \in 0..255 /\ KEYBOARD \in Dispatched
                 /\ Dispatched \subseteq 0..255 /\ Dispatched \cap (0..31) = {}
  BY SMTT(60) DEF VectorOf, KEYBOARD, None, Keyboard, Dispatched, SYSCALL

\* What the assumption says of the irqs uACPI asks for and of the exceptions.
LEMMA Constants == UacpiIrqs \subseteq Nat /\ Traps \subseteq 0..31
  BY InterruptsAssumption

\* A set of numbers that is not empty has a least one.
LEMMA LeastNumber ==
  ASSUME NEW S, S \subseteq Nat, S # {}
  PROVE  \E x \in S : \A y \in S : x <= y
<1> DEFINE Lt == {ss \in Nat \X Nat : ss[1] < ss[2]}
<1>1. IsWellFoundedOn(Lt, Nat)
  BY NatLessThanWellFounded DEF OpToRel, Lt
<1>2. \E x \in S : \A y \in S : ~(<<y, x>> \in Lt)
  BY <1>1, WFMin
<1>3. PICK x \in S : \A y \in S : ~(<<y, x>> \in Lt)
  BY <1>2
<1>4. ASSUME NEW y \in S PROVE x <= y
  <2>1. x \in Nat /\ y \in Nat /\ <<y, x>> \in Nat \X Nat
    OBVIOUS
  <2>2. ~(y < x)
    BY <1>3, <2>1
  <2> QED BY SMTT(60), <2>1, <2>2
<1> QED BY <1>4

\* The override that resolve_isa_irq finds is the one there is.
LEMMA Resolved == ASSUME madt \in Madts PROVE resolve_isa_irq(1) = Wire(1)
<1> DEFINE O == {i \in DOMAIN madt : madt[i].type = "iso" /\ madt[i].source = 1}
           G == {madt[i].gsi : i \in O}
<1>1. \A i, j \in O : i = j /\ i \in Nat
  BY SMTT(60), InterruptsAssumption
<1>2. CASE O = {}
  BY <1>2 DEF resolve_isa_irq, Wire
<1>3. CASE O # {}
  <2>1. PICK i \in O : TRUE
    BY <1>3
  <2>2. O = {i} /\ i <= i
    BY SMTT(60), <1>1, <2>1
  <2>3. First(O) = i
    <3> HIDE DEF O
    <3> QED BY <2>2 DEF First
  <2>4. G = {madt[i].gsi}
    BY <2>2
  <2>5. (CHOOSE gsi \in G : TRUE) = madt[i].gsi
    <3> HIDE DEF G
    <3> QED BY <2>4
  <2>6. resolve_isa_irq(1) = madt[i].gsi
    BY <1>3, <2>3 DEF resolve_isa_irq
  <2>7. Wire(1) = madt[i].gsi
    <3>1. G # {}
      BY <2>4
    <3> QED BY <2>5, <3>1 DEF Wire
  <2> QED BY <2>6, <2>7
<1> QED BY <1>2, <1>3

\* The pin that apic::init enables is pin 1, if the keyboard is there.
LEMMA PinOne ==
  ASSUME madt \in Madts, OnPinOne
  PROVE  /\ (resolve_isa_irq(1) - find_ioapic.base) % 256 = 1
         /\ VectorOf(1) = KEYBOARD
<1>1. resolve_isa_irq(1) = find_ioapic.base + 1
  BY Resolved DEF OnPinOne
<1>2. find_ioapic.base \in Nat
  <2>1. IoApics # {} /\ IoApics \subseteq Nat
    BY SMTT(60), InterruptsAssumption DEF OnPinOne, IoApics
  <2>2. First(IoApics) \in IoApics
    <3>1. PICK i \in IoApics : \A j \in IoApics : i <= j
      BY <2>1, LeastNumber
    <3> QED BY <3>1 DEF First
  <2> QED BY SMTT(60), <2>2, InterruptsAssumption DEF find_ioapic, IoApics
<1> QED BY SMTT(60), <1>1, <1>2, Vectors

-----------------------------------------------------------------------------
\* A rising line can make pending only what the route says.
LEMMA RisesTo ==
  ASSUME NEW gsi, Rises(gsi), route = {} \/ route = {[pin |-> 1, vector |-> KEYBOARD]}
  PROVE  /\ pending' \subseteq pending \cup {KEYBOARD}
         /\ route = {} => pending' = pending
  BY SMTT(60) DEF Rises

\* Whether the keyboard is on pin 1 is up to the firmware.
LEMMA SamePin == ASSUME UNCHANGED madt PROVE OnPinOne' = OnPinOne
  BY SMTT(60) DEF OnPinOne, IoApics, Wire, find_ioapic, First

\* No step takes a slot of HANDLERS from the handler that has it.
LEMMA Slots == ASSUME IInv, [Next]_vars PROVE SlotsKept'
<1>a. \A o \in UacpiIrqs : VectorOf(o) \in 0..255 /\ o # None
  <2>1. \A irq \in Nat : VectorOf(irq) \in 0..255
    BY Vectors
  <2>2. None \notin Nat
    BY Vectors
  <2> QED BY <2>1, <2>2, Constants
<1>1. /\ handlers \in [0..255 -> UacpiIrqs \cup {None, Keyboard}] /\ owned \subseteq UacpiIrqs
      /\ SlotsKept
  BY DEF IInv
<1>2. ASSUME NEW irq \in UacpiIrqs, Install(irq) PROVE SlotsKept'
  <2>1. /\ phase = "acpi" /\ UNCHANGED phase /\ handlers[VectorOf(irq)] = None
        /\ handlers' = [handlers EXCEPT ![VectorOf(irq)] = irq] /\ owned' = owned \cup {irq}
    BY <1>2 DEF Install, install_handler, is_handler_installed
  <2> SUFFICES ASSUME NEW o \in owned' PROVE handlers'[VectorOf(o)] = o
    BY <2>1 DEF SlotsKept
  <2>2. VectorOf(irq) \in 0..255 /\ VectorOf(o) \in 0..255
    BY <1>a, <1>1, <2>1
  <2>3. CASE o = irq
    BY <1>1, <2>1, <2>2, <2>3
  <2>4. CASE o # irq
    <3>1. handlers[VectorOf(o)] = o /\ o # None
      BY <1>a, <1>1, <2>1, <2>4 DEF SlotsKept
    <3>2. VectorOf(o) # VectorOf(irq)
      BY <2>1, <3>1
    <3> QED BY <1>1, <2>1, <2>2, <3>1, <3>2
  <2> QED BY <2>3, <2>4
<1>3. ASSUME NEW irq \in UacpiIrqs, Uninstall(irq) PROVE SlotsKept'
  <2>1. /\ phase = "acpi" /\ UNCHANGED phase /\ irq \in owned
        /\ handlers' = [handlers EXCEPT ![VectorOf(irq)] = None] /\ owned' = owned \ {irq}
    BY <1>3 DEF Uninstall, clear_handler
  <2> SUFFICES ASSUME NEW o \in owned' PROVE handlers'[VectorOf(o)] = o
    BY <2>1 DEF SlotsKept
  <2>2. handlers[VectorOf(o)] = o /\ handlers[VectorOf(irq)] = irq /\ o # irq
    BY <1>1, <2>1 DEF SlotsKept
  <2>3. VectorOf(o) # VectorOf(irq)
    BY <2>2
  <2>4. VectorOf(o) \in 0..255
    BY <1>a, <1>1, <2>1
  <2> QED BY <1>1, <2>1, <2>2, <2>3, <2>4
<1>4. CASE InstallKeyboard
  <2>1. /\ phase = "acpi" /\ phase' = "installed" /\ UNCHANGED owned
        /\ handlers' = [handlers EXCEPT ![KEYBOARD] = Keyboard]
    BY <1>4 DEF InstallKeyboard, Step, install_handler
  <2> SUFFICES ASSUME NEW o \in owned, VectorOf(o) # KEYBOARD PROVE handlers'[VectorOf(o)] = o
    BY <2>1 DEF SlotsKept
  <2>2. VectorOf(o) \in 0..255 /\ handlers[VectorOf(o)] = o
    BY <1>a, <1>1, <2>1 DEF SlotsKept
  <2> QED BY <1>1, <2>1, <2>2
<1>5. ASSUME UNCHANGED table, phase' # phase => phase' # "acpi" PROVE SlotsKept'
  BY SMTT(60), <1>1, <1>5 DEF SlotsKept, table
<1>6. CASE SetupFails \/ EnablePin \/ irq_enable \/ Section \/ hcf
  BY <1>5, <1>6 DEF SetupFails, EnablePin, irq_enable, Section, hcf, Step
<1>7. CASE (\E vec \in Traps : Trap(vec)) \/ Isr
  BY <1>5, <1>7 DEF Trap, Isr, Deliver, IsrPrints, IsrPanics, IsrUnhandled, IsrUacpi,
       KeyboardReads, KeyboardEnds, iretq
<1>8. CASE PressKey \/ UNCHANGED vars
  BY <1>5, <1>8 DEF PressKey, vars, table
<1> QED BY <1>2, <1>3, <1>4, <1>6, <1>7, <1>8 DEF Next

\* What is installed ...
Table ==
  /\ madt \in Madts
  /\ handlers \in [0..255 -> UacpiIrqs \cup {None, Keyboard}] /\ owned \subseteq UacpiIrqs
  /\ phase \notin {"acpi", "panic"} => handlers[KEYBOARD] = Keyboard

\* ... and the CPU, wherever the keyboard is.
Cpu ==
  /\ intf \in BOOLEAN
  /\ isr \in [vec : 0..255, at : {"none", "match", "eoi", "iretq", "panic"}, flag : BOOLEAN]
  /\ isr.at # "none" => ~intf
  /\ intf => phase \in {"on", "hcf"}
  /\ isr.flag => phase \in {"on", "hcf", "panic"}
  /\ isr.at \in {"match", "eoi", "iretq"} => phase # "panic"

\* Every step keeps what the slots of HANDLERS may hold.
LEMMA TableStep == ASSUME IInv, [Next]_vars PROVE Table'
<1>1. Table
  BY DEF IInv, Table
<1> DEFINE H == UacpiIrqs \cup {None, Keyboard}
<1>a. /\ handlers \in [0..255 -> H] /\ owned \subseteq UacpiIrqs
      /\ KEYBOARD \in 0..255 /\ Keyboard \in H /\ UacpiIrqs \cup {None} \subseteq H
  BY <1>1, Vectors DEF Table
<1> HIDE DEF H
<1>2. ASSUME NEW irq \in UacpiIrqs, Install(irq) \/ Uninstall(irq) PROVE Table'
  <2>1. VectorOf(irq) \in 0..255 /\ phase = "acpi" /\ UNCHANGED <<phase, madt>>
    BY SMTT(60), <1>2, Vectors, Constants DEF Install, Uninstall
  <2>2. owned' = owned \cup {irq} \/ owned' = owned \ {irq}
    BY <1>2 DEF Install, Uninstall
  <2>3. PICK h \in UacpiIrqs \cup {None} : handlers' = [handlers EXCEPT ![VectorOf(irq)] = h]
    BY <1>2 DEF Install, Uninstall, install_handler, clear_handler
  <2>4. handlers' \in [0..255 -> H]
    BY <1>a, <2>3
  <2>5. owned' \subseteq UacpiIrqs
    BY <1>a, <2>2
  <2> QED BY <1>1, <2>1, <2>4, <2>5 DEF Table, H
<1>3. CASE InstallKeyboard
  <2>1. /\ phase = "acpi" /\ phase' = "installed" /\ UNCHANGED <<madt, owned>>
        /\ handlers' = [handlers EXCEPT ![KEYBOARD] = Keyboard]
    BY <1>3 DEF InstallKeyboard, Step, install_handler
  <2>2. handlers' \in [0..255 -> H] /\ handlers'[KEYBOARD] = Keyboard
    BY <1>a, <2>1
  <2> QED BY <1>1, <2>1, <2>2 DEF Table, H
<1>4. ASSUME UNCHANGED <<madt, handlers, owned>>,
             phase' # phase => phase \notin {"acpi", "panic"} \/ phase' = "panic"
      PROVE  Table'
  BY <1>1, <1>4 DEF Table
<1>5. CASE SetupFails \/ EnablePin \/ irq_enable \/ Section \/ hcf
  BY <1>4, <1>5 DEF SetupFails, EnablePin, irq_enable, Section, hcf, Step, table
<1>6. CASE (\E vec \in Traps : Trap(vec)) \/ Isr
  BY <1>4, <1>6 DEF Trap, Isr, Deliver, IsrPrints, IsrPanics, IsrUnhandled, IsrUacpi,
       KeyboardReads, KeyboardEnds, iretq, table
<1>7. CASE PressKey \/ UNCHANGED vars
  BY <1>4, <1>7 DEF PressKey, vars, table
<1> QED BY <1>2, <1>3, <1>5, <1>6, <1>7 DEF Next

\* Every step keeps the flag clear while a gate's handler runs, as an interrupt gate does.
LEMMA CpuStep == ASSUME IInv, [Next]_vars PROVE Cpu'
<1> USE Constants
<1>1. Cpu
  BY DEF IInv, Cpu
<1>2. ASSUME UNCHANGED <<intf, isr, phase>> PROVE Cpu'
  BY <1>1, <1>2 DEF Cpu
<1>3. CASE (\E irq \in UacpiIrqs : Install(irq) \/ Uninstall(irq)) \/ PressKey \/ UNCHANGED vars
  BY <1>2, <1>3 DEF Install, Uninstall, PressKey, vars
<1>4. CASE InstallKeyboard \/ SetupFails \/ EnablePin \/ irq_enable \/ Section \/ hcf
  <2>1. /\ isr = NoIsr /\ isr' = NoIsr /\ phase' \in {"installed", "panic", "routed", "on", "hcf"}
        /\ intf' = intf \/ phase' = "on"
        /\ phase \in {"on", "hcf"} => phase' \in {"on", "hcf"}
    BY <1>4 DEF InstallKeyboard, SetupFails, EnablePin, irq_enable, Section, hcf, Step, InThread
  <2>2. intf' \in BOOLEAN
    BY <1>1, <1>4 DEF Cpu, InstallKeyboard, SetupFails, EnablePin, irq_enable, Section, hcf
  <2> QED BY SMTT(60), <1>1, <2>1, <2>2 DEF Cpu, NoIsr
<1>5. CASE (\E vec \in Traps : Trap(vec)) \/ (\E vec \in 0..255 : Deliver(vec))
  <2>1. \E vec \in 0..255 : Enter(vec) /\ UNCHANGED phase /\ (intf \/ phase # "panic")
    <3>1. ASSUME NEW vec \in Traps, Trap(vec)
          PROVE  vec \in 0..255 /\ Enter(vec) /\ UNCHANGED phase /\ phase # "panic"
      BY SMTT(60), <3>1 DEF Trap, InThread
    <3>2. ASSUME NEW vec \in 0..255, Deliver(vec) PROVE Enter(vec) /\ UNCHANGED phase /\ intf
      BY <3>2 DEF Deliver
    <3> QED BY SMTT(60), <1>5, <3>1, <3>2
  <2>2. PICK vec \in 0..255 : Enter(vec) /\ UNCHANGED phase /\ (intf \/ phase # "panic")
    BY <2>1
  <2>3. isr' \in [vec : 0..255, at : {"none", "match", "eoi", "iretq", "panic"}, flag : BOOLEAN]
        /\ isr'.flag = intf /\ intf' = FALSE
    BY <1>1, <2>2 DEF Cpu, Enter
  <2>4. phase # "panic"
    BY <1>1, <2>2 DEF Cpu
  <2> QED BY <1>1, <2>2, <2>3, <2>4 DEF Cpu
<1>6. CASE IsrPanics \/ IsrPrints \/ IsrUnhandled \/ IsrUacpi \/ KeyboardReads \/ KeyboardEnds
  <2>1. PICK l \in {"eoi", "iretq", "panic"} :
          /\ Goto(l) /\ isr.at \in {"match", "eoi"} /\ UNCHANGED intf
          /\ (l = "panic" /\ phase' = "panic") \/ (l # "panic" /\ UNCHANGED phase)
    BY <1>6 DEF IsrPanics, IsrPrints, IsrUnhandled, IsrUacpi, KeyboardReads, KeyboardEnds, Matching
  <2>2. /\ isr' \in [vec : 0..255, at : {"none", "match", "eoi", "iretq", "panic"}, flag : BOOLEAN]
        /\ isr'.at = l /\ isr'.flag = isr.flag
    BY SMTT(60), <1>1, <2>1 DEF Cpu, Goto
  <2>3. ~intf
    BY <1>1, <2>1 DEF Cpu
  <2> QED BY <1>1, <2>1, <2>2, <2>3 DEF Cpu
<1>7. CASE iretq
  BY SMTT(60), <1>1, <1>7 DEF Cpu, iretq, NoIsr
<1> QED BY <1>3, <1>4, <1>5, <1>6, <1>7 DEF Next, Isr

\* Where the keyboard is wired to pin 1, every step keeps its interrupt the only one the CPU takes.
LEMMA KeyboardStep == ASSUME IInv, OnPinOne, [Next]_vars PROVE KeyboardOnly'
<1>1. KeyboardOnly /\ madt \in Madts
  BY DEF IInv
<1>2. /\ isr.at \in {"none", "match", "eoi", "iretq", "panic"}
      /\ isr \in [vec : 0..255, at : {"none", "match", "eoi", "iretq", "panic"}, flag : BOOLEAN]
  BY DEF IInv
<1>3. ASSUME UNCHANGED <<apic, isr, unhandled>>, phase' # "acpi" \/ UNCHANGED phase
      PROVE  KeyboardOnly'
  BY <1>1, <1>3 DEF KeyboardOnly, apic
<1>4. CASE (\E irq \in UacpiIrqs : Install(irq) \/ Uninstall(irq)) \/ UNCHANGED vars
  BY <1>3, <1>4 DEF Install, Uninstall, vars, apic, history
<1>5. CASE InstallKeyboard \/ SetupFails \/ irq_enable \/ Section \/ hcf
  BY <1>3, <1>5 DEF InstallKeyboard, SetupFails, irq_enable, Section, hcf, Step, history
<1>6. CASE EnablePin
  <2>1. route' = {[pin |-> 1, vector |-> KEYBOARD]}
    BY <1>1, <1>6, PinOne DEF EnablePin
  <2>2. phase' = "routed" /\ UNCHANGED <<pending, service, isr, unhandled>>
    BY <1>6 DEF EnablePin, Step
  <2> QED BY <1>1, <2>1, <2>2 DEF KeyboardOnly
<1>7. ASSUME NEW vec \in 0..255, Deliver(vec) PROVE KeyboardOnly'
  <2>1. vec = KEYBOARD /\ route # {} /\ phase # "acpi"
    BY <1>1, <1>7 DEF Deliver, KeyboardOnly
  <2>2. service = {}
    BY <1>1, <1>7 DEF Deliver, KeyboardOnly, NoIsr
  <2>3. /\ service' = {KEYBOARD} /\ isr'.vec = KEYBOARD /\ isr'.at = "match"
        /\ pending' \subseteq pending /\ UNCHANGED <<route, phase, unhandled>>
    BY <1>7, <2>1, <2>2 DEF Deliver, Enter, history
  <2> QED BY <1>1, <2>1, <2>3 DEF KeyboardOnly
<1>8. ASSUME NEW vec \in Traps, Trap(vec) PROVE KeyboardOnly'
  <2>1. /\ isr = NoIsr /\ isr'.vec = vec /\ isr'.at = "match" /\ vec # KEYBOARD
        /\ UNCHANGED <<route, pending, service, phase, unhandled>>
    BY SMTT(60), <1>8, Constants DEF Trap, Enter, InThread, apic, history, KEYBOARD
  <2>2. service = {}
    BY <1>1, <2>1 DEF KeyboardOnly, NoIsr
  <2> QED BY <1>1, <2>1, <2>2 DEF KeyboardOnly
\* A handler that ends without the keyboard in service.
<1>9. ASSUME NEW l \in {"iretq", "panic"}, isr.at = "match", isr.vec # KEYBOARD, Goto(l),
             UNCHANGED <<apic, unhandled>>, phase' # "acpi" \/ UNCHANGED phase
      PROVE  KeyboardOnly'
  <2>1. isr'.at = l /\ isr'.vec = isr.vec
    BY <1>2, <1>9 DEF Goto
  <2> QED BY <1>1, <1>9, <2>1 DEF KeyboardOnly, apic
<1>10. CASE IsrPrints \/ IsrPanics
  BY SMTT(60), <1>9, <1>10 DEF IsrPrints, IsrPanics, Matching, KEYBOARD, SYSCALL, history
<1>11. isr.at = "match" /\ isr.vec = KEYBOARD => handlers[KEYBOARD] = Keyboard
  BY <1>1 DEF IInv, KeyboardOnly
<1>12. isr.at = "match" /\ isr.vec \in Dispatched => isr.vec = KEYBOARD
  BY <1>1, Vectors, Constants DEF KeyboardOnly
<1>13. CASE IsrUnhandled \/ IsrUacpi
  <2>1. /\ isr.at = "match" /\ isr.vec \in Dispatched
        /\ handlers[isr.vec] = None \/ handlers[isr.vec] \in UacpiIrqs
    BY <1>13 DEF IsrUnhandled, IsrUacpi, Matching, is_handler_installed
  <2>2. Keyboard # None /\ Keyboard \notin UacpiIrqs
    BY Vectors, Constants
  <2> QED BY <1>11, <1>12, <2>1, <2>2
<1>14. CASE KeyboardReads
  <2>1. isr.at = "match" /\ isr.vec \in Dispatched /\ Goto("eoi") /\ UNCHANGED <<apic, phase, unhandled>>
    BY <1>14 DEF KeyboardReads, Matching, history
  <2>2. isr'.at = "eoi" /\ isr'.vec = KEYBOARD /\ isr.vec = KEYBOARD
    BY <1>2, <1>12, <2>1 DEF Goto
  <2> QED BY <1>1, <2>1, <2>2 DEF KeyboardOnly, apic
<1>15. CASE KeyboardEnds
  <2>1. isr.at = "eoi" /\ isr'.at = "iretq" /\ UNCHANGED <<route, pending, phase, unhandled>>
    BY <1>2, <1>15 DEF KeyboardEnds, Goto, history
  <2>2. service = {KEYBOARD}
    BY <1>1, <2>1 DEF KeyboardOnly
  <2>3. Highest(service) = KEYBOARD
    BY SMTT(60), <2>2 DEF Highest, KEYBOARD
  <2>4. service' = {}
    BY <1>15, <2>2, <2>3 DEF KeyboardEnds
  <2> QED BY <1>1, <2>1, <2>4 DEF KeyboardOnly
<1>16. CASE iretq
  <2>1. isr.at = "iretq" /\ isr'.at = "none" /\ UNCHANGED <<apic, phase, unhandled>>
    BY <1>16 DEF iretq, NoIsr, history
  <2> QED BY <1>1, <2>1 DEF KeyboardOnly, apic
<1>17. ASSUME NEW gsi, Rises(gsi), UNCHANGED <<route, service, isr, phase, unhandled>>
       PROVE  KeyboardOnly'
  <2>1. /\ pending' \subseteq pending \cup {KEYBOARD} /\ (route = {} => pending' = pending)
    BY <1>1, <1>17, RisesTo DEF KeyboardOnly
  <2> QED BY <1>1, <1>17, <2>1 DEF KeyboardOnly
<1>18. CASE PressKey
  BY <1>17, <1>18 DEF PressKey, history
<1> QED
  BY <1>4, <1>5, <1>6, <1>7, <1>8, <1>10, <1>13, <1>14, <1>15, <1>16, <1>18 DEF Next, Isr

\* Every step preserves the inductive invariant.
LEMMA Inductive == IInv /\ [Next]_vars => IInv'
<1> SUFFICES ASSUME IInv, [Next]_vars PROVE IInv'
  OBVIOUS
<1>1. UNCHANGED madt
  BY DEF Next, vars, Install, Uninstall, InstallKeyboard, SetupFails, EnablePin, irq_enable, Section,
     hcf, Trap, Isr, Deliver, IsrPrints, IsrPanics, IsrUnhandled, IsrUacpi, KeyboardReads,
     KeyboardEnds, iretq, PressKey
<1>2. OnPinOne' => KeyboardOnly'
  BY <1>1, SamePin, KeyboardStep
<1>3. Table' /\ Cpu' /\ SlotsKept'
  BY TableStep, CpuStep, Slots
<1> QED BY <1>2, <1>3 DEF IInv, Table, Cpu

\* The inductive invariant holds when the IDT is loaded.
LEMMA Initially == Init => IInv
<1> SUFFICES ASSUME Init PROVE IInv
  OBVIOUS
<1>1. KeyboardOnly
  BY DEF Init, KeyboardOnly, NoIsr
<1>2. Table /\ SlotsKept
  BY DEF Init, Table, SlotsKept
<1>3. intf = FALSE /\ isr.vec = 0 /\ isr.at = "none" /\ isr.flag = FALSE /\ phase = "acpi"
  BY DEF Init, NoIsr
<1>4. isr \in [vec : 0..255, at : {"none", "match", "eoi", "iretq", "panic"}, flag : BOOLEAN]
  BY SMTT(60) DEF Init, NoIsr
<1>5. Cpu
  BY <1>3, <1>4 DEF Cpu
<1> QED BY <1>1, <1>2, <1>5 DEF IInv, Table, Cpu

(***************************************************************************)
(* A slot of HANDLERS that uACPI has installed stays its own until it      *)
(* uninstalls it or apic::init takes it for the keyboard, for all irqs.    *)
(***************************************************************************)
THEOREM SlotsAlwaysKept == Spec => []SlotsKept
<1>1. IInv => SlotsKept
  BY DEF IInv
<1> QED BY <1>1, Initially, Inductive, PTL DEF Spec

(***************************************************************************)
(* On any board with the keyboard on pin 1 of the first I/O APIC, no       *)
(* interrupt finds its slot empty, and none stays in service.              *)
(***************************************************************************)
THEOREM InterruptsAlwaysEnd == Spec => []InterruptsEnd
<1>1. IInv => InterruptsEnd
  BY SMTT(60) DEF IInv, InterruptsEnd, KeyboardOnly, NoIsr
<1> QED BY <1>1, Initially, Inductive, PTL DEF Spec

-----------------------------------------------------------------------------
(***************************************************************************)
(* Arithmetic of the configuration space.                                  *)
(***************************************************************************)
LEMMA Larger == ASSUME NEW a \in Nat, NEW b \in Nat, NEW n \in Nat, a <= b PROVE a * n <= b * n
<1>1. PICK c \in Nat : b = a + c
  <2>1. b - a \in Nat /\ b = a + (b - a)
    BY SMTT(60)
  <2> QED BY <2>1
<1>2. b * n = a * n + c * n /\ c * n \in Nat /\ a * n \in Nat
  BY SMTT(60), <1>1
<1> QED BY SMTT(60), <1>2

\* The space of more buses is no smaller.
LEMMA MoreBuses == ASSUME NEW m \in Nat, NEW n \in Nat, m <= n
                   PROVE  Buses(m) <= Buses(n) /\ Buses(m) \in Nat /\ Buses(n) \in Nat
<1>1. DEVICES \in Nat /\ FUNCTIONS \in Nat
  BY PciAssumption
<1>2. m * DEVICES <= n * DEVICES /\ m * DEVICES \in Nat /\ n * DEVICES \in Nat
  BY SMTT(60), <1>1, Larger
<1>3. m * DEVICES * FUNCTIONS \in Nat /\ n * DEVICES * FUNCTIONS \in Nat
  BY SMTT(60), <1>1, <1>2
<1> QED BY <1>1, <1>2, <1>3, Larger DEF Buses

\* The page of a function is one of its bus.
LEMMA InBus ==
  ASSUME NEW a \in [bus : Nat, device : 0..(DEVICES - 1), function : 0..(FUNCTIONS - 1)]
  PROVE  mmio_address(a) < Buses(a.bus + 1) /\ mmio_address(a) \in Nat
<1>1. PICK b \in Nat, d \in 0..(DEVICES - 1), f \in 0..(FUNCTIONS - 1) :
        a.bus = b /\ a.device = d /\ a.function = f
  OBVIOUS
<1>2. DEVICES \in Nat /\ FUNCTIONS \in Nat /\ d \in Nat /\ f \in Nat /\ d + 1 <= DEVICES /\ f < FUNCTIONS
  BY SMTT(60), PciAssumption
<1>3. PICK x \in Nat : x = b * DEVICES
  BY SMTT(60), <1>2
<1>4. (b + 1) * DEVICES = x + DEVICES
  BY SMTT(60), <1>2, <1>3
<1>5. (x + DEVICES) * FUNCTIONS = x * FUNCTIONS + DEVICES * FUNCTIONS
      /\ x * FUNCTIONS \in Nat /\ DEVICES * FUNCTIONS \in Nat
  BY SMTT(60), <1>2
<1>6. (d + 1) * FUNCTIONS <= DEVICES * FUNCTIONS
  BY SMTT(60), <1>2, Larger
<1>7. (d + 1) * FUNCTIONS = d * FUNCTIONS + FUNCTIONS /\ d * FUNCTIONS \in Nat
  BY SMTT(60), <1>2
<1>8. mmio_address(a) = x * FUNCTIONS + d * FUNCTIONS + f
  BY <1>1, <1>3 DEF mmio_address, Buses
<1>9. Buses(a.bus + 1) = x * FUNCTIONS + DEVICES * FUNCTIONS
  BY <1>1, <1>4, <1>5 DEF Buses
<1> QED BY SMTT(60), <1>2, <1>5, <1>6, <1>7, <1>8, <1>9

\* Rounding up to whole large pages loses no bus.
LEMMA RoundsUp ==
  ASSUME NEW n \in Nat, NEW k \in Nat \ {0}
  PROVE  ((n + k - 1) \div k) * k >= n /\ ((n + k - 1) \div k) * k \in Nat
<1>1. PICK m \in Nat : m = n + k - 1
  BY SMTT(60)
<1>2. m = k * (m \div k) + (m % k) /\ m % k \in 0..(k - 1) /\ m \div k \in Nat
  BY SMTT(60), <1>1
<1>3. PICK q \in Nat : q = m \div k
  BY <1>2
<1>4. k * q = q * k /\ q * k \in Nat
  BY SMTT(60)
<1> QED BY SMTT(60), <1>1, <1>2, <1>3, <1>4

-----------------------------------------------------------------------------
Address == [bus : Nat, device : 0..DEVICES, function : 0..(FUNCTIONS - 1)]

\* enum_bus runs for buses of the entry only, and they are all mapped.
PciInv ==
  /\ machine \in Machines
  /\ stack \in Seq(Address) /\ \A i \in 1..(Len(stack) - 1) : stack[i].device < DEVICES
  /\ state = "enum" /\ InEntry =>
       /\ \A i \in DOMAIN stack : stack[i].bus <= entry.end
       /\ window \in Nat /\ Buses(entry.end + 1) <= window

\* The MCFG entry the kernel maps has bus numbers.
LEMMA FirstEntry ==
  ASSUME machine \in Machines, machine.entries # <<>>
  PROVE  entry.start \in Nat /\ entry.end \in Nat
<1> DEFINE S == [start : Nat, end : Nat]
<1>1. machine.entries \in Seq(S)
  BY PciAssumption
<1> HIDE DEF S
<1>2. machine.entries[1] \in S /\ 1 \in DOMAIN machine.entries
  BY SMTT(60), <1>1
<1> QED BY <1>1, <1>2 DEF entry, S

\* An entry that starts at bus 0 is one of them.
LEMMA EntryType ==
  ASSUME machine \in Machines, InEntry
  PROVE  entry.start = 0 /\ entry.end \in Nat
  BY FirstEntry DEF InEntry

\* Where the loops go next.
LEMMA Moves ==
  ASSUME NEW a \in Address, a.device < DEVICES
  PROVE  /\ NextDevice(a) \in Address /\ NextDevice(a).bus = a.bus
         /\ NextFunction(a) \in Address /\ NextFunction(a).bus = a.bus
<1>1. DEVICES \in Nat \ {0} /\ FUNCTIONS \in Nat \ {0}
  BY PciAssumption
<1>2. PICK b \in Nat, d \in 0..DEVICES, f \in 0..(FUNCTIONS - 1) :
        a = [bus |-> b, device |-> d, function |-> f]
  BY DEF Address
<1>a. a.bus = b /\ a.device = d /\ a.function = f /\ d < DEVICES
  BY <1>2
<1>3. NextDevice(a) = [bus |-> b, device |-> d + 1, function |-> 0] /\ d < DEVICES /\ a.bus = b
      /\ a.function = f
  BY <1>a DEF NextDevice
<1>4. d + 1 \in 0..DEVICES /\ 0 \in 0..(FUNCTIONS - 1)
  BY SMTT(60), <1>1, <1>3
<1>5. NextDevice(a) \in Address /\ NextDevice(a).bus = a.bus
  BY SMTT(60), <1>3, <1>4 DEF Address
<1>6. CASE f + 1 < FUNCTIONS
  <2>1. NextFunction(a) = [bus |-> b, device |-> d, function |-> f + 1]
    BY <1>2, <1>3, <1>6 DEF NextFunction
  <2>2. f + 1 \in 0..(FUNCTIONS - 1)
    BY SMTT(60), <1>1, <1>6
  <2> QED BY SMTT(60), <1>3, <1>5, <2>1, <2>2 DEF Address
<1>7. CASE ~(f + 1 < FUNCTIONS)
  BY <1>3, <1>5, <1>7 DEF NextFunction
<1> QED BY <1>6, <1>7

\* A bridge leads to a bus of the entry.
LEMMA Behind ==
  ASSUME machine \in Machines, NEW a, Present(a), Says(a).secondary # NoBus
  PROVE  Says(a).secondary \in Nat /\ (InEntry => Says(a).secondary <= entry.end)
<1>1. PICK f \in DOMAIN Config : Says(a) = Config[f]
  BY DEF Present, Says, At
<1>2. Config[f] \in [multi : BOOLEAN, secondary : Nat \cup {NoBus}]
  BY PciAssumption DEF Config
<1> QED BY <1>1, <1>2 DEF InEntry

\* The innermost call moves on, in its bus.
LEMMA Advance ==
  ASSUME PciInv, Reads, NEW b \in Address, b.bus = Top.bus, Replace(b), UNCHANGED <<machine, state, window>>
  PROVE  PciInv'
<1>1. stack \in Seq(Address) /\ Len(stack) \in DOMAIN stack
  BY SMTT(60) DEF PciInv, Reads
<1>2. /\ stack' \in Seq(Address) /\ DOMAIN stack' = DOMAIN stack
      /\ \A i \in DOMAIN stack : stack'[i].bus = stack[i].bus
      /\ Len(stack') = Len(stack) /\ \A i \in 1..(Len(stack) - 1) : stack'[i] = stack[i]
  BY SMTT(60), <1>1 DEF Replace, Top
<1> QED BY <1>2 DEF PciInv, InEntry, entry, Config

\* Every step preserves the inductive invariant.
LEMMA PciInductive == PciInv /\ [PciNext]_pci_vars => PciInv'
<1> SUFFICES ASSUME PciInv, [PciNext]_pci_vars PROVE PciInv'
  OBVIOUS
<1> USE DEF InEntry, entry, Config
<1>1. ASSUME Reads PROVE Top \in Address /\ Top.device < DEVICES
  <2>1. stack \in Seq(Address) /\ stack # <<>>
    BY <1>1 DEF PciInv, Reads
  <2>2. stack[Len(stack)] \in Address
    BY SMTT(60), <2>1
  <2> QED BY <1>1, <2>2 DEF Top, Reads
<1>2. CASE InitFails \/ BusCountPanics \/ Fault \/ Overflow \/ UNCHANGED pci_vars
  BY <1>2 DEF PciInv, InitFails, BusCountPanics, Fault, Overflow, pci_vars
<1>3. CASE MapWindow
  <2>1. /\ stack' = <<Start(entry.start)>> /\ UNCHANGED machine
        /\ machine.entries # <<>> /\ entry.start <= entry.end
        /\ window' = Buses(((entry.end - entry.start + 1 + LARGE - 1) \div LARGE) * LARGE)
    BY <1>3 DEF MapWindow
  <2>2. entry.start \in Nat /\ entry.end \in Nat /\ entry.start <= entry.end
    BY <2>1, FirstEntry DEF PciInv
  <2>3. Start(entry.start) \in Address /\ Start(entry.start).bus = entry.start
    BY SMTT(60), <2>2, PciAssumption DEF Start, Address
  <2>4. stack' \in Seq(Address) /\ \A i \in DOMAIN stack' : stack'[i].bus = entry.start
    BY SMTT(60), <2>1, <2>3
  <2>5. ASSUME InEntry PROVE window' \in Nat /\ Buses(entry.end + 1) <= window'
    <3>a. entry.start = 0
      BY <2>5
    <3>1. PICK n \in Nat : n = entry.end + 1 /\ n = entry.end - entry.start + 1
      <4> HIDE DEF entry
      <4> QED BY SMTT(60), <2>2, <3>a
    <3>2. LARGE \in Nat \ {0}
      BY PciAssumption
    <3>3. PICK m \in Nat : m = ((n + LARGE - 1) \div LARGE) * LARGE /\ m >= n
      BY <3>2, RoundsUp
    <3>4. window' = Buses(m)
      BY <2>1, <3>1, <3>3
    <3> QED BY <3>1, <3>3, <3>4, MoreBuses
  <2>6. InEntry => entry.start <= entry.end
    BY <2>2
  <2>7. Len(stack') = 1
    BY <2>1
  <2> QED BY SMTT(60), <2>1, <2>4, <2>5, <2>6, <2>7 DEF PciInv
<1>4. CASE NotPresent
  <2>1. PICK b : /\ Replace(b) /\ b = IF Top.function = 0 THEN NextDevice(Top) ELSE NextFunction(Top)
                 /\ Reads /\ UNCHANGED <<machine, state, window>>
    BY <1>4 DEF NotPresent
  <2>2. b \in Address /\ b.bus = Top.bus
    BY <1>1, <2>1, Moves
  <2> QED BY <2>1, <2>2, Advance
<1>5. CASE Found
  <2>1. PICK b : Replace(b) /\ b = After(Top) /\ Reads /\ UNCHANGED <<machine, state, window>>
    BY <1>5 DEF Found
  <2>2. b \in Address /\ b.bus = Top.bus
    BY <1>1, <2>1, Moves DEF After
  <2> QED BY <2>1, <2>2, Advance
<1>6. CASE FoundBridge
  <2>1. /\ stack' = Append(stack, Start(Says(Top).secondary)) /\ UNCHANGED <<machine, state, window>>
        /\ Present(Top) /\ Says(Top).secondary # NoBus /\ Top.device < DEVICES
    BY <1>6 DEF FoundBridge, Reads
  <2>2. PICK s \in Nat : s = Says(Top).secondary /\ (InEntry => s <= entry.end)
    BY <2>1, Behind DEF PciInv
  <2>3. Start(s) \in Address /\ Start(s).bus = s
    BY SMTT(60), PciAssumption DEF Start, Address
  <2>4. stack \in Seq(Address) /\ stack' = Append(stack, Start(s))
    BY <2>1, <2>2 DEF PciInv
  <2>5. stack' \in Seq(Address) /\ \A i \in DOMAIN stack' : stack'[i] = Start(s) \/ (i \in DOMAIN stack /\ stack'[i] = stack[i])
    BY SMTT(60), <2>3, <2>4
  <2>6. ASSUME NEW i \in 1..(Len(stack') - 1) PROVE stack'[i].device < DEVICES
    <3>1. i \in 1..Len(stack) /\ stack'[i] = stack[i]
      BY SMTT(60), <2>4
    <3> QED BY SMTT(60), <2>1, <3>1 DEF PciInv, Top
  <2> QED BY <2>1, <2>2, <2>3, <2>5, <2>6 DEF PciInv
<1>7. CASE BusDone
  <2> DEFINE n == Len(stack) - 1
             short == SubSeq(stack, 1, n)
  <2>1. /\ stack' = [short EXCEPT ![n] = After(stack[n])] /\ UNCHANGED <<machine, state, window>>
        /\ Len(stack) > 1
    BY <1>7 DEF BusDone
  <2>2. /\ stack \in Seq(Address) /\ n \in 1..Len(stack) /\ short \in Seq(Address)
        /\ Len(short) = n /\ \A i \in 1..n : short[i] = stack[i]
    BY SMTT(60), <2>1 DEF PciInv
  <2>3. stack[n] \in Address
    BY SMTT(60), <2>2
  <2>a. stack[n].device < DEVICES
    BY SMTT(60), <2>2 DEF PciInv
  <2>4. After(stack[n]) \in Address /\ After(stack[n]).bus = stack[n].bus
    BY <2>3, <2>a, Moves DEF After
  <2>b. PICK a \in Address : a = After(stack[n]) /\ a.bus = stack[n].bus
    BY <2>4
  <2>c. PICK k \in Nat : k = n /\ k \in 1..Len(stack)
    <3>1. Len(stack) \in Nat /\ n \in Nat
      BY SMTT(60), <2>1, <2>2
    <3> QED BY <2>2, <3>1
  <2>d. PICK t \in Seq(Address) : t = short /\ Len(t) = k /\ \A i \in 1..k : t[i] = stack[i]
    BY <2>2, <2>c
  <2>e. stack' = [t EXCEPT ![k] = a]
    BY <2>1, <2>b, <2>c, <2>d
  <2>f. /\ stack' \in Seq(Address) /\ Len(stack') = k /\ stack'[k] = a
        /\ \A i \in 1..(k - 1) : stack'[i] = t[i]
    <3>1. k \in 1..Len(t)
      BY SMTT(60), <2>c, <2>d
    <3>2. stack' \in Seq(Address)
      BY SMTT(60), <2>d, <2>e, <3>1
    <3>3. DOMAIN stack' = 1..k /\ k \in Nat
      BY SMTT(60), <2>d, <2>e
    <3>4. Len(stack') = k
      BY SMTT(60), <3>2, <3>3
    <3>5. k \in DOMAIN t /\ stack'[k] = a
      BY SMTT(60), <2>d, <2>e, <3>1
    <3>6. \A i \in 1..(k - 1) : i \in DOMAIN t /\ i # k
      BY SMTT(60), <2>c, <2>d
    <3>7. \A i \in 1..(k - 1) : stack'[i] = t[i]
      BY <2>e, <3>6
    <3> QED BY <3>2, <3>4, <3>5, <3>7
  <2>5. stack' \in Seq(Address) /\ \A i \in DOMAIN stack' : i \in DOMAIN stack /\ stack'[i].bus = stack[i].bus
    <3>1. DOMAIN stack' = 1..k /\ DOMAIN stack = 1..Len(stack)
      BY SMTT(60), <2>2, <2>f
    <3>2. \A i \in 1..k : i \in 1..Len(stack) /\ (i = k \/ i \in 1..(k - 1))
      BY SMTT(60), <2>c
    <3>3. stack'[k].bus = stack[k].bus
      BY <2>b, <2>c, <2>f
    <3>4. \A i \in 1..(k - 1) : i \in 1..k
      BY SMTT(60), <2>c
    <3>5. \A i \in 1..(k - 1) : stack'[i] = stack[i]
      BY <2>d, <2>f, <3>4
    <3> QED BY <2>f, <3>1, <3>2, <3>3, <3>5
  <2>6. \A i \in 1..(Len(stack') - 1) : i \in 1..(Len(stack) - 1) /\ stack'[i] = stack[i]
    <3>1. \A i \in 1..(k - 1) : i \in 1..k /\ i \in 1..(Len(stack) - 1)
      BY SMTT(60), <2>2, <2>c
    <3> QED BY <2>d, <2>f, <3>1
  <2> QED BY <2>1, <2>5, <2>6 DEF PciInv
<1>8. CASE Done
  BY SMTT(60), <1>8 DEF Done, PciInv
<1> QED BY <1>2, <1>3, <1>4, <1>5, <1>6, <1>7, <1>8 DEF PciNext, Walk

(***************************************************************************)
(* pci::init reads only what it has mapped, on any machine whose table     *)
(* starts at bus 0 and holds the buses behind all its bridges, trees or    *)
(* not.                                                                    *)
(***************************************************************************)
THEOREM NeverOutside == PciSpec => []InsideWindow
<1>1. PciInit => PciInv
  BY SMTT(60) DEF PciInit, PciInv
<1>2. PciInv => InsideWindow
  <2> SUFFICES ASSUME PciInv, InEntry, Reads PROVE Mapped(Top)
    BY DEF InsideWindow
  <2>1. stack \in Seq(Address) /\ stack # <<>> /\ state = "enum" /\ Top.device < DEVICES
    BY DEF PciInv, Reads
  <2>2. Len(stack) \in DOMAIN stack /\ Top \in Address
    BY SMTT(60), <2>1 DEF Top
  <2>3. Top.bus <= entry.end /\ window \in Nat /\ Buses(entry.end + 1) <= window
    BY <2>1, <2>2 DEF PciInv, Top
  <2>4. Top \in [bus : Nat, device : 0..(DEVICES - 1), function : 0..(FUNCTIONS - 1)]
    BY SMTT(60), <2>1, <2>2, PciAssumption DEF Address
  <2>5. PICK b \in Nat, e \in Nat : b = Top.bus /\ e = entry.end /\ b + 1 <= e + 1
    BY SMTT(60), <2>3, <2>4, EntryType DEF PciInv
  <2>6. Buses(b + 1) <= Buses(e + 1) /\ Buses(b + 1) \in Nat /\ Buses(e + 1) \in Nat
    BY SMTT(60), <2>5, MoreBuses
  <2>7. mmio_address(Top) < Buses(b + 1) /\ mmio_address(Top) \in Nat
    BY <2>4, <2>5, InBus
  <2> QED BY SMTT(60), <2>3, <2>5, <2>6, <2>7 DEF Mapped
<1> QED BY <1>1, <1>2, PciInductive, PTL DEF PciSpec

-----------------------------------------------------------------------------
(***************************************************************************)
(* The walk, wherever the bridges lead: what has been found, what is ahead *)
(* of the calls of enum_bus that run, and what has been passed.            *)
(***************************************************************************)
Function == [bus : Nat, device : 0..(DEVICES - 1), function : 0..(FUNCTIONS - 1)]
Zero(a) == [bus |-> a.bus, device |-> a.device, function |-> 0]

\* The loops of enum_bus come to a before p.
Before(p, a) == a.device < p.device \/ (a.device = p.device /\ a.function < p.function)

\* enum_device goes past function 0 of a multifunction device only.
Entered(p) == p.function # 0 => Zero(p) \in DOMAIN Config /\ Config[Zero(p)].multi

\* The functions found.
Seen == {funcs[i] : i \in DOMAIN funcs}

\* The buses enum_bus was called for.
BusesEntered(F) == {entry.start} \cup {Config[a].secondary : a \in {f \in F : Config[f].secondary # NoBus}}

\* What was found is there, and so are the buses the calls of enum_bus walk.
Sound(st, F) ==
  /\ \A a \in F : Visible(a) /\ a.bus \in BusesFrom(entry.start)
  /\ \A i \in DOMAIN st : Entered(st[i]) /\ st[i].bus \in BusesFrom(entry.start)
  /\ \A i \in 1..(Len(st) - 1) : st[i] \in F

\* What is visible on a bus that was entered is found or ahead of a call of enum_bus.
Complete(st, F) ==
  \A a \in DOMAIN Config : Visible(a) /\ a.bus \in BusesEntered(F) =>
    a \in F \/ \E i \in DOMAIN st : st[i].bus = a.bus /\ ~Before(st[i], a)

\* On a tree a bus is walked once: what was found is behind the call that walks
\* its bus, there is one such call, and it is due to a bridge that was found.
Single(st, F) ==
  /\ \A a \in F : a.bus \in BusesEntered(F)
  /\ \A i \in DOMAIN st : st[i].bus \in BusesEntered(F)
  /\ \A i \in DOMAIN st : \A a \in F : a.bus = st[i].bus =>
       Before(st[i], a) \/ (i < Len(st) /\ a = st[i])
  /\ \A i, j \in DOMAIN st : st[i].bus = st[j].bus => i = j

Injective(s) == \A i, j \in DOMAIN s : s[i] = s[j] => i = j

\* The invariant of the walk.
WalkInv ==
  /\ PciInv /\ funcs \in Seq(Function)
  /\ state = "init" => stack = <<>> /\ funcs = <<>>
  /\ state = "done" => stack = <<>>
  /\ Sound(stack, Seen)
  /\ state \in {"enum", "done"} => Complete(stack, Seen)
  /\ Tree => Single(stack, Seen) /\ Injective(funcs)

\* Quotient and remainder of a number put together from them.
LEMMA PutTogether ==
  ASSUME NEW L \in Nat \ {0}, NEW f \in Nat, NEW r \in Nat, r < L
  PROVE  (f * L + r) \div L = f /\ (f * L + r) % L = r
<1>1. PICK n \in Nat : n = f * L + r
  BY SMTT(60)
<1>2. n \div L \in Int /\ n = L * (n \div L) + (n % L) /\ n % L \in 0..(L - 1)
  BY SMTT(60)
<1>3. PICK d \in Int : d = n \div L
  BY <1>2
<1>4. PICK m \in Int : m = n % L /\ 0 <= m /\ m < L
  BY SMTT(60), <1>2
<1>5. f * L + r = L * d + m
  BY <1>1, <1>2, <1>3, <1>4
<1>6. ASSUME f < d PROVE FALSE
  <2>1. (f + 1) * L <= d * L /\ (f + 1) * L = f * L + L
    BY SMTT(60), <1>6
  <2> QED BY SMTT(60), <1>4, <1>5, <2>1
<1>7. ASSUME d < f PROVE FALSE
  <2>1. (d + 1) * L <= f * L /\ (d + 1) * L = d * L + L
    BY SMTT(60), <1>7
  <2> QED BY SMTT(60), <1>4, <1>5, <2>1
<1>8. d = f
  BY SMTT(60), <1>6, <1>7
<1>9. m = r
  BY SMTT(60), <1>4, <1>5, <1>8
<1> QED BY <1>1, <1>3, <1>4, <1>8, <1>9

\* The page enum_bus reads for a function is that of the function.
LEMMA OwnPage ==
  ASSUME machine \in Machines, NEW a \in Function
  PROVE  /\ Present(a) <=> a \in DOMAIN Config
         /\ a \in DOMAIN Config => Says(a) = Config[a]
<1>1. PICK b \in Nat, d \in 0..(DEVICES - 1), f \in 0..(FUNCTIONS - 1) :
        a = [bus |-> b, device |-> d, function |-> f]
  BY DEF Function
<1>2. DEVICES \in Nat \ {0} /\ FUNCTIONS \in Nat \ {0} /\ d \in Nat /\ d < DEVICES /\ f \in Nat /\ f < FUNCTIONS
  BY SMTT(60), PciAssumption
<1>3. PICK x \in Nat : x = b * DEVICES + d
  BY SMTT(60), <1>2
<1>4. x \div DEVICES = b /\ x % DEVICES = d
  BY <1>2, <1>3, PutTogether
<1>5. PICK page \in Nat : page = x * FUNCTIONS + f
  BY SMTT(60), <1>2
<1>6. page \div FUNCTIONS = x /\ page % FUNCTIONS = f
  BY <1>2, <1>5, PutTogether
<1>7. PICK size \in Nat \ {0} : size = DEVICES * FUNCTIONS
  BY SMTT(60), <1>2
<1>8. PICK r \in Nat : r = d * FUNCTIONS + f /\ r < size
  <2>1. (d + 1) * FUNCTIONS <= DEVICES * FUNCTIONS
    BY SMTT(60), <1>2, Larger
  <2>2. (d + 1) * FUNCTIONS = d * FUNCTIONS + FUNCTIONS /\ d * FUNCTIONS \in Nat
    BY SMTT(60), <1>2
  <2> QED BY SMTT(60), <1>2, <1>7, <2>1, <2>2
<1>9. page = b * size + r
  <2>1. x * FUNCTIONS = (b * DEVICES) * FUNCTIONS + d * FUNCTIONS
    BY SMTT(60), <1>2, <1>3
  <2>2. (b * DEVICES) * FUNCTIONS = b * (DEVICES * FUNCTIONS)
    BY SMTT(60), <1>2
  <2>3. d * FUNCTIONS \in Nat /\ b * size \in Nat
    BY SMTT(60), <1>2
  <2> QED BY SMTT(60), <1>2, <1>5, <1>7, <1>8, <2>1, <2>2, <2>3
<1>10. page \div size = b
  BY <1>8, <1>9, PutTogether
<1>11. mmio_address(a) = page /\ Buses(1) = size
  <2>1. mmio_address(a) = b * DEVICES * FUNCTIONS + d * FUNCTIONS + f
    BY <1>1 DEF mmio_address, Buses
  <2>2. Buses(1) = size
    BY SMTT(60), <1>2, <1>7 DEF Buses
  <2>3. x * FUNCTIONS = b * DEVICES * FUNCTIONS + d * FUNCTIONS
    BY SMTT(60), <1>2, <1>3
  <2> QED BY <1>5, <2>1, <2>2, <2>3
<1>12. DOMAIN Config \subseteq Function
  BY PciAssumption DEF Config, Function
<1>13. \A c \in DOMAIN Config : c \in At(page) <=> c = a
  <2> SUFFICES ASSUME NEW c \in DOMAIN Config PROVE c \in At(page) <=> c = a
    OBVIOUS
  <2>1. PICK cb \in Nat, cd \in 0..(DEVICES - 1), cf \in 0..(FUNCTIONS - 1) :
          c = [bus |-> cb, device |-> cd, function |-> cf]
    BY <1>12 DEF Function
  <2>2. c \in At(page) <=> cb = b /\ cd = d /\ cf = f
    BY <1>4, <1>6, <1>10, <1>11, <2>1 DEF At
  <2> QED BY <1>1, <2>1, <2>2
<1>14. At(page) \subseteq DOMAIN Config
  BY DEF At
<1>15. ASSUME a \in DOMAIN Config PROVE At(page) = {a}
  BY <1>13, <1>14, <1>15
<1>16. a \in DOMAIN Config => (CHOOSE c \in At(page) : TRUE) = a
  BY <1>15
<1> QED BY <1>11, <1>13, <1>14, <1>16 DEF Present, Says

\* The positions of the loops, and of the functions.
LEMMA Places ==
  ASSUME NEW a \in Address, a.device < DEVICES
  PROVE  a \in Function
<1>1. DEVICES \in Nat \ {0} /\ FUNCTIONS \in Nat \ {0}
  BY PciAssumption
<1> QED BY SMTT(60), <1>1 DEF Address, Function

\* The order in which the loops come to the functions of a bus.
LEMMA Orders ==
  ASSUME NEW p \in Function, NEW a \in Function, a.bus = p.bus
  PROVE  /\ Before(NextFunction(p), a) <=> Before(p, a) \/ a = p
         /\ Before(NextDevice(p), a) <=> Before(p, a) \/ a.device = p.device
         /\ ~Before(p, p)
<1>1. DEVICES \in Nat \ {0} /\ FUNCTIONS \in Nat \ {0}
  BY PciAssumption
<1>2. PICK b \in Nat, d \in 0..(DEVICES - 1), f \in 0..(FUNCTIONS - 1) :
        p = [bus |-> b, device |-> d, function |-> f]
  BY DEF Function
<1>3. PICK e \in 0..(DEVICES - 1), g \in 0..(FUNCTIONS - 1) :
        a = [bus |-> b, device |-> e, function |-> g]
  BY <1>2 DEF Function
<1>4. Before(p, a) <=> e < d \/ (e = d /\ g < f)
  BY <1>2, <1>3 DEF Before
<1>5. a = p <=> e = d /\ g = f
  BY <1>2, <1>3
<1>6. Before(NextDevice(p), a) <=> e < d + 1 \/ (e = d + 1 /\ g < 0)
  BY <1>2, <1>3 DEF Before, NextDevice
<1>7. CASE f + 1 < FUNCTIONS
  <2>1. NextFunction(p) = [bus |-> b, device |-> d, function |-> f + 1]
    BY <1>2, <1>7 DEF NextFunction
  <2>2. Before(NextFunction(p), a) <=> e < d \/ (e = d /\ g < f + 1)
    BY SMTT(60), <1>3, <2>1 DEF Before
  <2> QED BY SMTT(60), <1>1, <1>2, <1>3, <1>4, <1>5, <1>6, <2>2 DEF Before
<1>8. CASE ~(f + 1 < FUNCTIONS)
  <2>1. NextFunction(p) = NextDevice(p)
    BY <1>2, <1>8 DEF NextFunction
  <2> QED BY SMTT(60), <1>1, <1>2, <1>3, <1>4, <1>5, <1>6, <1>8, <2>1 DEF Before
<1> QED BY <1>7, <1>8

\* The rest of a device whose function 0 is not there, or is its only one, is
\* not visible.
LEMMA Hidden ==
  ASSUME machine \in Machines, NEW a, Visible(a)
  PROVE  /\ a \in Function /\ a \in DOMAIN Config /\ Zero(a) \in DOMAIN Config
         /\ a # Zero(a) => Config[Zero(a)].multi
<1>1. a \in DOMAIN Config /\ DOMAIN Config \subseteq Function
  BY PciAssumption DEF Visible, Config, Function
<1>2. Zero(a) = [a EXCEPT !.function = 0]
  BY SMTT(60), <1>1 DEF Zero, Function
<1> QED BY <1>1, <1>2 DEF Visible

\* The loops go from p to q: past p, and past nothing else that is visible.
Passes(p, q) ==
  /\ q \in Address /\ q.bus = p.bus /\ Entered(q)
  /\ \A a \in Function : a.bus = p.bus => (Before(p, a) \/ a = p => Before(q, a))
  /\ \A a \in DOMAIN Config : Visible(a) /\ a.bus = p.bus /\ Before(q, a) => Before(p, a) \/ a = p

\* What enum_device does next passes the function it is at, and nothing visible.
LEMMA Steps ==
  ASSUME machine \in Machines, NEW p \in Function, Entered(p)
  PROVE  /\ p \in DOMAIN Config => Visible(p) /\ Passes(p, After(p))
         /\ p \notin DOMAIN Config =>
              Passes(p, IF p.function = 0 THEN NextDevice(p) ELSE NextFunction(p))
<1> DEFINE D == NextDevice(p)
           N == NextFunction(p)
<1>1. DEVICES \in Nat \ {0} /\ FUNCTIONS \in Nat \ {0}
  BY PciAssumption
<1>2. PICK b \in Nat, d \in 0..(DEVICES - 1), f \in 0..(FUNCTIONS - 1) :
        /\ p = [bus |-> b, device |-> d, function |-> f]
        /\ p.bus = b /\ p.device = d /\ p.function = f
  BY DEF Function
<1>3. p \in Address /\ p.device < DEVICES
  BY SMTT(60), <1>1, <1>2 DEF Address
<1>4. D \in Address /\ D.bus = p.bus /\ N \in Address /\ N.bus = p.bus
  BY <1>3, Moves
<1>5. Zero(p) = [p EXCEPT !.function = 0] /\ Zero(p) = [bus |-> b, device |-> d, function |-> 0]
  BY SMTT(60), <1>2 DEF Zero
<1>6. p = Zero(p) <=> f = 0
  BY <1>2, <1>5
<1>7. Entered(D)
  BY DEF Entered, NextDevice
<1>8. N.function # 0 => Zero(N) = Zero(p)
  <2>1. CASE f + 1 < FUNCTIONS
    BY <1>2, <2>1 DEF NextFunction, Zero
  <2>2. CASE ~(f + 1 < FUNCTIONS)
    BY <1>2, <2>2 DEF NextFunction, NextDevice
  <2> QED BY <2>1, <2>2
<1>9. \A a \in Function : a.bus = p.bus => (Before(p, a) \/ a = p => Before(D, a) /\ Before(N, a))
  BY Orders
<1>10. \A a \in DOMAIN Config : Visible(a) /\ a.bus = p.bus /\ Before(N, a) => Before(p, a) \/ a = p
  BY Hidden, Orders
<1>11. ASSUME NEW a \in DOMAIN Config, Visible(a), a.bus = p.bus, Before(D, a), ~Before(p, a), a # p, f = 0
       PROVE  p \in DOMAIN Config /\ Config[p].multi
  <2>1. a \in Function /\ Zero(a) \in DOMAIN Config /\ (a # Zero(a) => Config[Zero(a)].multi)
    BY <1>11, Hidden
  <2>2. a.device = p.device
    BY <1>11, <2>1, Orders
  <2>3. Zero(a) = p
    BY <1>2, <1>5, <1>11, <2>2 DEF Zero
  <2> QED BY <1>11, <2>1, <2>3
<1>12. (p \in DOMAIN Config /\ (f = 0 => Config[p].multi)) => Entered(N)
  BY <1>2, <1>6, <1>8 DEF Entered
<1>13. f # 0 => Entered(N)
  BY <1>2, <1>8 DEF Entered
<1>14. p \in DOMAIN Config => Visible(p)
  BY <1>2, <1>5, <1>6 DEF Entered, Visible
<1>15. p \in DOMAIN Config => After(p) = IF f = 0 /\ ~Config[p].multi THEN D ELSE N
  BY <1>2, OwnPage DEF After
<1>16. (p \notin DOMAIN Config \/ ~Config[p].multi) /\ f = 0 => Passes(p, D)
  BY <1>4, <1>7, <1>9, <1>11 DEF Passes
<1>17. Entered(N) => Passes(p, N)
  BY <1>4, <1>9, <1>10 DEF Passes
<1> QED BY <1>2, <1>12, <1>13, <1>14, <1>15, <1>16, <1>17

\* B holds what is behind the visible bridges of its buses.
Keeps(B) ==
  \A a \in DOMAIN Config :
    Visible(a) /\ a.bus \in B /\ Config[a].secondary # NoBus => Config[a].secondary \in B

\* BusesFrom is the smallest such set with the first bus.
LEMMA Closed ==
  ASSUME NEW bus
  PROVE  /\ bus \in BusesFrom(bus) /\ Keeps(BusesFrom(bus))
         /\ \A B \in SUBSET ({bus} \cup {Config[a].secondary : a \in DOMAIN Config}) :
              bus \in B /\ Keeps(B) => BusesFrom(bus) \subseteq B
<1> DEFINE all == {bus} \cup {Config[a].secondary : a \in DOMAIN Config}
           closed == {B \in SUBSET all : bus \in B /\ Keeps(B)}
<1>1. BusesFrom(bus) = {b \in all : \A B \in closed : b \in B}
  BY DEF BusesFrom, Keeps
<1>2. \A B : B \in closed <=> B \subseteq all /\ bus \in B /\ Keeps(B)
  OBVIOUS
<1>3. bus \in all /\ \A a \in DOMAIN Config : Config[a].secondary \in all
  OBVIOUS
<1> HIDE DEF closed, all
<1>4. \A b : b \in BusesFrom(bus) <=> b \in all /\ \A B \in closed : b \in B
  BY <1>1
<1>5. bus \in BusesFrom(bus)
  BY <1>2, <1>3, <1>4
<1>6. Keeps(BusesFrom(bus))
  BY <1>2, <1>3, <1>4 DEF Keeps
<1>7. \A B \in SUBSET all : bus \in B /\ Keeps(B) => BusesFrom(bus) \subseteq B
  BY <1>2, <1>4
<1> QED BY <1>5, <1>6, <1>7 DEF all

(***************************************************************************)
(* The walk goes on at p = st[k], of which the calls it made have returned *)
(* or which is the innermost: it moves to q, and may have found p.         *)
(***************************************************************************)
Onward(st, t, F, G, k, q) ==
  /\ st \in Seq(Address) /\ k \in DOMAIN st /\ t \in Seq(Address)
  /\ Len(t) = k /\ t[k] = q /\ \A i \in 1..(k - 1) : t[i] = st[i]
  /\ \A i \in DOMAIN st : i > k => st[i].device = DEVICES
  /\ st[k] \in Function /\ Passes(st[k], q)
  /\ F \subseteq Function /\ F \subseteq DOMAIN Config
  /\ \/ G = F /\ (Visible(st[k]) => st[k] \in F)
     \/ G = F \cup {st[k]} /\ k = Len(st) /\ Visible(st[k]) /\ Config[st[k]].secondary = NoBus

\* t has the first k calls of st, the last of them moved to q.
Follows(st, t, k, q) ==
  /\ DOMAIN t = 1..k /\ k \in DOMAIN t /\ Len(t) = k /\ k <= Len(st)
  /\ \A i \in DOMAIN t : i \in DOMAIN st /\ (i # k => t[i] = st[i] /\ i \in 1..(Len(st) - 1) /\ i < k)
  /\ \A i \in DOMAIN t : t[i].bus = st[i].bus
  /\ \A i \in DOMAIN st : i \in DOMAIN t \/ st[i].device = DEVICES
  /\ t[k] = q /\ Passes(st[k], q) /\ st[k] \in Function /\ k \in DOMAIN st

\* The calls of enum_bus after such a move.
LEMMA OnwardIndices ==
  ASSUME NEW st, NEW t, NEW F, NEW G, NEW k, NEW q, Onward(st, t, F, G, k, q)
  PROVE  Follows(st, t, k, q)
  BY SMTT(60) DEF Onward, Passes, Follows

\* It finds only what is there.
LEMMA OnwardSound ==
  ASSUME machine \in Machines, NEW st, NEW t, NEW F, NEW G, NEW k, NEW q, Onward(st, t, F, G, k, q), Sound(st, F)
  PROVE  Sound(t, G)
<1>a. Follows(st, t, k, q)
  BY OnwardIndices
<1>1. \A a \in G : Visible(a) /\ a.bus \in BusesFrom(entry.start)
  BY DEF Onward, Sound
<1>2. ASSUME NEW i \in DOMAIN t PROVE Entered(t[i]) /\ t[i].bus \in BusesFrom(entry.start)
  BY <1>a DEF Passes, Sound, Follows
<1>3. ASSUME NEW i \in 1..(Len(t) - 1) PROVE t[i] \in G
  <2>1. i \in DOMAIN t /\ i # k
    <3>1. DOMAIN t = 1..k /\ Len(t) = k /\ k \in 1..k
      BY <1>a DEF Follows
    <3> QED BY SMTT(60), <3>1
  <2> QED BY <1>a, <2>1 DEF Sound, Onward, Follows
<1> QED BY <1>1, <1>2, <1>3 DEF Sound

\* It enters no bus.
LEMMA OnwardEntered ==
  ASSUME NEW st, NEW t, NEW F, NEW G, NEW k, NEW q, Onward(st, t, F, G, k, q)
  PROVE  BusesEntered(G) = BusesEntered(F) /\ F \subseteq G
  BY DEF BusesEntered, Onward

\* It misses nothing.
LEMMA OnwardComplete ==
  ASSUME machine \in Machines, NEW st, NEW t, NEW F, NEW G, NEW k, NEW q, Onward(st, t, F, G, k, q), Complete(st, F)
  PROVE  Complete(t, G)
<1>a. Follows(st, t, k, q)
  BY OnwardIndices
<1>b. BusesEntered(G) = BusesEntered(F) /\ F \subseteq G
  BY OnwardEntered
<1> SUFFICES ASSUME NEW a \in DOMAIN Config, Visible(a), a.bus \in BusesEntered(G), a \notin G
             PROVE  \E i \in DOMAIN t : t[i].bus = a.bus /\ ~Before(t[i], a)
  BY DEF Complete
<1>1. PICK i \in DOMAIN st : st[i].bus = a.bus /\ ~Before(st[i], a)
  BY <1>b DEF Complete
<1>2. i \in DOMAIN t
  <2>1. a \in Function
    BY Hidden
  <2>2. a.device < DEVICES
    BY SMTT(60), <2>1, PciAssumption DEF Function
  <2>3. st[i].device # DEVICES
    BY <1>1, <2>2 DEF Before
  <2> QED BY <1>a, <2>3 DEF Follows
<1>3. CASE i # k
  BY <1>a, <1>1, <1>2, <1>3 DEF Follows
<1>4. CASE i = k
  <2>1. a # st[k]
    BY DEF Onward
  <2>2. ~Before(q, a) /\ q.bus = a.bus
    BY <1>a, <1>1, <1>4, <2>1 DEF Passes, Follows
  <2> QED BY <1>a, <1>2, <1>4, <2>2 DEF Follows
<1> QED BY <1>3, <1>4

\* On a tree it finds nothing again.
LEMMA OnwardSingle ==
  ASSUME machine \in Machines, NEW st, NEW t, NEW F, NEW G, NEW k, NEW q, Onward(st, t, F, G, k, q), Single(st, F)
  PROVE  Single(t, G) /\ (k = Len(st) => st[k] \notin F)
<1>a. Follows(st, t, k, q)
  BY OnwardIndices
<1>b. BusesEntered(G) = BusesEntered(F) /\ F \subseteq G
  BY OnwardEntered
<1>1. k = Len(st) => st[k] \notin F
  <2>1. ~Before(st[k], st[k]) /\ k \in DOMAIN st /\ ~(Len(st) < Len(st))
    BY SMTT(60), <1>a, Orders DEF Follows, Onward
  <2> QED BY <2>1 DEF Single
<1>2. \A a \in G : a.bus \in BusesEntered(G)
  BY <1>a, <1>b DEF Single, Onward, Follows
<1>3. \A i \in DOMAIN t : t[i].bus \in BusesEntered(G)
  BY <1>a, <1>b DEF Single, Follows
<1>4. \A i, j \in DOMAIN t : t[i].bus = t[j].bus => i = j
  BY <1>a DEF Single, Follows
<1>5. ASSUME NEW i \in DOMAIN t, NEW a \in G, a.bus = t[i].bus
      PROVE  Before(t[i], a) \/ (i < Len(t) /\ a = t[i])
  <2>1. CASE i = k
    <3>1. Before(st[k], a) \/ a = st[k]
      <4>1. a \in F \/ a = st[k]
        BY DEF Onward
      <4>2. k \in DOMAIN st /\ st[k].bus = a.bus
        BY <1>a, <1>5, <2>1 DEF Follows
      <4> QED BY <4>1, <4>2 DEF Single
    <3>2. a \in Function /\ a.bus = st[k].bus
      BY <1>a, <1>5, <2>1 DEF Onward, Follows
    <3> QED BY <1>a, <2>1, <3>1, <3>2 DEF Passes, Follows
  <2>2. CASE i # k
    <3>1. st[i].bus # st[k].bus /\ t[i] = st[i] /\ i < Len(t) /\ i \in DOMAIN st
      BY <1>a, <2>2 DEF Single, Follows
    <3>2. a \in F
      BY <1>5, <3>1 DEF Onward
    <3> QED BY <1>5, <3>1, <3>2 DEF Single
  <2> QED BY <2>1, <2>2
<1> QED BY <1>1, <1>2, <1>3, <1>4, <1>5 DEF Single

(***************************************************************************)
(* The walk enters the bus s behind the visible bridge p, where it is.     *)
(***************************************************************************)
Inward(st, t, F, p, s) ==
  /\ st \in Seq(Address) /\ st # <<>> /\ p = st[Len(st)] /\ p \in Function
  /\ t = Append(st, Start(s)) /\ Start(s) \in Address
  /\ F \subseteq DOMAIN Config /\ Visible(p) /\ s = Config[p].secondary /\ s # NoBus

\* t is st with a call for bus s, made at p.
Deeper(st, t, p, s) ==
  /\ Len(t) = Len(st) + 1 /\ DOMAIN t = 1..(Len(st) + 1) /\ Len(st) \in DOMAIN st
  /\ p = st[Len(st)] /\ t[Len(st) + 1] = Start(s) /\ Len(st) + 1 \in DOMAIN t
  /\ \A i \in DOMAIN st : i \in DOMAIN t /\ t[i] = st[i] /\ i < Len(t) /\ (i < Len(st) \/ i = Len(st))
  /\ \A i \in DOMAIN t : i \in DOMAIN st \/ i = Len(st) + 1
  /\ \A i \in 1..(Len(t) - 1) : i \in DOMAIN st /\ (i \in 1..(Len(st) - 1) \/ i = Len(st))

\* The calls of enum_bus with the new one.
LEMMA InwardIndices ==
  ASSUME NEW st, NEW t, NEW F, NEW p, NEW s, Inward(st, t, F, p, s)
  PROVE  Deeper(st, t, p, s)
  BY SMTT(60) DEF Inward, Deeper

\* It enters the bus s.
LEMMA InwardEntered ==
  ASSUME NEW st, NEW t, NEW F, NEW p, NEW s, Inward(st, t, F, p, s)
  PROVE  BusesEntered(F \cup {p}) = BusesEntered(F) \cup {s}
  BY DEF BusesEntered, Inward

\* All of a bus is ahead of a new call of enum_bus.
LEMMA AtStart ==
  ASSUME NEW s
  PROVE  /\ Entered(Start(s)) /\ Start(s).bus = s
         /\ machine \in Machines => \A a \in DOMAIN Config : Visible(a) => ~Before(Start(s), a)
<1>1. Entered(Start(s)) /\ Start(s).bus = s
  BY DEF Entered, Start
<1>2. ASSUME machine \in Machines, NEW a \in DOMAIN Config, Visible(a) PROVE ~Before(Start(s), a)
  <2>1. a \in Function
    BY <1>2, Hidden
  <2>2. a.device \in Nat /\ a.function \in Nat
    BY SMTT(60), <2>1, PciAssumption DEF Function
  <2> QED BY SMTT(60), <2>2 DEF Before, Start
<1> QED BY <1>1, <1>2

\* The bus behind a bridge can be reached.
LEMMA InwardSound ==
  ASSUME machine \in Machines, NEW st, NEW t, NEW F, NEW p, NEW s, Inward(st, t, F, p, s), Sound(st, F)
  PROVE  Sound(t, F \cup {p})
<1>a. Deeper(st, t, p, s)
  BY InwardIndices
<1>1. Visible(p) /\ p \in DOMAIN Config /\ p.bus \in BusesFrom(entry.start)
  BY <1>a, Hidden DEF Sound, Inward, Deeper
<1>2. s \in BusesFrom(entry.start)
  BY <1>1, Closed DEF Inward, Keeps
<1>3. \A i \in DOMAIN t : Entered(t[i]) /\ t[i].bus \in BusesFrom(entry.start)
  BY <1>a, <1>2, AtStart DEF Sound, Deeper
<1>4. \A i \in 1..(Len(t) - 1) : t[i] \in F \cup {p}
  BY <1>a DEF Sound, Deeper
<1> QED BY <1>1, <1>3, <1>4 DEF Sound

\* All of it is ahead of the new call.
LEMMA InwardComplete ==
  ASSUME machine \in Machines, NEW st, NEW t, NEW F, NEW p, NEW s, Inward(st, t, F, p, s), Complete(st, F)
  PROVE  Complete(t, F \cup {p})
<1>a. Deeper(st, t, p, s)
  BY InwardIndices
<1>b. BusesEntered(F \cup {p}) = BusesEntered(F) \cup {s}
  BY SMTT(60), InwardEntered
<1> SUFFICES ASSUME NEW a \in DOMAIN Config, Visible(a), a.bus \in BusesEntered(F \cup {p}), a \notin F
             PROVE  \E i \in DOMAIN t : t[i].bus = a.bus /\ ~Before(t[i], a)
  BY DEF Complete
<1>1. CASE a.bus = s
  BY <1>a, <1>1, AtStart DEF Deeper
<1>2. CASE a.bus \in BusesEntered(F)
  BY <1>a, <1>2 DEF Complete, Deeper
<1> QED BY <1>1, <1>2, <1>b

\* On a tree it was not walked before, for the only bridge to it was not found yet.
LEMMA InwardSingle ==
  ASSUME machine \in Machines, NEW st, NEW t, NEW F, NEW p, NEW s, Inward(st, t, F, p, s), Single(st, F), Tree
  PROVE  Single(t, F \cup {p}) /\ p \notin F
<1>a. Deeper(st, t, p, s)
  BY InwardIndices
<1>b. BusesEntered(F \cup {p}) = BusesEntered(F) \cup {s}
  BY SMTT(60), InwardEntered
<1>1. p \notin F
  <2>1. ~Before(p, p) /\ ~(Len(st) < Len(st))
    BY SMTT(60), <1>a, Orders DEF Inward, Deeper
  <2> QED BY <1>a, <2>1 DEF Single, Deeper
<1>2. p \in DOMAIN Config /\ Config[p].secondary = s /\ s # NoBus
  BY Hidden DEF Inward
<1>3. s # entry.start /\ s # p.bus
  BY <1>2 DEF Tree
<1>4. s \notin BusesEntered(F)
  <2> SUFFICES ASSUME NEW c \in F, Config[c].secondary = s PROVE FALSE
    BY <1>3 DEF BusesEntered
  <2>1. c \in DOMAIN Config
    BY DEF Inward
  <2>2. c = p
    BY <1>2, <2>1 DEF Tree
  <2> QED BY <1>1, <2>2
<1>5. \A a \in F \cup {p} : a.bus \in BusesEntered(F) /\ a.bus # s
  BY <1>a, <1>3, <1>4 DEF Single, Deeper
<1>6. \A i \in DOMAIN st : st[i].bus \in BusesEntered(F) /\ st[i].bus # s
  BY <1>4 DEF Single
<1>7. \A i \in DOMAIN t : t[i].bus \in BusesEntered(F \cup {p})
  BY <1>a, <1>6, <1>b, AtStart DEF Deeper
<1>8. \A i, j \in DOMAIN t : t[i].bus = t[j].bus => i = j
  BY <1>a, <1>6, AtStart DEF Single, Deeper
<1>9. ASSUME NEW i \in DOMAIN t, NEW a \in F \cup {p}, a.bus = t[i].bus
      PROVE  Before(t[i], a) \/ (i < Len(t) /\ a = t[i])
  <2>1. i \in DOMAIN st /\ t[i] = st[i] /\ i < Len(t)
    BY <1>a, <1>5, <1>9, AtStart DEF Deeper
  <2>2. CASE a \in F
    BY <1>9, <2>1, <2>2 DEF Single
  <2>3. CASE a = p
    BY <1>a, <1>9, <2>1, <2>3 DEF Single, Deeper
  <2> QED BY <2>2, <2>3
<1> QED BY <1>1, <1>5, <1>7, <1>8, <1>9, <1>b DEF Single

\* What is found for the first time leaves the list without repetitions.
LEMMA AppendOnce ==
  ASSUME NEW s \in Seq(Function), NEW a \in Function
  PROVE  /\ Append(s, a) \in Seq(Function)
         /\ {Append(s, a)[i] : i \in DOMAIN Append(s, a)} = {s[i] : i \in DOMAIN s} \cup {a}
         /\ Injective(s) /\ a \notin {s[i] : i \in DOMAIN s} => Injective(Append(s, a))
<1>a. Append(s, a) \in Seq(Function)
  BY SMTT(60)
<1>1. PICK t \in Seq(Function) : t = Append(s, a)
  BY <1>a
<1>2. /\ DOMAIN t = DOMAIN s \cup {Len(s) + 1} /\ Len(s) + 1 \notin DOMAIN s
      /\ \A i \in DOMAIN s : t[i] = s[i]
      /\ t[Len(s) + 1] = a
  BY SMTT(60), <1>1
<1>3. {t[i] : i \in DOMAIN t} = {s[i] : i \in DOMAIN s} \cup {a}
  BY <1>2
<1>4. Injective(s) /\ a \notin {s[i] : i \in DOMAIN s} => Injective(t)
  BY <1>2 DEF Injective
<1> QED BY <1>1, <1>3, <1>4

\* What a step leaves to show, once the parts of the invariant hold after it.
LEMMA Together ==
  ASSUME PciInv', machine' = machine, funcs' \in Seq(Function),
         state' = "init" => stack' = <<>> /\ funcs' = <<>>, state' = "done" => stack' = <<>>,
         Sound(stack', Seen'), state' \in {"enum", "done"} => Complete(stack', Seen'),
         Tree => Single(stack', Seen') /\ Injective(funcs')
  PROVE  WalkInv'
<1>1. Sound(stack, Seen)' <=> Sound(stack', Seen')
  BY SMTT(60) DEF Sound, BusesFrom, Entered, Visible, Config, entry
<1>2. Complete(stack, Seen)' <=> Complete(stack', Seen')
  BY DEF Complete, BusesEntered, Visible, Config, entry
<1>3. Single(stack, Seen)' <=> Single(stack', Seen')
  BY SMTT(60) DEF Single, BusesEntered, Config, entry
<1>4. Tree' <=> Tree
  BY SMTT(60) DEF Tree, Config, entry
<1>5. Injective(funcs)' <=> Injective(funcs')
  BY DEF Injective
<1> QED BY <1>1, <1>2, <1>3, <1>4, <1>5 DEF WalkInv

\* A move onward preserves the invariant of the walk.
LEMMA GoesOn ==
  ASSUME WalkInv, PciInv', state = "enum", UNCHANGED <<machine, state>>, NEW k, NEW q,
         Onward(stack, stack', Seen, Seen', k, q),
         funcs' = funcs \/ (funcs' = Append(funcs, stack[k]) /\ k = Len(stack))
  PROVE  WalkInv'
<1>1. machine \in Machines /\ Sound(stack, Seen) /\ Complete(stack, Seen) /\ stack[k] \in Function
      /\ funcs \in Seq(Function) /\ (Tree => Single(stack, Seen) /\ Injective(funcs))
  BY DEF WalkInv, PciInv, Onward
<1>2. Sound(stack', Seen')
  BY <1>1, OnwardSound
<1>3. Complete(stack', Seen')
  BY <1>1, OnwardComplete
<1>4. ASSUME Tree PROVE Single(stack', Seen') /\ (k = Len(stack) => stack[k] \notin Seen)
  BY <1>1, <1>4, OnwardSingle
<1>5. funcs' \in Seq(Function)
  BY <1>1, AppendOnce
<1>6. ASSUME Tree PROVE Injective(funcs')
  BY <1>1, <1>4, <1>6, AppendOnce DEF Seen
<1> QED BY <1>1, <1>2, <1>3, <1>4, <1>5, <1>6, Together

\* What the invariant of the walk says of what was found and of the calls.
LEMMA Seeing ==
  ASSUME WalkInv
  PROVE  /\ Seen \subseteq Function /\ Seen \subseteq DOMAIN Config
         /\ \A a \in Seen : Visible(a)
         /\ stack \in Seq(Address) /\ machine \in Machines
         /\ \A i \in DOMAIN stack : Entered(stack[i]) /\ stack[i] \in Address
<1>1. \A a \in Seen : Visible(a)
  BY DEF WalkInv, Sound
<1>2. stack \in Seq(Address) /\ machine \in Machines /\ \A i \in DOMAIN stack : Entered(stack[i])
  BY DEF WalkInv, Sound, PciInv
<1>3. \A i \in DOMAIN stack : stack[i] \in Address
  BY SMTT(60), <1>2
<1> QED BY <1>1, <1>2, <1>3, Hidden

\* The innermost call reads the page of the function it is at.
LEMMA AtTop ==
  ASSUME WalkInv, Reads
  PROVE  /\ Len(stack) \in DOMAIN stack /\ Top = stack[Len(stack)] /\ Top \in Function /\ Entered(Top)
         /\ Present(Top) => Visible(Top) /\ Top \in DOMAIN Config /\ Passes(Top, After(Top))
         /\ ~Present(Top) => ~Visible(Top)
              /\ Passes(Top, IF Top.function = 0 THEN NextDevice(Top) ELSE NextFunction(Top))
         /\ Present(Top) => Says(Top) = Config[Top]
<1>1. Len(stack) \in DOMAIN stack /\ Top = stack[Len(stack)] /\ Top.device < DEVICES
  BY SMTT(60), Seeing DEF Reads, Top
<1>2. Top \in Function /\ Entered(Top) /\ machine \in Machines
  BY <1>1, Seeing, Places
<1>3. Present(Top) <=> Top \in DOMAIN Config
  BY <1>2, OwnPage
<1>4. Visible(Top) => Top \in DOMAIN Config
  BY DEF Visible
<1> QED BY <1>1, <1>2, <1>3, <1>4, OwnPage, Steps

\* Every step preserves the invariant of the walk.
LEMMA WalkInductive == WalkInv /\ [PciNext]_pci_vars => WalkInv'
<1> SUFFICES ASSUME WalkInv, [PciNext]_pci_vars PROVE WalkInv'
  OBVIOUS
<1>1. PciInv /\ PciInv' /\ funcs \in Seq(Function)
  BY PciInductive DEF WalkInv
<1>2. CASE InitFails \/ BusCountPanics \/ Fault \/ Overflow \/ UNCHANGED pci_vars
  <2>1. UNCHANGED <<machine, stack, funcs>> /\ state' \in {"failed", "panic", "fault", state}
    BY <1>2 DEF InitFails, BusCountPanics, Fault, Overflow, pci_vars
  <2>2. Seen' = Seen
    BY <2>1 DEF Seen
  <2> QED BY <1>1, <2>1, <2>2, Together DEF WalkInv
<1>3. CASE MapWindow
  <2>1. /\ stack' = <<Start(entry.start)>> /\ UNCHANGED <<machine, funcs>> /\ machine.entries # <<>>
        /\ state' = "enum" /\ state = "init"
    BY <1>3 DEF MapWindow
  <2>2. funcs' = <<>> /\ Seen' = {}
    BY SMTT(60), <2>1 DEF WalkInv, Seen
  <2>3. DOMAIN stack' = {1} /\ Len(stack') = 1 /\ stack'[1] = Start(entry.start) /\ 1..(Len(stack') - 1) = {}
    BY SMTT(60), <2>1
  <2>4. Sound(stack', {})
    <3>1. Entered(Start(entry.start)) /\ Start(entry.start).bus \in BusesFrom(entry.start)
      BY AtStart, Closed
    <3> QED BY <2>3, <3>1 DEF Sound
  <2>5. BusesEntered({}) = {entry.start}
    BY DEF BusesEntered
  <2>6. Complete(stack', {})
    <3>1. Start(entry.start).bus = entry.start
          /\ \A a \in DOMAIN Config : Visible(a) => ~Before(Start(entry.start), a)
      BY <1>1, AtStart DEF PciInv
    <3> QED BY <2>3, <2>5, <3>1 DEF Complete
  <2>7. Single(stack', {})
    BY <2>3, <2>5, AtStart DEF Single
  <2>8. Injective(funcs')
    BY SMTT(60), <2>2 DEF Injective
  <2> QED BY <1>1, <2>1, <2>2, <2>4, <2>6, <2>7, <2>8, Together
<1>4. CASE NotPresent \/ Found
  <2> DEFINE n == Len(stack)
  <2>1. PICK b : /\ Replace(b) /\ Reads /\ UNCHANGED <<machine, state>>
                 /\ \/ ~Present(Top) /\ funcs' = funcs
                       /\ b = (IF Top.function = 0 THEN NextDevice(Top) ELSE NextFunction(Top))
                    \/ Present(Top) /\ funcs' = Append(funcs, Top) /\ b = After(Top) /\ Says(Top).secondary = NoBus
    BY <1>4 DEF NotPresent, Found
  <2>2. Passes(stack[n], b) /\ b \in Address /\ n \in DOMAIN stack /\ stack[n] \in Function /\ Top = stack[n]
    BY <2>1, AtTop DEF Passes
  <2>3. stack \in Seq(Address) /\ Seen \subseteq Function /\ Seen \subseteq DOMAIN Config
    BY Seeing
  <2>4. /\ stack' \in Seq(Address) /\ Len(stack') = n /\ stack'[n] = b
        /\ \A i \in 1..(n - 1) : stack'[i] = stack[i]
        /\ \A i \in DOMAIN stack : ~(i > n)
    BY SMTT(60), <2>1, <2>2, <2>3 DEF Replace
  <2>5. \/ Seen' = Seen /\ ~Visible(stack[n])
        \/ Seen' = Seen \cup {stack[n]} /\ Visible(stack[n]) /\ Config[stack[n]].secondary = NoBus
    <3>1. CASE ~Present(Top) /\ funcs' = funcs
      BY <2>1, <2>2, <3>1, AtTop DEF Seen
    <3>2. CASE Present(Top) /\ funcs' = Append(funcs, Top) /\ Says(Top).secondary = NoBus
      <4>1. Seen' = Seen \cup {Top}
        <5>1. funcs \in Seq(Function) /\ Top \in Function
          BY <1>1, <2>2 DEF WalkInv
        <5>2. {Append(funcs, Top)[i] : i \in DOMAIN Append(funcs, Top)} = {funcs[i] : i \in DOMAIN funcs} \cup {Top}
          BY <5>1, AppendOnce
        <5> QED BY <3>2, <5>2 DEF Seen
      <4> QED BY <2>1, <2>2, <3>2, <4>1, AtTop
    <3> QED BY <2>1, <3>1, <3>2
  <2>6. Onward(stack, stack', Seen, Seen', n, b)
    BY <2>2, <2>3, <2>4, <2>5 DEF Onward
  <2>7. state = "enum" /\ (funcs' = funcs \/ funcs' = Append(funcs, stack[n]))
    BY <2>1, <2>2 DEF Reads
  <2> QED BY <1>1, <2>1, <2>6, <2>7, GoesOn
<1>5. CASE FoundBridge
  <2>1. /\ Reads /\ Present(Top) /\ Says(Top).secondary # NoBus /\ funcs' = Append(funcs, Top)
        /\ stack' = Append(stack, Start(Says(Top).secondary)) /\ UNCHANGED <<machine, state, window>>
        /\ state = "enum"
    BY <1>5 DEF FoundBridge, Reads
  <2>2. /\ Visible(Top) /\ Top \in Function /\ Top = stack[Len(stack)] /\ Says(Top) = Config[Top]
    BY <2>1, AtTop
  <2>3. PICK s \in Nat : s = Config[Top].secondary
    BY <1>1, <2>1, <2>2, Behind DEF PciInv
  <2>4. Start(s) \in Address
    BY SMTT(60), PciAssumption DEF Start, Address
  <2>5. stack \in Seq(Address) /\ stack # <<>> /\ Seen \subseteq DOMAIN Config /\ machine \in Machines
    BY <2>1, Seeing DEF Reads
  <2>6. Inward(stack, stack', Seen, Top, s)
    BY <2>1, <2>2, <2>3, <2>4, <2>5 DEF Inward
  <2>7. Seen' = Seen \cup {Top} /\ funcs' \in Seq(Function)
    BY SMTT(60), <1>1, <2>1, <2>2, AppendOnce DEF Seen
  <2>8. Sound(stack, Seen) /\ Complete(stack, Seen) /\ (Tree => Single(stack, Seen) /\ Injective(funcs))
    BY <2>1 DEF WalkInv
  <2>9. Sound(stack', Seen')
    BY <2>5, <2>6, <2>7, <2>8, InwardSound
  <2>10. Complete(stack', Seen')
    BY <2>5, <2>6, <2>7, <2>8, InwardComplete
  <2>11. ASSUME Tree PROVE Single(stack', Seen') /\ Top \notin Seen
    <3>1. Single(stack', Seen \cup {Top}) /\ Top \notin Seen
      BY <2>5, <2>6, <2>8, <2>11, InwardSingle
    <3> QED BY <2>7, <3>1
  <2>12. ASSUME Tree PROVE Injective(funcs')
    BY <1>1, <2>1, <2>2, <2>8, <2>11, <2>12, AppendOnce DEF Seen
  <2> QED BY <1>1, <2>1, <2>7, <2>9, <2>10, <2>11, <2>12, Together
<1>6. CASE BusDone
  <2> DEFINE n == Len(stack) - 1
             short == SubSeq(stack, 1, n)
  <2>1. /\ stack' = [short EXCEPT ![n] = After(stack[n])] /\ UNCHANGED <<machine, state, funcs>>
        /\ Len(stack) > 1 /\ state = "enum" /\ stack[Len(stack)].device = DEVICES
    BY <1>6 DEF BusDone, Top
  <2>2. stack \in Seq(Address) /\ n \in 1..(Len(stack) - 1) /\ n \in DOMAIN stack
    BY SMTT(60), <2>1, Seeing
  <2>3. stack[n] \in Seen /\ Entered(stack[n])
    BY <2>2, Seeing DEF WalkInv, Sound
  <2>4. stack[n] \in Function /\ Visible(stack[n]) /\ machine \in Machines
        /\ Seen \subseteq Function /\ Seen \subseteq DOMAIN Config
    BY <2>3, Seeing
  <2>5. Passes(stack[n], After(stack[n]))
    BY <2>3, <2>4, Steps, Hidden
  <2>6. PICK a \in Address : a = After(stack[n]) /\ Passes(stack[n], a)
    BY <2>5 DEF Passes
  <2>7. PICK k \in Nat : k = n /\ k \in DOMAIN stack
    BY SMTT(60), <2>2
  <2>8. PICK t \in Seq(Address) : t = short /\ Len(t) = k /\ \A i \in 1..k : t[i] = stack[i]
    <3>1. short \in Seq(Address) /\ Len(short) = n /\ \A i \in 1..n : short[i] = stack[i]
      BY SMTT(60), <2>2
    <3> QED BY <2>7, <3>1
  <2>9. stack' = [t EXCEPT ![k] = a]
    BY <2>1, <2>6, <2>7, <2>8
  <2>10. k \in 1..Len(t) /\ DOMAIN t = 1..Len(t)
    BY SMTT(60), <2>2, <2>7, <2>8
  <2>11. stack' \in Seq(Address) /\ Len(stack') = k /\ stack'[k] = a
    BY SMTT(60), <2>8, <2>9, <2>10
  <2>12. \A i \in 1..(k - 1) : stack'[i] = stack[i]
    <3>1. \A i \in 1..(k - 1) : i \in 1..k /\ i \in DOMAIN t /\ i # k
      BY SMTT(60), <2>8, <2>10
    <3> QED BY <2>8, <2>9, <3>1
  <2>13. \A i \in DOMAIN stack : i > k => stack[i].device = DEVICES
    BY SMTT(60), <2>1, <2>2, <2>7
  <2>14. Seen' = Seen
    BY <2>1 DEF Seen
  <2>15. Onward(stack, stack', Seen, Seen', k, a)
    BY <2>2, <2>3, <2>4, <2>6, <2>7, <2>11, <2>12, <2>13, <2>14 DEF Onward
  <2> QED BY <1>1, <2>1, <2>15, GoesOn
<1>7. CASE Done
  <2>1. /\ stack' = <<>> /\ UNCHANGED <<machine, funcs>> /\ state' = "done" /\ state = "enum"
        /\ Len(stack) = 1 /\ stack[1].device = DEVICES
    BY <1>7 DEF Done, Top
  <2>2. Seen' = Seen
    BY <2>1 DEF Seen
  <2>3. DOMAIN stack = {1} /\ DOMAIN stack' = {} /\ 1..(Len(stack') - 1) = {}
    BY SMTT(60), <2>1, Seeing
  <2>4. Sound(stack', Seen) /\ (Tree => Single(stack', Seen) /\ Injective(funcs))
    BY <2>3 DEF WalkInv, Sound, Single
  <2>5. Complete(stack', Seen)
    <3> SUFFICES ASSUME NEW a \in DOMAIN Config, Visible(a), a.bus \in BusesEntered(Seen), a \notin Seen
                 PROVE  FALSE
      BY DEF Complete
    <3>1. ~Before(stack[1], a)
      BY <2>1, <2>3 DEF WalkInv, Complete
    <3>2. a \in Function
      BY Hidden, Seeing
    <3>3. a.device < DEVICES
      BY SMTT(60), <3>2, PciAssumption DEF Function
    <3> QED BY <2>1, <3>1, <3>3 DEF Before
  <2> QED BY <1>1, <2>1, <2>2, <2>4, <2>5, Together
<1> QED BY <1>2, <1>3, <1>4, <1>5, <1>6, <1>7 DEF PciNext, Walk

\* The invariant of the walk holds always.
LEMMA Walks == PciSpec => []WalkInv
<1>1. PciInit => WalkInv
  <2> SUFFICES ASSUME PciInit PROVE WalkInv
    OBVIOUS
  <2>1. PciInv /\ stack = <<>> /\ funcs = <<>> /\ state = "init"
    BY SMTT(60) DEF PciInit, PciInv
  <2>2. Seen = {} /\ funcs \in Seq(Function) /\ DOMAIN stack = {} /\ 1..(Len(stack) - 1) = {} /\ DOMAIN funcs = {}
    BY SMTT(60), <2>1 DEF Seen
  <2> QED BY <2>1, <2>2 DEF WalkInv, Sound, Single, Injective
<1> QED BY <1>1, WalkInductive, PTL DEF PciSpec

(***************************************************************************)
(* When pci::init returns, on any machine, trees or not, the functions in  *)
(* PCI_DEVICES are exactly the visible ones of the buses that can be       *)
(* reached from the first.                                                 *)
(***************************************************************************)
THEOREM FindsAll == PciSpec => []FoundAll
<1>1. WalkInv => FoundAll
  <2> SUFFICES ASSUME WalkInv, state = "done"
               PROVE  Seen = {a \in DOMAIN Config : Visible(a) /\ a.bus \in BusesFrom(entry.start)}
    BY DEF FoundAll, Seen
  <2> DEFINE B == BusesEntered(Seen)
  <2>1. \A a \in DOMAIN Config : Visible(a) /\ a.bus \in B => a \in Seen
    <3>1. DOMAIN stack = {} /\ Complete(stack, Seen)
      BY SMTT(60) DEF WalkInv
    <3> QED BY <3>1 DEF Complete
  <2>2. Seen \subseteq DOMAIN Config /\ \A a \in Seen : Visible(a) /\ a.bus \in BusesFrom(entry.start)
    BY Seeing DEF WalkInv, Sound
  <2>3. /\ B \subseteq {entry.start} \cup {Config[a].secondary : a \in DOMAIN Config}
        /\ entry.start \in B /\ Keeps(B)
    BY <2>1, <2>2 DEF BusesEntered, Keeps
  <2>4. BusesFrom(entry.start) \subseteq B
    BY <2>3, Closed
  <2> QED BY <2>1, <2>2, <2>4
<1> QED BY <1>1, Walks, PTL

(***************************************************************************)
(* On a tree of buses pci::init finds no function twice.                   *)
(***************************************************************************)
THEOREM FindsOnce == PciSpec => []FoundOnce
<1>1. WalkInv => FoundOnce
  BY DEF WalkInv, FoundOnce, Injective
<1> QED BY <1>1, Walks, PTL
=============================================================================
