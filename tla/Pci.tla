--------------------------------- MODULE Pci ---------------------------------
(***************************************************************************)
(* pci::init (pci.rs): it maps the configuration space of the first entry  *)
(* of the MCFG table and walks the buses, recursively behind bridges,      *)
(* reading through the mapping.  The configuration space, of one page per  *)
(* function, is external.                                                  *)
(***************************************************************************)
EXTENDS Integers, Sequences, FiniteSets

CONSTANTS
  DEVICES, FUNCTIONS,  \* of a bus, 32; of a device, 8
  LARGE,     \* buses whose configuration space fills a large page: 2
  Machines,  \* [entries: what is read as those of the MCFG table, <<>> without a table;
             \*  config: functions present -> what they say]
  MaxDepth   \* bound: calls of enum_bus the kernel stack has room for

VARIABLES
  machine,
  state,     \* of pci::init
  window,    \* pages of configuration space mapped, from the one of bus 0
  stack,     \* the calls of enum_bus that run: where each one is, innermost last
  funcs      \* the functions found

pci_vars == <<machine, state, window, stack, funcs>>

\* What a function says of itself: multifunction, and the bus behind it or NoBus.
NoBus == -1

ASSUME PciAssumption ==
  /\ DEVICES \in Nat \ {0} /\ FUNCTIONS \in Nat \ {0} /\ LARGE \in Nat \ {0}
  /\ MaxDepth \in Nat \ {0}
  /\ \A m \in Machines :
       /\ m.entries \in Seq([start : Nat, end : Nat])
       /\ DOMAIN m.config \subseteq [bus : Nat, device : 0..(DEVICES - 1), function : 0..(FUNCTIONS - 1)]
       /\ \A a \in DOMAIN m.config : m.config[a] \in [multi : BOOLEAN, secondary : Nat \cup {NoBus}]

\* The first entry is read unchecked: of a table without entries it is what lies behind it.
entry == machine.entries[1]
Buses(n) == n * DEVICES * FUNCTIONS   \* pages of n buses

\* External: which page of the space is whose, as the PCI specification counts them.
Config == machine.config
At(page) == {a \in DOMAIN Config :
               /\ a.bus = page \div Buses(1)
               /\ a.device = (page \div FUNCTIONS) % DEVICES
               /\ a.function = page % FUNCTIONS}

mmio_address(a) == Buses(a.bus) + a.device * FUNCTIONS + a.function

Mapped(a) == mmio_address(a) < window
Present(a) == At(mmio_address(a)) # {}   \* the vendor is not 0xFFFF
Says(a) == Config[CHOOSE f \in At(mmio_address(a)) : TRUE]

-----------------------------------------------------------------------------
\* enum_bus, at function 0 of device 0
Start(bus) == [bus |-> bus, device |-> 0, function |-> 0]

NextDevice(a) == [bus |-> a.bus, device |-> a.device + 1, function |-> 0]

NextFunction(a) ==
  IF a.function + 1 < FUNCTIONS THEN [a EXCEPT !.function = @ + 1] ELSE NextDevice(a)

\* Mutant: a device of one function is asked for the others as well.
After_All(a) == NextFunction(a)

\* Where enum_device goes from a function it found.
After(a) == IF a.function = 0 /\ ~Says(a).multi THEN NextDevice(a) ELSE NextFunction(a)

Top == stack[Len(stack)]
Replace(a) == stack' = [stack EXCEPT ![Len(stack)] = a]

\* No MCFG table, or an error of map_range.
InitFails ==
  /\ state = "init" /\ state' = "failed"
  /\ UNCHANGED <<machine, window, stack, funcs>>

\* The subtraction of the bus numbers underflows, and panics.
BusCountPanics ==
  /\ state = "init" /\ machine.entries # <<>> /\ entry.start > entry.end
  /\ state' = "panic"
  /\ UNCHANGED <<machine, window, stack, funcs>>

\* Mutant: end_bus is taken for one past the last bus.
MapWindow_Short ==
  /\ state = "init" /\ machine.entries # <<>> /\ entry.start <= entry.end
  /\ LET large == (entry.end - entry.start + LARGE - 1) \div LARGE
     IN  window' = Buses(large * LARGE)
  /\ stack' = <<Start(entry.start)>>
  /\ state' = "enum"
  /\ UNCHANGED <<machine, funcs>>

MapWindow ==
  /\ state = "init" /\ machine.entries # <<>> /\ entry.start <= entry.end
  /\ LET bus_count == entry.end - entry.start + 1
         large == (bus_count + LARGE - 1) \div LARGE
     IN  window' = Buses(large * LARGE)
  /\ stack' = <<Start(entry.start)>>
  /\ state' = "enum"
  /\ UNCHANGED <<machine, funcs>>

Reads == state = "enum" /\ stack # <<>> /\ Top.device < DEVICES

\* A page fault: isr_handler panics.
Fault ==
  /\ Reads /\ ~Mapped(Top)
  /\ state' = "fault"
  /\ UNCHANGED <<machine, window, stack, funcs>>

\* Mutant: the loop goes on without its increment.
NotPresent_Stuck ==
  /\ Reads /\ Mapped(Top) /\ ~Present(Top)
  /\ Replace(IF Top.function = 0 THEN NextDevice(Top) ELSE Top)
  /\ UNCHANGED <<machine, state, window, funcs>>

NotPresent ==
  /\ Reads /\ Mapped(Top) /\ ~Present(Top)
  /\ Replace(IF Top.function = 0 THEN NextDevice(Top) ELSE NextFunction(Top))
  /\ UNCHANGED <<machine, state, window, funcs>>

Found ==
  /\ Reads /\ Mapped(Top) /\ Present(Top) /\ Says(Top).secondary = NoBus
  /\ funcs' = Append(funcs, Top)
  /\ Replace(After(Top))
  /\ UNCHANGED <<machine, state, window>>

\* enum_bus is called for the bus behind the bridge.
FoundBridge ==
  /\ Reads /\ Mapped(Top) /\ Present(Top) /\ Says(Top).secondary # NoBus
  /\ Len(stack) < MaxDepth
  /\ funcs' = Append(funcs, Top)
  /\ stack' = Append(stack, Start(Says(Top).secondary))
  /\ UNCHANGED <<machine, state, window>>

\* The stack of the kernel ends.
Overflow ==
  /\ Reads /\ Mapped(Top) /\ Present(Top) /\ Says(Top).secondary # NoBus
  /\ Len(stack) = MaxDepth
  /\ state' = "fault"
  /\ UNCHANGED <<machine, window, stack, funcs>>

\* enum_bus returns, into the loop of enum_device that called it.
BusDone ==
  /\ state = "enum" /\ Len(stack) > 1 /\ Top.device = DEVICES
  /\ LET n == Len(stack) - 1
     IN  stack' = [SubSeq(stack, 1, n) EXCEPT ![n] = After(stack[n])]
  /\ UNCHANGED <<machine, state, window, funcs>>

\* Mutant: pci::init walks all buses of the entry, besides those behind bridges.
Done_AllBuses ==
  /\ state = "enum" /\ Len(stack) = 1 /\ Top.device = DEVICES
  /\ IF Top.bus < entry.end THEN Replace(Start(Top.bus + 1)) /\ UNCHANGED state
                             ELSE state' = "done" /\ stack' = <<>>
  /\ UNCHANGED <<machine, window, funcs>>

Done ==
  /\ state = "enum" /\ Len(stack) = 1 /\ Top.device = DEVICES
  /\ state' = "done" /\ stack' = <<>>
  /\ UNCHANGED <<machine, window, funcs>>

PciInit ==
  /\ machine \in Machines /\ state = "init" /\ window = 0
  /\ stack = <<>> /\ funcs = <<>>

Walk == Fault \/ NotPresent \/ Found \/ FoundBridge \/ Overflow \/ BusDone \/ Done
PciNext == InitFails \/ BusCountPanics \/ MapWindow \/ Walk

PciSpec == PciInit /\ [][PciNext]_pci_vars

\* kmain goes on.
PciFairSpec == PciSpec /\ WF_pci_vars(PciNext)
-----------------------------------------------------------------------------
(***************************************************************************)
(* The reference: a function is visible if its device has a function 0,    *)
(* and is that or one of several; the buses are the first of the entry and *)
(* those behind a visible bridge of one of them.                           *)
(***************************************************************************)
Visible(a) ==
  LET zero == [a EXCEPT !.function = 0]
  IN  a \in DOMAIN Config /\ zero \in DOMAIN Config /\ (a = zero \/ Config[zero].multi)

BusesFrom(bus) ==
  LET all == {bus} \cup {Config[a].secondary : a \in DOMAIN Config}
      closed == {B \in SUBSET all : bus \in B /\ \A a \in DOMAIN Config :
                   Visible(a) /\ a.bus \in B /\ Config[a].secondary # NoBus => Config[a].secondary \in B}
  IN  {b \in all : \A B \in closed : b \in B}

(***************************************************************************)
(* When pci::init returns, it has found exactly the visible functions of   *)
(* the buses that can be reached.                                          *)
(***************************************************************************)
FoundAll ==
  state = "done" =>
    {funcs[i] : i \in DOMAIN funcs} =
      {a \in DOMAIN Config : Visible(a) /\ a.bus \in BusesFrom(entry.start)}

\* The bus numbers make a tree: no two bridges lead to one bus, none to the first.
Tree ==
  /\ machine.entries # <<>>
  /\ \A a, b \in {f \in DOMAIN Config : Config[f].secondary # NoBus} :
       /\ Config[a].secondary = Config[b].secondary => a = b
       /\ Config[a].secondary \notin {entry.start, a.bus}

\* ... and none is outside the entry, which starts at bus 0.
InEntry ==
  machine.entries # <<>> /\ entry.start = 0
  /\ \A a \in DOMAIN Config : Config[a].secondary <= entry.end

\* On a tree of buses no function is found twice.
FoundOnce == Tree => \A i, j \in DOMAIN funcs : funcs[i] = funcs[j] => i = j

(***************************************************************************)
(* If the entry starts at bus 0 and holds the buses behind all bridges, no *)
(* read is outside the mapping.                                            *)
(***************************************************************************)
InsideWindow == InEntry /\ Reads => Mapped(Top)

\* On a tree of buses inside the entry, no deeper than the stack, pci::init returns.
InitReturns == Tree /\ InEntry ~> state \in {"done", "failed"}
=============================================================================
