------------------------------- MODULE UacpiIo -------------------------------
(***************************************************************************)
(* Registers as uACPI reaches them (acpi/uacpi.rs): PCI configuration      *)
(* space, through the two ports 0xCF8 and 0xCFC until pci::init has mapped *)
(* it and through memory from then on (pci.rs), and I/O ports.  Bytes are  *)
(* numbered through: those of the n-th function of the system from         *)
(* n * EXTENDED, ports from 0.                                             *)
(***************************************************************************)
EXTENDS Integers

CONSTANTS
  WORD,       \* bytes at 0xCFC: 4
  LEGACY,     \* bytes of a function that the ports reach: 256
  EXTENDED,   \* bytes of a function: 4096
  Functions,  \* the functions of the system, by bus, device and function
  U16,        \* how many port numbers there are: 65536
  Ports,      \* the I/O ports
  Widths,     \* of accesses, in bytes
  Bytes, Zero,
  MaxWrites   \* bound

VARIABLES
  regs,      \* the registers of the devices: [space, at] -> byte
  mmio,      \* MCFG_ADDRESS is set
  handles,   \* what uACPI has open: [space, base]
  \* History: what uACPI has written, what it last read and should have read;
  \* it asked for a register past those the ports reach, through the ports.
  written, answer, expected, writes, beyond

io_vars == <<regs, mmio, handles, written, answer, expected, writes, beyond>>

Registers == [space : {"pci"}, at : {f * EXTENDED + o : f \in Functions, o \in 0..(EXTENDED - 1)}]
             \cup [space : {"io"}, at : Ports]

ASSUME IoAssumption ==
  /\ {WORD, LEGACY, EXTENDED, U16} \subseteq Nat \ {0}
  /\ LEGACY % WORD = 0 /\ LEGACY <= EXTENDED
  /\ Functions \subseteq Nat /\ Ports \subseteq 0..(U16 - 1)
  /\ \A w \in Widths : w \in 1..WORD /\ WORD % w = 0
  /\ Zero \in Bytes /\ MaxWrites \in Nat

\* Mutant: bits 0 and 1 of the offset stay in the address.
io_address_Unaligned(f, offset) == f * LEGACY + (offset % LEGACY)

\* The address for 0xCF8: of the offset, bits 2 to 7.
io_address(f, offset) == f * LEGACY + ((offset % LEGACY) \div WORD) * WORD

mmio_address(f, offset) == f * EXTENDED + offset

\* External: the byte that an access at 0xCFC + port reaches.
Selected(cf8, port) == (cf8 \div LEGACY) * EXTENDED + (cf8 % LEGACY) + port

\* Byte i of pci_read and pci_write; no handler comes between 0xCF8 and 0xCFC with
\* an access of its own ...
PciByte(f, offset, i) ==
  IF mmio THEN mmio_address(f, offset) + i
          ELSE Selected(io_address(f, offset), (offset % WORD) + i)

\* ... of uacpi_kernel_pci_read and _write, of any width, ...
PciRegister(h, offset, i) == [space |-> "pci", at |-> PciByte(h.base, offset, i)]

\* ... and of uacpi_kernel_io_read and _write: handle and offset are cut to 16 bits.
IoRegister(h, offset, i) == [space |-> "io", at |-> (h.base % U16) + (offset % U16) + i]

Byte(h, offset, i) == IF h.space = "pci" THEN PciRegister(h, offset, i) ELSE IoRegister(h, offset, i)

\* The byte that is meant.
Meant(h, offset, i) ==
  [space |-> h.space, at |-> (IF h.space = "pci" THEN h.base * EXTENDED ELSE h.base) + offset + i]

-----------------------------------------------------------------------------
\* Handles: a boxed PciAddress, or the number of the port itself.
PciHandle(f) == [space |-> "pci", base |-> f]
IoHandle(port) == [space |-> "io", base |-> port]
Handles == {PciHandle(f) : f \in Functions} \cup {IoHandle(p) : p \in Ports}

Open(h) ==
  /\ handles' = handles \cup {h}
  /\ UNCHANGED <<regs, mmio, written, answer, expected, writes, beyond>>

Close(h) ==
  /\ h \in handles /\ handles' = handles \ {h}
  /\ UNCHANGED <<regs, mmio, written, answer, expected, writes, beyond>>

Read(h, offset, w) ==
  /\ h \in handles
  /\ answer' = [i \in 0..(w - 1) |-> regs[Byte(h, offset, i)]]
  /\ expected' = [i \in 0..(w - 1) |-> written[Meant(h, offset, i)]]
  /\ UNCHANGED <<regs, mmio, handles, written, writes>>

\* f with the bytes of value stored at places.
Store(f, places, value) ==
  [r \in DOMAIN f |-> IF \E i \in DOMAIN value : places[i] = r
                      THEN value[CHOOSE i \in DOMAIN value : places[i] = r] ELSE f[r]]

Write(h, offset, w, value) ==
  /\ h \in handles /\ writes < MaxWrites /\ writes' = writes + 1
  /\ regs' = Store(regs, [i \in 0..(w - 1) |-> Byte(h, offset, i)], value)
  /\ written' = Store(written, [i \in 0..(w - 1) |-> Meant(h, offset, i)], value)
  /\ UNCHANGED <<mmio, handles, answer, expected>>

\* pci::init stores MCFG_ADDRESS.
SetMcfg ==
  /\ ~mmio /\ mmio' = TRUE
  /\ UNCHANGED <<regs, handles, written, answer, expected, writes, beyond>>

IoInit ==
  /\ regs = [r \in Registers |-> Zero] /\ written = regs
  /\ mmio = FALSE /\ handles = {}
  /\ answer = <<>> /\ expected = <<>> /\ writes = 0 /\ beyond = FALSE

\* Before pci::init only the first LEGACY bytes of a function can be reached.
Reachable(h, offset) == h.space = "pci" /\ ~mmio => offset < LEGACY

\* Accesses are aligned, and inside the function or the ports.
Access(h, offset, w) ==
  /\ offset % w = 0
  /\ \A i \in 0..(w - 1) : Meant(h, offset, i) \in Registers
  /\ h.space = "pci" => offset < EXTENDED
  /\ \/ Read(h, offset, w)
     \/ \E value \in [0..(w - 1) -> Bytes] : Write(h, offset, w, value)
  /\ beyond' = (beyond \/ ~Reachable(h, offset))

Rest == (\E h \in Handles : Open(h) \/ Close(h)) \/ SetMcfg
IoNext == Rest \/ \E h \in Handles, w \in Widths, offset \in 0..(EXTENDED - 1) : Access(h, offset, w)
IoSpec == IoInit /\ [][IoNext]_io_vars
-----------------------------------------------------------------------------
(***************************************************************************)
(* "Read the configuration space of a previously open PCI device" (the     *)
(* comment on uacpi_kernel_pci_read8): each read returns what was last     *)
(* written to the registers it names and no write changes another          *)
(* register, whether a write went through the ports or through memory, as  *)
(* long as no register past the first 256 bytes is asked for before        *)
(* pci::init: io_address cuts the offset to eight bits.                    *)
(***************************************************************************)
RegistersFaithful == ~beyond => regs = written /\ answer = expected
=============================================================================
