# Verification of prometheos

TLA+ models of the memory management, the locks, the interrupt path, the host
interface of uACPI and the PCI walk of the prometheos kernel (`kernel/src`),
model-checked with TLC on small instances, with TLAPS proofs of the safety
properties of all but one for every value of the constants. Paths below are
relative to `kernel/src`.

## The system

A kernel for x86-64, started by Limine on one CPU. `main.rs` (`kmain`) runs
`mm::init`, `gdt::init`, `idt::init`, `tsc::init`, `acpi::init`, `apic::init`,
`pci::init` in this order and halts. Interrupts are off until the last line of
`apic::init`. Every failed assertion, `unwrap` or `expect` ends in the panic
handler, which halts for good. The Makefile builds the dev profile, so
`debug_assert!` and overflow checks are on.

| Part | State | Operations | What is hard |
|---|---|---|---|
| Frame allocator `mm/pmm.rs` | lists per order threaded through free frames, `frame_order`, counter | `alloc_pages`, `free_pages`, `add_range`, `reclaim_bootloader` | merging and splitting after long histories, misuse by callers, blocks at the end of memory, exhaustion |
| Boot of memory `mm/mod.rs` | memory map, place of `frame_order` | `init` | the metadata lies in the memory it describes; frame 0; a last partial frame |
| Heap `mm/heap.rs` | active slab and partial list per bucket, free list per slab | `alloc`, `dealloc` | full slabs are on no list; the bucket is recomputed on free; `unwrap_unchecked` |
| Page tables `mm/vmm.rs` | four levels of tables | `map`, `unmap`, ranges, `translate` | running out of frames half way, rollback, giving back empty tables, the TLB |
| Taking over the boot tables `mm/vmm.rs` | tables, CR3 | `take_ownership` | failure inside a recursion |
| Locks `utils.rs` | `locked`, `saved_if`, interrupt flag | `IntLock`, `SpinLock`, `Singleton`, `critical_section` | interrupts between taking the lock and masking; nesting; several CPUs |
| Interrupts `idt.rs`, `isr.S` | `HANDLERS` | `isr_handler`, `install_handler`, `clear_handler` | the slot is locked while its handler runs; vectors cut to eight bits; who ends an interrupt |
| uACPI host `acpi/uacpi.rs`, `acpi/mod.rs` | mappings, mutexes, events, spinlocks, handlers | about 40 callbacks | overlapping mappings, timeouts, signals from handlers |
| APIC `apic.rs` | I/O APIC, handler 0x21 | `init` | ends the phase without interrupts; pin, vector and handler of the keyboard have to match; the page it maps may be mapped already |
| PCI `pci.rs` | `MCFG_ADDRESS`, device list | `init`, `enum_bus`, `pci_read`, `pci_write` | recursion through bridges, first bus number, two ways to the same registers |
| TSC `tsc.rs`, serial `serial.rs`, GDT `gdt.rs`, build | registers, tables written once | `init` | nothing a model would reach |

How they interact: the heap and the page tables call the frame allocator with
their own lock held; uACPI calls the heap, the page tables and the interrupt
table; `install_handler` frees the previous handler, a heap object, with the
slot locked; handlers take their slot and, through uACPI, uACPI spinlocks.

Properties looked for in each part: frames have one owner, and none is lost;
the lists and the counter agree with the truth; None means no memory; live heap
objects are apart and every free one can be found; map and unmap do all or
nothing, or a prefix; tables are made and given back exactly; the CPU caches
nothing stale; locks exclude, restore the interrupt flag, and never wait for
themselves; waits end in time and not before, and no signal is lost; what uACPI
has mapped stays mapped, and what it unmaps goes; interrupts find their handler
and are ended; every PCI function is found once, and a register is the same by
either way.

## Modules

| Module | Models | State and actions |
|---|---|---|
| `FrameAllocator` | what `pmm.rs` promises | `free`, `owned`; `Donate`, `Alloc` (any free aligned run, None only if there is none), `Free` |
| `Pmm` | `mm/pmm.rs` | the fields of `Pmm` and `FreeBlock` under their names, the locals of the running operation, `pc`. One action per loop iteration. Callers are arbitrary: any address, any order, any range |
| `Mm`, `MmProofs` | `mm/mod.rs` | extends `Pmm` with the memory map and the loops of `init`, then with callers that free what they were given. `MmProofs` has the proofs about `Pmm` too |
| `Heap`, `HeapProofs` | `mm/heap.rs` | on top of `FrameAllocator`. Chains of `next` pointers are sequences. Each operation runs under the heap lock and is one action per branch |
| `AddressSpace` | what `vmm.rs` promises | a set of pages; one page comes or goes at a time |
| `Vmm`, `VmmInvariant` | `mm/vmm.rs` | contents of every table, free frames, and the running call, one action per table visited or written. `VmmInvariant` states and proves the inductive invariant |
| `VmmTlb`, `VmmProofs` | `Vmm` and the CPU that uses its tables | the page walker may run between any two steps; TLB and paging-structure caches; `invlpg` and CR3 writes where the code has them; between calls the rest of the kernel takes frames and gives them back. `VmmProofs` has the theorems about both |
| `TakeOwnership` | `clone_table`, `free_cloned_table`, `take_ownership` | the recursive functions as recursive operators |
| `Locks`, `LocksProofs` | `utils.rs` with `critical_section`, the lock functions of `acpi/uacpi.rs`, the path through `isr.S` and `idt.rs` | one action per atomic access or instruction, for each CPU a thread, with any nesting of sections, and an interrupt handler |
| `UacpiSync`, `UacpiSyncProofs` | mutexes, events and sleep of `acpi/uacpi.rs` | one action per access of lock, counter or clock, for any number of callers; instants are kept as time left, which `Tick` lets run down |
| `UacpiMap` | `uacpi_kernel_map` and `_unmap`, the mappings of `apic.rs` and `pci.rs` | over `AddressSpace`; one action per page, and one for a page that finds no memory for its table |
| `Interrupts`, `DeviceProofs` | `HANDLERS` and `isr_handler`, install and uninstall of uACPI, `apic::init` | the phases of `kmain`; interrupt flag, I/O APIC, local APIC and keyboard controller as the code uses them. `DeviceProofs` has the proofs about `Interrupts` and `Pci` |
| `Pci` | `pci::init`, `enum_bus`, `enum_device` | the recursion as a stack; one action per function looked at; the machine is any element of a set |
| `UacpiIo`, `UacpiProofs` | `pci_read`, `pci_write`, the register callbacks of uACPI | handles, and which byte of which device each byte of an access reaches, before and after `pci::init` sets `MCFG_ADDRESS`. `UacpiProofs` has the proofs about `UacpiMap` and `UacpiIo` |

The `MC*` modules give the constants their values. Definitions keep the names
of the source; `Name_Suffix` under a comment "Mutant" is a wrong variant of the
definition that follows it, used to show that a property notices.

A panic is a state of its own in `Pmm`: `rejected` when an assertion refuses
the caller's arguments (the head of `free_pages`, the range check of
`alloc_pages`), `corrupt` when an assertion, a bounds check or a pointer read
inside the allocator fails.

What is abstracted: access flags of page-table entries, the contents of frames
beyond links and tables, log output, the arithmetic of `hhdm` in `vmm.rs`.
Addresses in `Vmm` count base pages. `Pmm` unrolls bit operations
(`frame ^ (1 << o)`) into their arithmetic meaning on aligned frames. Ranges
that run past the end of the address space, an overflow panic in the source,
are not passed to `Vmm`. `UacpiMap` counts virtual addresses from
`HHDM_OFFSET`. `Pci` and `UacpiIo` number pages and bytes through instead of
shifting bus, device and function into place.

## Runs

| Run | Instance | Checks | Distinct states |
|---|---|---|---|
| `pmm` | 7 frames, orders 0 to 2, 2 bytes a frame | `NeverCorrupt`, `CountMatches`, `ListsComplete`, `ExhaustionIsReal`, `OperationsEnd` | 55,149 |
| `mm` | 9 frames, every cut into three entries | `Conservation`, `DisciplineNeverPanics`, `ImplementsAllocator` | 57,777 |
| `heap` | 3 frames of 4 units, two buckets, orders 0 and 1 | `LiveApart`, `SlabsFindable`, `ObjectsConserved` | 70,340 |
| `locks` | two CPUs, the kernel's nestings, 2 interrupts | `MutualExclusion`, `FlagRestored`, `MaskedInside`, `NoSelfDeadlock`, `SomeoneRuns`, `OperationsEnd` | 144,833 |
| `vmm` | tables of 2 entries, 5 spare frames, 12 ranges | `TablesAccounted`, `NoEmptyTables`, `MapAllOrNothing`, `UnmapIsPrefix`, `ImplementsAddressSpace` | about 190,000 |
| `vmm_tlb` | 3 spare frames, 5 ranges, 3 pages walked, one frame taken by others | `CachesCoherent`, `MappedPagesTrusted` | 339,567 |
| `take_ownership` | four levels: every shape of the two in the middle, two contents of the lowest tables, every set of free frames among 8 | `CopyIsFaithful`, `FailureIsClean` | 123,904 |
| `uacpi_sync` | two callers; timeouts of the mutex 0, 1, 2 and infinite, of the event 0, one sleep, a little more, infinite; 2 signals | `SignalsConserved`, `FailsOnlyLate`, `FiniteCallsReturn`, `SignalNoticed` | 245,038 |
| `uacpi_map` | ten pages of two bytes, five ranges that share pages, each mapped up to twice | `NoStrayPages`, `LiveMapped` | 1,445,495 |
| `interrupts` | five boards, five irqs of which two share a vector, 3 keys, 2 exceptions | `SlotsKept`, `InterruptsEnd`, `KeysRead` | 26,856 |
| `pci` | three buses of two devices of three functions, five tables | `FoundAll`, `FoundOnce`, `InsideWindow`, `InitReturns` | 117,510 |
| `uacpi_io` | two functions of 8 bytes, 4 of them by ports, 3 ports, accesses of one and two bytes, 2 writes | `RegistersFaithful` | 506,944 |

All pass, the slowest (`vmm`) in about two minutes. Deadlock is checked but in
`interrupts` and `pci`, where the system does stop: `kmain` in `hcf` with no key
pressed any more, and `pci::init` when it has returned.

What they show:

- **Frame allocator.** Whatever callers do, the counter is exact at every turn
  of every loop, following `next` finds every free block, and a free of frames
  of which one is free already is stopped at the head of `free_pages`. A free
  with another order than that of the allocation is accepted if all its frames
  are allocated: the lists stay right, and whose the frames are is for callers
  to know. None is returned only when no aligned run of that size is free.
- **Boot.** For every memory map of the instance the allocator gets the usable
  frames but frame 0 and `frame_order`, and nobody who keeps to the rules meets
  an assertion. With frames in the hand of a running call counted as free, the
  detailed allocator implements `FrameAllocator`.
- **Heap.** Live objects, free objects and slab headers never overlap; every
  slab with a free object is active or on its partial list; slabs on a partial
  list have one, so `unwrap_unchecked` is safe.
- **Locks.** With the code the kernel has, a handler never wants a lock of the
  code it suspended, although `IntLock::try_lock` takes the lock before it
  masks interrupts: handlers take no `IntLock`, and slots are locked by
  kernel code only before interrupts are enabled. Both are assumptions on
  callers (`LocksAssumption`, `IsrSlot`), which new code has to keep. A third
  one (`LockOrder`) is that locks nest in one order, and in it no `IntLock` comes
  inside a slot or a uACPI spinlock: on two CPUs the holder of the spinlock could wait for an `IntLock` whose owner, interrupted
  before it masked, waits for the spinlock. With that nesting (`Acpi`, `Heap`,
  `Pmm`) among the plans `SomeoneRuns` fails; the kernel starts one CPU.
- **Page tables.** A failed `map_range` leaves every translation as it was and no
  table behind; a failed `unmap_range` has removed a prefix. At every step each
  frame is free or a table that exactly one entry points to. That the loader
  leaves no empty table below the root is an assumption (`BootTablesUsed`).
- **TLB.** After `unmap` nothing stale is cached. Two windows are not covered
  by `CachesCoherent`: `reclaim_*` frees a table before `flush_all` (the lock
  is held, and `flush_all` cleans up), and `map` frees the tables it made when
  it runs out of frames without any flush (`mm/vmm.rs:156-165`, `191-204`). In
  the second one the model reaches states in which the walker holds a pointer
  to a free frame until the next flush. `MappedPagesTrusted` says that this does
  no harm to base pages: `map` flushes a page it writes, so what is cached for a
  mapped base page is that page. For large pages it does not hold: the flush of
  one address leaves base entries, found in a freed table, for the others.
- **Waits.** A mutex of uACPI has one owner (`OneOwner`, proved). Of the signals of an event each is
  in the counter, taken by one wait or thrown away by a reset, whatever comes
  between load and exchange. No call with a timeout fails before its time, and
  each returns; a signal ends a wait unless another wait or a reset takes it.
  The deadline of `acquire_mutex` is checked before the first attempt, so a
  caller held up between its two readings of the clock times out without one.
- **Mappings of uACPI.** Whatever the order of calls, a page stays mapped only
  if the bootloader or the kernel mapped it, a live range holds it, or a map
  that ran out of memory left it: these are the cases in which `apic::init` can
  find its page AlreadyMapped. No large page is ever unmapped (`LargePagesStay`, proved). Every byte of a
  live range is mapped (`LiveMapped`) until two live ranges share a page: from
  then on the first unmap takes the page from under the other, since a second
  map of a page is AlreadyMapped, counts as success, and is not counted.
- **Interrupts.** A handler of uACPI keeps its slot, although vectors are cut to
  eight bits. If the keyboard is on pin 1 of the first I/O APIC, its interrupts
  find the handler at 0x21, are ended by it, and every key is read; unless a
  byte was in the controller before the pin was enabled, for then no edge
  follows. On the boards of the instance with the keyboard elsewhere
  `IoApic::enable` gives it another vector, which has no handler and is never
  ended. A handler that uACPI installs is stored and no pin is enabled for it, so
  it never runs.
- **PCI.** The walk lists exactly the functions that can be seen from the first
  bus, each once if the buses make a tree, and reads only what is mapped if the
  entry starts at bus 0 and holds all buses. In the other machines of the
  instance it runs out of stack or reads past the mapping, which is as long as
  the buses from `start_bus` and begins at bus 0.
- **Registers.** What uACPI reads is what was written to that register, by
  ports or by memory, until it asks for an offset of 256 or more before
  `pci::init` (`beyond`): `io_address` cuts the offset to eight bits, and the
  access reaches another register.

Bounds. The memory of 7 frames has one largest block, which splits and merges
through all orders, and frame 6, whose buddy lies past the end; `Mm` has two
largest blocks and one frame more. In `Heap` the three
frames allow one slab per bucket and one more, a large block, or another user
that takes them all; `2^MAX_SHIFT` is above every size of the instance. Two entries a table give every table a neighbour that
keeps it alive and one that does not; five spare frames are enough for two
paths down to base pages, and can run out on every level. Two CPUs with one
handler each give every pair of thread and handler. Interrupts are counted
(`MaxIrqs`), since each one is over before the next begins. Timeouts lie around
the lengths of the sleeps; two signals let one come between load and exchange
after another was loaded (`MaxSignals`). The five ranges of `UacpiMap` overlap
in pairs, reach a large page, a base page of the bootloader and the page of the
I/O APIC; `MaxLive` lets each be mapped twice. In `Interrupts` the second key
(`MaxKeys`) needs the first interrupt to have been ended, the third can come
while the second is pending; exceptions (`MaxTraps`) can come in two
phases. `MaxDepth` in `Pci` is one more than a tree of three buses needs. Two writes (`MaxWrites`) of
`UacpiIo` can meet on one byte with different widths.

Fairness. `Pmm`: weak fairness of the steps of the running
operation. It holds the lock with interrupts masked, so nothing on its CPU
delays it. `Pci`: weak fairness of all steps, the code of `kmain` going on.
`UacpiSync`: time passes, and each caller executes its next step; attempts on a
locked mutex may fail for ever, so only calls with a timeout are said to return.
A wait whose exchange fails because of yet another signal or reset tries again;
that these are finitely many is a bound of the model. `Interrupts`: handlers
return, what can be delivered is, masked sections end, and `kmain` reaches
`hcf`, for which strong fairness stands in because the model lets it enter
sections any number of times before. `Locks` (`OperationsEnd`): each CPU
executes its next instruction sooner or later, and interrupts are finitely
many. With two CPUs a spinning one may starve, the locks having no queue:
`OperationsEnd` promises the end of a section while the other CPUs are idle,
`SomeoneRuns` that they never all wait.

## Proofs

`MmProofs` proves about `Pmm`, for all `MAX_ORDER` up to 254, all memory sizes
and arbitrary callers:

- `Invariant`: `Spec => []IInv`
- `TypeCorrect`, `NoCorruption`, `CounterExact`, `NoneMeansNone`, `NoBlockLost`:
  `TypeOK`, `NeverCorrupt`, `CountMatches`, `ExhaustionIsReal` and
  `ListsComplete` are invariants.

`NeverCorrupt` is not inductive: that a buddy taken from `frame_order` can be
unlinked needs to know that it is the first frame of a whole block and that its
neighbours point back at it. `IInv` adds

- `WholeBlocks`: the frames with order `k` form aligned blocks of `2^k`;
- `HandApart`: the block in the hand of `alloc_pages` or `free_pages` is
  aligned and no part of it is on a list;
- `Linked`: heads, `prev` and `next` of the free blocks agree;
- `NoCycles`: any set of free blocks of one order has one whose `prev` is not in
  it, so that an order with a free block has a head;
- `NoFreeBuddies`: merging is eager.

The lemmas go from arithmetic (aligned blocks that share a frame are nested,
halves and buddies), to `list_push` and `list_remove` (`PushBlocks`,
`RemoveBlocks`, `PushLinked`, `RemoveLinked`, `CountBlock`), to one lemma per
action, to `Inductive`. `NoneMeansNone` then argues by a least counterexample:
if an aligned block were free in smaller pieces only, take the least order at
which this happens; its halves are whole free blocks, and buddies.
`NoBlockLost` takes `ListsComplete` as a least set closed under `next`: a free
block that following `next` misses would be the first, in the order of
`NoCycles`, of those it misses; it is the head, or its `prev` leads to it.

For boot and callers that keep to the rules, and any well-formed memory map, it
goes on to `NothingLost` (every frame is free or has exactly one owner),
`NoPanic` and `Refines`, the implementation of `FrameAllocator` (initial states map to initial states,
every step to a step or a stutter). The invariant `MmIInv` adds to `IInv` how
far boot has come (`Stages`), that the pieces still to be donated are apart
from what is free (`Giving`), that blocks with an owner are whole and unlisted
(`OwnedWhole`), and the two properties themselves.

`VmmInvariant` and `VmmProofs`, for any number of entries per table, any loader's tables that form
a tree, and any ranges and order of calls: `TablesAreAccounted`
(`TablesAccounted`), `NoTableStaysEmpty` (`NoEmptyTables`), `MapIsAllOrNothing`
(`MapAllOrNothing`), `UnmapIsAPrefix` (`UnmapIsPrefix`) and `PagesComeAndGo`, the
implementation of `AddressSpace`. None of them is inductive: that a walk for one
address is not disturbed by what happens to another depends on the tables being
a tree, and that a rollback succeeds on what the call has mapped so far. The
invariant `Inv`, proved in `VmmInvariant`, has

- `Shaped`: the frames are free, somebody else's, or tables of a `Tree`, in which
  each entry is empty, a page, or the only pointer to a table one level down;
- `OnPath`: the tables in hand are those a walk for the page of the call passes,
  and the page is canonical and aligned;
- `OnlyNew`: the tables that `map` has made for this page hold nothing but each
  other, so that giving them back loses no page;
- `Used`: only the table in hand can be empty, and the others have an entry that
  does not lead to a new table;
- `SoFar`: how far the call has come. The first pages of a `map_range` are mapped
  and were not before; those a rollback has still to unmap stand, and are
  canonical and aligned (so none of its errors, which it ignores, can occur); the
  first pages of an `unmap_range` are gone and were there before.

The lemmas go from quotients (`Quotient`, `SameBlock`: addresses share a block if
they share the block above and the index in it) to walks in a tree (`WalkSame`,
`WalkApart`: two canonical addresses meet in a table if and only if they share
its block) to what is done to a tree: dropping tables without pages
(`PrunedTree`, `PrunedLeaves`), adding one (`Grown`), writing an entry
(`WrittenTree`, `WrittenLeaves`). There is then one lemma per action and part of
the invariant. `TablesAccounted` follows by going down the tree level by level.

About the CPU, with others taking and giving frames, `VmmProofs` has `CachesStayCoherent`
(`CachesCoherent`) and `MappedPagesStayTrusted` (`MappedPagesTrusted`). `Coherent`
adds that a cached pointer is not the root, where every failed walk ends;
`Trusted` that a cached pointer for the block of a mapped base page is the table
of that page's walk, whatever the other pointers are. Freed tables are never on
such a walk, and the flush of a page that is written drops every pointer.

`HeapProofs`, for any frame and bucket sizes, layouts, memory and order of calls:
`AllocationsApart` (`LiveApart`), `ObjectsNeverLost` (`ObjectsConserved`),
`SlabsStayFindable` (`SlabsFindable`). None of the three is inductive: that a
freed pointer goes back to the slab it came from depends on what everybody else
holds, and on the arithmetic of `bucket_for`, `order_for_large` and `SLAB_MASK`.
The invariant, `IInv` of `HeapProofs`, has

- `BlocksApart`: the blocks the frame allocator has given out are apart from each
  other and from what is free;
- `FramesHeld`: slabs and other users hold their frames, and no frame is both;
- `Apportioned`: a live small allocation lies in a slab of its bucket, a large
  one is an aligned block of its own (`LiveHeld`); the objects of a slab are
  split between its free list, without repetition, and the live allocations in
  its frame (`Conserved`);
- `Listed`: what is active or on a partial list is a slab of that bucket, in one
  place; slabs on a partial list have a free object, and a slab that has one is
  active or listed;
- that `unwrap_unchecked` has not met None.

The lemmas begin with powers of two (`PowAdd`, `PowDivides`), quotients and
remainders: objects of a slab are apart, lie behind the header, and rounding
down finds their frame; the bucket holds size and alignment. There is then one
lemma per action. `LiveApart` follows from `IInv` without another
induction: bytes that two extents share would be in one frame, hence in one
slab, hence in one object. Assumed are what the constants of `heap.rs` and the
type `Layout` satisfy: the frame is a power of two no smaller than the largest
bucket, the direct map begins at a multiple of the largest block, sizes are
positive and alignments powers of two up to `2^MAX_SHIFT`, and each slab has
room for an object, as `refill` asserts.

`LocksProofs`, for any number of CPUs of which one (`Bsp`) boots the others, any
locks, and nestings in which slots are left to the time before interrupts:
`BooksAlwaysRight`, `LocksExclude`, `FlagAlwaysRestored`,
`AlwaysMaskedInside`, `HandlersNeverSelfDeadlock`. The invariant `IInv` keeps
books for each CPU: which flag each section on its stack will restore, that
only the outermost can restore a set one, that `saved_if` of a lock belongs to
its owner, and which locks the handler has. `NeverAllWaiting` is the proof of
`SomeoneRuns` for any number of CPUs whose nestings follow `LockOrder`: `Rank`
grows from each lock to those taken inside it, and from the `IntLock`s to the
slot and the spinlock of a handler. Its invariant `WaitInv` adds to `IInv` that a
lock that is taken has an owner (`OwnersExist`), that what a CPU has still to
enter ranks above what it is in (`Nested`), and that until the first CPU has
booted the others own nothing (`Booting`). Among waiting CPUs one waits for a
lock of the highest rank; were its owner waiting too, it would be for a
higher one (`Upwards`).

`UacpiSyncProofs`, for any callers, timeouts and clock: `MutexHasOneOwner`,
`SignalsAlwaysConserved`, `NeverFailsEarly`. The last needs that time waited and
time left add up to the timeout (`Budgeted`).

`UacpiProofs`, for any page size, ranges and boot mappings:
`NothingLeftMapped`, `LargePagesAlwaysStay`, `ApartStaysMapped`. `ApartInv`
says that the pages of live ranges, and of the call that runs as far as it has come, are covered and apart, until `shared` is set.

It also has, for any functions, ports and widths, `AlwaysFaithful`. The
arithmetic of `io_address` and the port number gives back the byte that was meant (`ThroughPorts`); the rest is that stores to equal places
keep `regs` and `written` equal.

`DeviceProofs`, for any interrupt table of the firmware and any irqs:
`SlotsAlwaysKept`, `InterruptsAlwaysEnd`. `KeyboardOnly` says that nothing but
the keyboard is ever routed, pending or in service.

About PCI it has, for any machine, `NeverOutside`, from `PciInv`: every bus on the
stack is one of the entry, and the pages of these are below the end of the
mapping. `FindsAll` and `FindsOnce` are about the recursion as a whole. The
invariant `WalkInv` says of the stack and the functions found so far that
what was found can be seen from the first bus (`Sound`); that what is visible on
a bus that was entered has been found or is ahead of a call of `enum_bus` on the
stack (`Complete`), so that with an empty stack everything has been found; and,
on a tree, that a bus is on the stack once and what was found of it is behind
the call that walks it (`Single`).

Assumptions are those named `...Assumption` in the modules, `MemMapsWellFormed`,
`LockOrder`, `BootTree` and `BootTablesUsed` (the tables of the loader, as
`take_ownership` copies them, are a tree without empty tables), and
`PowersOfTwo` (`2^(k+1) = 2 * 2^k`) and `PowersOfEntries`, facts of arithmetic
the provers do not have; TLC evaluates all of them.

Only model-checked: `OperationsEnd` of `Pmm` and of `Locks`,
`FiniteCallsReturn`, `SignalNoticed`, `KeysRead` and `InitReturns`, which need
fairness; and `TakeOwnership`, whose recursive operators the provers do not
take.

## Not modelled

`gdt.rs`, the set-up of `serial.rs` and `tsc.rs`, the framebuffer and the build
write registers, tables and ports once and keep no state that steps could bring
out of order. uACPI itself is C code outside the repository: `acpi::init` only
calls it, and its order of calls is arbitrary in the models, within the rules of
its interface (it unmaps what it mapped, releases what it acquired, uses handles
that are open, installs handlers during `acpi::init`). Its callbacks for the
log, the RSDP and the thread id have no state; `schedule_work` and
`wait_for_work_completion` are unimplemented in the source. The kernel has one
thread; more callers of mutexes and events than one are what the interface
promises, not what runs today. `alloc` and `free` of uACPI are calls of the heap
with an alignment of 16. Spurious vectors of the local APIC, which the kernel
does not set up, are left out. The first MCFG entry is read without a look at
the length of the table: of a table without entries, `entries` in `Pci` stands for
what lies behind it. `pmm::reclaim_bootloader`
has no caller; what it does to the allocator is `AddRange`.
