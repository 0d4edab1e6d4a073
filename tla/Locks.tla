-------------------------------- MODULE Locks --------------------------------
(***************************************************************************)
(* Locks and the interrupt flag: IntLock, SpinLock and critical_section     *)
(* (utils.rs), the uACPI spinlock that masks interrupts around a SpinLock   *)
(* (acpi/uacpi.rs), and the interrupt path of idt.rs, one memory access or  *)
(* instruction per step.                                                    *)
(*                                                                          *)
(* Each CPU runs kernel code, here called its thread, which an interrupt    *)
(* handler can suspend between any two steps while the interrupt flag is    *)
(* set.  The kernel starts one CPU; the locks are atomics meant for more,   *)
(* so the number of CPUs is a parameter: the others run once the first one  *)
(* has booted.                                                              *)
(***************************************************************************)
EXTENDS Naturals, Sequences

CONSTANTS
  CPUs, Bsp, \* Bsp boots
  IntLocks,  \* PMM, HEAP, VMM and the other Singletons
  Acpi,      \* a spinlock of uACPI, taken by threads and by its handlers
  Slot,      \* the lock of one HANDLERS entry
  Critical,  \* critical_section, around the serial port: no lock, only the flag
  BootPlans, RunPlans,  \* nestings of sections that kernel code uses
  Rank,      \* the order in which locks nest
  MaxIrqs    \* bound on the number of interrupts delivered

Locks == IntLocks \cup {Acpi, Slot}
Sections == Locks \cup {Critical}

ASSUME LocksAssumption ==
  /\ Bsp \in CPUs
  /\ Acpi \notin IntLocks /\ Slot \notin IntLocks /\ Acpi # Slot
  /\ Critical \notin Locks
  /\ BootPlans \cup RunPlans \subseteq Seq(Sections) \ {<<>>}
  \* handlers are installed before apic::init enables interrupts
  /\ \A p \in RunPlans : \A i \in DOMAIN p : p[i] # Slot
  /\ MaxIrqs \in Nat

(***************************************************************************)
(* Once interrupts are on, locks are taken in ascending order: those of    *)
(* the handlers, a slot and then a spinlock of uACPI, come after the       *)
(* IntLocks of the code they may suspend.  Before, nothing is taken twice. *)
(***************************************************************************)
ASSUME LockOrder ==
  /\ Rank \in [Locks -> Nat] /\ Rank[Slot] < Rank[Acpi]
  /\ \A l \in IntLocks : Rank[l] < Rank[Slot]
  /\ \A p \in RunPlans : \A i, j \in DOMAIN p :
       i < j /\ p[i] # Critical /\ p[j] # Critical => Rank[p[i]] < Rank[p[j]]
  /\ \A p \in BootPlans : \A i, j \in DOMAIN p : i < j /\ p[i] = p[j] => p[i] = Critical

VARIABLES
  locked,    \* the AtomicBool of each lock
  saved_if,  \* the UnsafeCell of each IntLock
  flags_if,  \* interrupt flag of each CPU
  enabled,   \* history: the flag as irq::enable left it
  pc,        \* thread of each CPU
  plan,      \* sections the thread has still to enter
  held,      \* sections it is in, innermost last, with the flags its stack keeps
  flags,     \* the flags just read by critical_section or lock_spinlock
  restore,   \* local of IntLock::unlock
  isr,       \* interrupt handler of each CPU, "none" when there is none
  irqs       \* interrupts delivered so far

vars == <<locked, saved_if, flags_if, enabled, pc, plan, held, flags, restore, isr, irqs>>
thread == <<pc, plan, held, flags, restore>>

Runs(c) == isr[c] = "none"   \* the thread of c is not suspended
Goto(c, l) == pc' = [pc EXCEPT ![c] = l]
Wants(c) == Head(plan[c])
Innermost(c) == held[c][Len(held[c])]

\* Mutant: a load and a store instead of one compare_exchange.
CompareExchange_Blind(l) == locked' = [locked EXCEPT ![l] = TRUE]

\* compare_exchange(false, true) that succeeds.
CompareExchange(l) == ~locked[l] /\ locked' = [locked EXCEPT ![l] = TRUE]

-----------------------------------------------------------------------------
(***************************************************************************)
(* Entering the next section of the plan.                                  *)
(***************************************************************************)
\* The other CPUs run kernel code only once the first one has finished booting.
Started(c) == c = Bsp \/ enabled[Bsp]

Begin(c) ==
  /\ Started(c) /\ Runs(c) /\ pc[c] = "idle"
  /\ \E p \in IF enabled[Bsp] THEN RunPlans ELSE BootPlans \cup RunPlans :
       plan' = [plan EXCEPT ![c] = p]
  /\ Goto(c, "try")
  /\ UNCHANGED <<locked, saved_if, flags_if, enabled, held, flags, restore, isr, irqs>>

\* The section is entered; fl is what its code keeps on the stack.
Entered(c, fl) ==
  /\ held' = [held EXCEPT ![c] = Append(@, [lock |-> Wants(c), flags |-> fl])]
  /\ plan' = [plan EXCEPT ![c] = Tail(@)]
  /\ flags' = [flags EXCEPT ![c] = FALSE]
  /\ Goto(c, IF Tail(plan[c]) = <<>> THEN "inside" ELSE "try")

\* IntLock::try_lock
IntCas(c) ==
  /\ Runs(c) /\ pc[c] = "try" /\ Wants(c) \in IntLocks
  /\ CompareExchange(Wants(c))
  /\ Goto(c, "save")
  /\ UNCHANGED <<saved_if, flags_if, enabled, plan, held, flags, restore, isr, irqs>>

IntSave(c) ==
  /\ Runs(c) /\ pc[c] = "save"
  /\ saved_if' = [saved_if EXCEPT ![Wants(c)] = flags_if[c]]
  /\ Goto(c, "mask")
  /\ UNCHANGED <<locked, flags_if, enabled, plan, held, flags, restore, isr, irqs>>

\* Mutant: a lock found with interrupts off is given back and tried again.
IntMask_Retries(c) ==
  /\ Runs(c) /\ pc[c] = "mask"
  /\ IF saved_if[Wants(c)]
     THEN /\ flags_if' = [flags_if EXCEPT ![c] = FALSE]
          /\ Entered(c, FALSE)
          /\ UNCHANGED locked
     ELSE /\ locked' = [locked EXCEPT ![Wants(c)] = FALSE]
          /\ Goto(c, "try")
          /\ UNCHANGED <<flags_if, plan, held, flags>>
  /\ UNCHANGED <<saved_if, enabled, restore, isr, irqs>>

IntMask(c) ==
  /\ Runs(c) /\ pc[c] = "mask"
  /\ flags_if' = [flags_if EXCEPT ![c] = FALSE]
  /\ Entered(c, FALSE)
  /\ UNCHANGED <<locked, saved_if, enabled, restore, isr, irqs>>

\* Mutant: the lock is taken before interrupts are masked.
ReadFlags_LockFirst(c) ==
  /\ Runs(c) /\ pc[c] = "try" /\ Wants(c) \in {Acpi, Critical}
  /\ IF Wants(c) = Acpi THEN CompareExchange(Acpi) /\ Goto(c, "mask")
                        ELSE UNCHANGED locked /\ Goto(c, "cli")
  /\ flags' = [flags EXCEPT ![c] = flags_if[c]]
  /\ UNCHANGED <<saved_if, flags_if, enabled, plan, held, restore, isr, irqs>>

\* uacpi_kernel_lock_spinlock and critical_section read the flags, ...
ReadFlags(c) ==
  /\ Runs(c) /\ pc[c] = "try" /\ Wants(c) \in {Acpi, Critical}
  /\ flags' = [flags EXCEPT ![c] = flags_if[c]]
  /\ Goto(c, "cli")
  /\ UNCHANGED <<locked, saved_if, flags_if, enabled, plan, held, restore, isr, irqs>>

\* ... and mask interrupts: that is all critical_section does, ...
CriticalMask(c) ==
  /\ Runs(c) /\ pc[c] = "cli" /\ Wants(c) = Critical
  /\ flags_if' = [flags_if EXCEPT ![c] = FALSE]
  /\ Entered(c, flags[c])
  /\ UNCHANGED <<locked, saved_if, enabled, restore, isr, irqs>>

\* ... and lock_spinlock then spins.
AcpiMask(c) ==
  /\ Runs(c) /\ pc[c] = "cli" /\ Wants(c) = Acpi
  /\ flags_if' = [flags_if EXCEPT ![c] = FALSE]
  /\ Goto(c, "cas")
  /\ UNCHANGED <<locked, saved_if, enabled, plan, held, flags, restore, isr, irqs>>

AcpiCas(c) ==
  /\ Runs(c) /\ pc[c] = "cas"
  /\ CompareExchange(Acpi)
  /\ Entered(c, flags[c])
  /\ UNCHANGED <<saved_if, flags_if, enabled, restore, isr, irqs>>

\* install_handler and clear_handler lock a slot with a plain SpinLock.
SlotCas(c) ==
  /\ Runs(c) /\ pc[c] = "try" /\ Wants(c) = Slot
  /\ CompareExchange(Slot)
  /\ Entered(c, FALSE)
  /\ UNCHANGED <<saved_if, flags_if, enabled, restore, isr, irqs>>

-----------------------------------------------------------------------------

(***************************************************************************)
(* Sections are left innermost first.                                      *)
(***************************************************************************)
Left(c) ==
  /\ held' = [held EXCEPT ![c] = SubSeq(@, 1, Len(@) - 1)]
  /\ Goto(c, IF Len(held[c]) = 1 THEN "idle" ELSE "inside")

\* IntLock::unlock
IntRead(c) ==
  /\ Runs(c) /\ pc[c] = "inside" /\ Innermost(c).lock \in IntLocks
  /\ restore' = [restore EXCEPT ![c] = saved_if[Innermost(c).lock]]
  /\ Goto(c, "release")
  /\ UNCHANGED <<locked, saved_if, flags_if, enabled, plan, held, flags, isr, irqs>>

IntRelease(c) ==
  /\ Runs(c) /\ pc[c] = "release"
  /\ locked' = [locked EXCEPT ![Innermost(c).lock] = FALSE]
  /\ Goto(c, "unmask")
  /\ UNCHANGED <<saved_if, flags_if, enabled, plan, held, flags, restore, isr, irqs>>

\* Mutant: saved_if is read when the lock is already released.
IntUnmask_Late(c) ==
  /\ Runs(c) /\ pc[c] = "unmask"
  /\ flags_if' = [flags_if EXCEPT ![c] = @ \/ saved_if[Innermost(c).lock]]
  /\ restore' = [restore EXCEPT ![c] = FALSE]
  /\ Left(c)
  /\ UNCHANGED <<locked, saved_if, enabled, plan, flags, isr, irqs>>

\* Mutant: interrupts are enabled whatever they were before.
IntUnmask_Always(c) ==
  /\ Runs(c) /\ pc[c] = "unmask"
  /\ flags_if' = [flags_if EXCEPT ![c] = TRUE]
  /\ restore' = [restore EXCEPT ![c] = FALSE]
  /\ Left(c)
  /\ UNCHANGED <<locked, saved_if, enabled, plan, flags, isr, irqs>>

IntUnmask(c) ==
  /\ Runs(c) /\ pc[c] = "unmask"
  /\ flags_if' = [flags_if EXCEPT ![c] = @ \/ restore[c]]
  /\ restore' = [restore EXCEPT ![c] = FALSE]
  /\ Left(c)
  /\ UNCHANGED <<locked, saved_if, enabled, plan, flags, isr, irqs>>

\* Mutant: only the flags are restored.
AcpiRelease_Forgets(c) ==
  /\ Runs(c) /\ pc[c] = "inside" /\ Innermost(c).lock = Acpi
  /\ Goto(c, "sti")
  /\ UNCHANGED <<locked, saved_if, flags_if, enabled, plan, held, flags, restore, isr, irqs>>

\* uacpi_kernel_unlock_spinlock: releases, then restores the flags.
AcpiRelease(c) ==
  /\ Runs(c) /\ pc[c] = "inside" /\ Innermost(c).lock = Acpi
  /\ locked' = [locked EXCEPT ![Acpi] = FALSE]
  /\ Goto(c, "sti")
  /\ UNCHANGED <<saved_if, flags_if, enabled, plan, held, flags, restore, isr, irqs>>

\* The end of unlock_spinlock and of critical_section.
RestoreFlags(c) ==
  /\ Runs(c)
  /\ \/ pc[c] = "sti"
     \/ pc[c] = "inside" /\ Innermost(c).lock = Critical
  /\ flags_if' = [flags_if EXCEPT ![c] = @ \/ Innermost(c).flags]
  /\ Left(c)
  /\ UNCHANGED <<locked, saved_if, enabled, plan, flags, restore, isr, irqs>>

SlotRelease(c) ==
  /\ Runs(c) /\ pc[c] = "inside" /\ Innermost(c).lock = Slot
  /\ locked' = [locked EXCEPT ![Slot] = FALSE]
  /\ Left(c)
  /\ UNCHANGED <<saved_if, flags_if, enabled, plan, flags, restore, isr, irqs>>

\* apic::init: irq::enable
Enable(c) ==
  /\ Started(c) /\ Runs(c) /\ pc[c] = "idle" /\ ~enabled[c]
  /\ flags_if' = [flags_if EXCEPT ![c] = TRUE]
  /\ enabled' = [enabled EXCEPT ![c] = TRUE]
  /\ UNCHANGED <<locked, saved_if, thread, isr, irqs>>

-----------------------------------------------------------------------------
(***************************************************************************)
(* An interrupt: the gate clears the flag, isr_handler locks the slot and  *)
(* calls the handler with the slot held; a uACPI handler locks a uACPI     *)
(* spinlock; iretq sets the flag again.                                    *)
(***************************************************************************)
Goes(c, from, to) == isr[c] = from /\ isr' = [isr EXCEPT ![c] = to]

Interrupt(c) ==
  /\ flags_if[c] /\ irqs < MaxIrqs
  /\ Goes(c, "none", "slot")
  /\ flags_if' = [flags_if EXCEPT ![c] = FALSE]
  /\ irqs' = irqs + 1
  /\ UNCHANGED <<locked, saved_if, enabled, thread>>

\* The handler of the slot, if there is one, locks a uACPI spinlock or none.
IsrSlot(c) ==
  /\ Goes(c, "slot", "handler") \/ Goes(c, "slot", "return")
  /\ CompareExchange(Slot)
  /\ UNCHANGED <<saved_if, flags_if, enabled, thread, irqs>>

IsrAcpi(c) ==
  /\ Goes(c, "handler", "acpi")
  /\ CompareExchange(Acpi)
  /\ UNCHANGED <<saved_if, flags_if, enabled, thread, irqs>>

IsrAcpiDone(c) ==
  /\ Goes(c, "acpi", "return")
  /\ locked' = [locked EXCEPT ![Acpi] = FALSE]
  /\ UNCHANGED <<saved_if, flags_if, enabled, thread, irqs>>

IsrSlotDone(c) ==
  /\ Goes(c, "return", "iretq")
  /\ locked' = [locked EXCEPT ![Slot] = FALSE]
  /\ UNCHANGED <<saved_if, flags_if, enabled, thread, irqs>>

iretq(c) ==
  /\ Goes(c, "iretq", "none")
  /\ flags_if' = [flags_if EXCEPT ![c] = TRUE]
  /\ UNCHANGED <<locked, saved_if, enabled, thread, irqs>>

-----------------------------------------------------------------------------
\* c can only spin: compare_exchange fails as long as the lock is taken.
Blocked(c) ==
  \/ Runs(c) /\ pc[c] = "try" /\ Wants(c) \in Locks \ {Acpi} /\ locked[Wants(c)]
  \/ Runs(c) /\ pc[c] = "cas" /\ locked[Acpi]
  \/ isr[c] = "slot" /\ locked[Slot]
  \/ isr[c] = "handler" /\ locked[Acpi]

Spin(c) == Blocked(c) /\ UNCHANGED vars

Init ==
  /\ locked = [l \in Locks |-> FALSE]
  /\ saved_if = [l \in IntLocks |-> FALSE]
  /\ flags_if = [c \in CPUs |-> FALSE] /\ enabled = [c \in CPUs |-> FALSE]
  /\ pc = [c \in CPUs |-> "idle"]
  /\ plan = [c \in CPUs |-> <<>>] /\ held = [c \in CPUs |-> <<>>]
  /\ flags = [c \in CPUs |-> FALSE] /\ restore = [c \in CPUs |-> FALSE]
  /\ isr = [c \in CPUs |-> "none"] /\ irqs = 0

Step(c) ==
  \/ IntCas(c) \/ IntSave(c) \/ IntMask(c)
  \/ ReadFlags(c) \/ CriticalMask(c) \/ AcpiMask(c) \/ AcpiCas(c) \/ SlotCas(c)
  \/ IntRead(c) \/ IntRelease(c) \/ IntUnmask(c)
  \/ AcpiRelease(c) \/ RestoreFlags(c) \/ SlotRelease(c)
  \/ IsrSlot(c) \/ IsrAcpi(c) \/ IsrAcpiDone(c) \/ IsrSlotDone(c) \/ iretq(c)

Next == \E c \in CPUs : Begin(c) \/ Enable(c) \/ Interrupt(c) \/ Step(c) \/ Spin(c)

Spec == Init /\ [][Next]_vars

\* A CPU executes its next instruction sooner or later.
FairSpec == Spec /\ \A c \in CPUs : WF_vars(Step(c))
-----------------------------------------------------------------------------
Entering == {"try", "save", "mask", "cli", "cas"}
Leaving == {"inside", "release", "unmask", "sti"}

(***************************************************************************)
(* Types, and the shape of a critical section: sections left to enter      *)
(* exactly while entering them, none when it is over.                      *)
(***************************************************************************)
TypeOK ==
  /\ locked \in [Locks -> BOOLEAN] /\ saved_if \in [IntLocks -> BOOLEAN]
  /\ flags_if \in [CPUs -> BOOLEAN] /\ enabled \in [CPUs -> BOOLEAN]
  /\ pc \in [CPUs -> {"idle"} \cup Entering \cup Leaving]
  /\ plan \in [CPUs -> Seq(Sections)]
  /\ held \in [CPUs -> Seq([lock : Sections, flags : BOOLEAN])]
  /\ flags \in [CPUs -> BOOLEAN] /\ restore \in [CPUs -> BOOLEAN]
  /\ isr \in [CPUs -> {"none", "slot", "handler", "acpi", "return", "iretq"}]
  /\ irqs \in 0..MaxIrqs
  /\ \A c \in CPUs : /\ (plan[c] # <<>>) <=> (pc[c] \in Entering)
                     /\ pc[c] = "idle" => held[c] = <<>>
                     /\ pc[c] \in Leaving => held[c] # <<>>

\* The i-th section of c is a lock it has not yet released.
Keeps(c, i) == i \in DOMAIN held[c] /\ (i = Len(held[c]) => pc[c] \notin {"unmask", "sti"})

\* The thread or the handler of c has taken l and not yet released it.
ThreadOwns(c, l) ==
  \/ \E i \in DOMAIN held[c] : Keeps(c, i) /\ held[c][i].lock = l
  \/ pc[c] \in {"save", "mask"} /\ l = Wants(c)
IsrOwns(c, l) ==
  \/ l = Slot /\ isr[c] \in {"handler", "acpi", "return"}
  \/ l = Acpi /\ isr[c] = "acpi"

Agents == CPUs \X {"thread", "isr"}
Owns(w, l) == IF w[2] = "thread" THEN ThreadOwns(w[1], l) ELSE IsrOwns(w[1], l)

(***************************************************************************)
(* Mutual exclusion: a lock has one owner, thread or handler, of all CPUs, *)
(* and is marked locked as long as it has one.                             *)
(***************************************************************************)
MutualExclusion ==
  \A l \in Locks : \A v, w \in Agents :
    Owns(v, l) => locked[l] /\ (Owns(w, l) => v = w)

(***************************************************************************)
(* A critical section ends with the interrupt flag it began with, however  *)
(* its locks nest, and whoever took the same IntLock meanwhile and wrote   *)
(* its saved_if.                                                           *)
(***************************************************************************)
FlagRestored == \A c \in CPUs : Runs(c) /\ pc[c] = "idle" => flags_if[c] = enabled[c]

(***************************************************************************)
(* No handler runs on a CPU whose thread is inside an IntLock, a uACPI     *)
(* spinlock or a write to the serial port, until its irq::enable; the      *)
(* steps between the compare_exchange of IntLock::try_lock and its         *)
(* irq::disable are the exception.                                         *)
(***************************************************************************)
MaskedInside == \A c \in CPUs : held[c] # <<>> => ~flags_if[c] /\ Runs(c)

(***************************************************************************)
(* A handler never spins on a lock that the thread it suspended owns: that *)
(* thread could never release it.  Handlers take HANDLERS slots and uACPI  *)
(* spinlocks; threads own those only with interrupts off.                  *)
(***************************************************************************)
NoSelfDeadlock ==
  \A c \in CPUs :
    /\ isr[c] = "slot" => ~ThreadOwns(c, Slot)
    /\ isr[c] = "handler" => ~ThreadOwns(c, Acpi)

(***************************************************************************)
(* The CPUs never all wait for each other: the heap and the page tables    *)
(* call the frame allocator, and nothing takes locks the other way round.  *)
(***************************************************************************)
SomeoneRuns == \E c \in CPUs : ~Blocked(c)

\* The interrupt flag of the thread: a suspended thread had it set.
ThreadIf(c) == flags_if[c] \/ ~Runs(c)

\* What the sections of c have saved: only the outermost one saw the flag set.
Bookkeeping(c) ==
  /\ \A i, j \in DOMAIN held[c] :
       held[c][i].lock = held[c][j].lock /\ held[c][i].lock # Critical => i = j
  /\ pc[c] \in {"save", "mask"} => /\ Wants(c) \in IntLocks
                                  /\ \A i \in DOMAIN held[c] : held[c][i].lock # Wants(c)
  /\ pc[c] = "cli" => Wants(c) \in {Acpi, Critical}
  /\ pc[c] = "cas" => Wants(c) = Acpi
  /\ pc[c] \in {"release", "unmask"} => Innermost(c).lock \in IntLocks
  /\ pc[c] = "sti" => Innermost(c).lock = Acpi
  /\ ~Runs(c) => ~flags_if[c]
  /\ ThreadIf(c) <=> enabled[c] /\ held[c] = <<>> /\ pc[c] # "cas"
  /\ enabled[c] => /\ \A i \in DOMAIN plan[c] : plan[c][i] # Slot
                   /\ \A i \in DOMAIN held[c] : held[c][i].lock # Slot
  /\ \A i \in DOMAIN held[c] :
       /\ held[c][i].lock \in IntLocks /\ Keeps(c, i)
            => (saved_if[held[c][i].lock] <=> i = 1 /\ enabled[c])
       /\ held[c][i].lock \in {Acpi, Critical} => (held[c][i].flags <=> i = 1 /\ enabled[c])
  /\ pc[c] = "mask" => (saved_if[Wants(c)] <=> held[c] = <<>> /\ enabled[c])
  /\ pc[c] \in {"cli", "cas"} => (flags[c] <=> held[c] = <<>> /\ enabled[c])
  /\ pc[c] \in {"release", "unmask"} => (restore[c] <=> Len(held[c]) = 1 /\ enabled[c])

(***************************************************************************)
(* The inductive invariant behind MutualExclusion, FlagRestored,           *)
(* MaskedInside and NoSelfDeadlock: every flag saved on a stack or in an   *)
(* IntLock is the flag the outermost section found, or FALSE.              *)
(***************************************************************************)
IInv == TypeOK /\ MutualExclusion /\ \A c \in CPUs : Bookkeeping(c)

\* What is entered inside l: another lock, one of a higher rank after boot.
Inside(l, m) ==
  l # Critical /\ m # Critical => l # m /\ (enabled[Bsp] => Rank[l] < Rank[m])

\* What c has still to enter is inside all it has entered.
Nested(c) ==
  /\ \A i, j \in DOMAIN plan[c] : i < j => Inside(plan[c][i], plan[c][j])
  /\ \A i \in DOMAIN held[c], j \in DOMAIN plan[c] : Inside(held[c][i].lock, plan[c][j])

\* A lock that is taken has an owner, who can give it back.
OwnersExist == \A l \in Locks : locked[l] => \E w \in Agents : Owns(w, l)

\* The other CPUs wait for the first one to boot.
Booting == ~enabled[Bsp] => \A c \in CPUs \ {Bsp} : pc[c] = "idle" /\ Runs(c) /\ ~enabled[c]

\* The inductive invariant behind SomeoneRuns.
WaitInv == IInv /\ OwnersExist /\ Booting /\ \A c \in CPUs : Nested(c)

(***************************************************************************)
(* Every operation gets its locks and gives them back, unless another CPU  *)
(* keeps taking them: no lock is left taken by anyone, and no handler      *)
(* spins for ever.                                                         *)
(***************************************************************************)
OthersIdle(c) == \A d \in CPUs \ {c} : pc[d] = "idle" /\ Runs(d)
OperationsEnd == \A c \in CPUs : pc[c] # "idle" ~> (pc[c] = "idle" \/ ~OthersIdle(c))
=============================================================================
