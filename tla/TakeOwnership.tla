--------------------------- MODULE TakeOwnership ---------------------------
(***************************************************************************)
(* vmm::take_ownership (kernel/src/mm/vmm.rs): at boot the page tables the *)
(* bootloader left, in memory the kernel does not manage, are copied into  *)
(* frames of its own, and CR3 is pointed at the copy.  clone_table and     *)
(* free_cloned_table are the recursive functions of the source; a memory   *)
(* `m' is the contents of all tables, the free frames, and the frame the   *)
(* last call returned.                                                     *)
(***************************************************************************)
EXTENDS Integers, FiniteSets

CONSTANTS
  ENTRIES,   \* entries of a table (512 in the source)
  TOP,       \* level of the top-level table (3 in the source)
  BootRoot,  \* frame CR3 points to at boot
  BootMems,  \* the tables a bootloader may leave: [frame -> entries]
  Owned      \* frames of the frame allocator, none of them the bootloader's

ASSUME OwnershipAssumption ==
  /\ ENTRIES \in Nat \ {0} /\ TOP \in Nat
  /\ \A m \in BootMems : BootRoot \in DOMAIN m /\ DOMAIN m \cap Owned = {}

VARIABLES boot_mem, mem, free, cr3, state

vars == <<boot_mem, mem, free, cr3, state>>

Indexes == 0..(ENTRIES - 1)
None == -1
Nothing == [kind |-> "none", at |-> 0]
TableAt(f) == [kind |-> "table", at |-> f]
PageAt(p) == [kind |-> "page", at |-> p]
Zeroed == [x \in Indexes |-> Nothing]
Junk == [x \in Indexes |-> [kind |-> "junk", at |-> 0]]

-----------------------------------------------------------------------------
alloc_frame(m) ==
  IF m.free = {} THEN [m EXCEPT !.at = None]
  ELSE LET f == CHOOSE g \in m.free : \A h \in m.free : g <= h
       IN  [m EXCEPT !.free = @ \ {f}, !.at = f]

free_frame(m, f) == [m EXCEPT !.free = @ \cup {f}, !.mem[f] = Junk]

\* Present entries that are not leaves: level 0 has pages only, PS marks them
\* on the two levels above.
Child(m, f, x) == m.mem[f][x].kind = "table"

\* Mutant: the tables below are forgotten.
free_cloned_table_TopOnly(m, f) == free_frame(m, f)

RECURSIVE free_cloned_table(_, _), FreeChildren(_, _, _)
FreeChildren(m, f, x) ==
  IF x = ENTRIES THEN m
  ELSE FreeChildren(IF Child(m, f, x) THEN free_cloned_table(m, m.mem[f][x].at) ELSE m, f, x + 1)
free_cloned_table(m, f) == free_frame(FreeChildren(m, f, 0), f)

RECURSIVE clone_table(_, _), CopyEntries(_, _, _, _)

\* Mutant: entries are copied as they are, tables of the bootloader included.
CopyEntries_Shallow(m, src, dst, x) ==
  [m EXCEPT !.mem[dst] = m.mem[src], !.at = dst]

CopyEntries(m, src, dst, x) ==
  IF x = ENTRIES THEN [m EXCEPT !.at = dst]
  ELSE IF ~Child(m, src, x)
  THEN CopyEntries([m EXCEPT !.mem[dst][x] = m.mem[src][x]], src, dst, x + 1)
  ELSE LET n == clone_table(m, m.mem[src][x].at) IN
         IF n.at = None
         THEN [free_cloned_table(n, dst) EXCEPT !.at = None]
         ELSE CopyEntries([n EXCEPT !.mem[dst][x] = TableAt(n.at)], src, dst, x + 1)
clone_table(m, src) ==
  LET n == alloc_frame(m) IN
    IF n.at = None THEN n
    ELSE CopyEntries([n EXCEPT !.mem[n.at] = Zeroed], src, n.at, 0)

take_ownership ==
  LET n == clone_table([mem |-> mem, free |-> free, at |-> None], cr3) IN
    /\ state = "boot"
    /\ mem' = n.mem /\ free' = n.free
    /\ IF n.at = None
       THEN state' = "OutOfFrames" /\ UNCHANGED cr3
       ELSE state' = "owned" /\ cr3' = n.at
    /\ UNCHANGED boot_mem

Init ==
  /\ boot_mem \in BootMems
  /\ free \in SUBSET Owned
  /\ mem = [f \in DOMAIN boot_mem \cup Owned |->
              IF f \in Owned THEN Junk ELSE boot_mem[f]]
  /\ cr3 = BootRoot /\ state = "boot"

Done == state # "boot" /\ UNCHANGED vars
Next == take_ownership \/ Done
Spec == Init /\ [][Next]_vars
-----------------------------------------------------------------------------
(***************************************************************************)
(* What tables mean, without frames: for each path of indexes the page, if *)
(* there is one, and the tables on the way.                                *)
(***************************************************************************)
RECURSIVE Meaning(_, _, _)
Meaning(m, f, l) ==
  UNION {LET e == m[f][x] IN
           IF e.kind = "page" THEN {<<x, l, e.at>>}
           ELSE IF e.kind = "table"
           THEN {<<x, l, None>>} \cup {<<x, p>> : p \in Meaning(m, e.at, l - 1)}
           ELSE {} : x \in Indexes}

RECURSIVE Reachable(_, _)
Reachable(m, f) ==
  {f} \cup UNION {IF m[f][x].kind = "table" THEN Reachable(m, m[f][x].at) ELSE {} : x \in Indexes}

(***************************************************************************)
(* The copy translates like the bootloader's tables without using any of   *)
(* them, so that their memory can be reclaimed, and none of its tables is  *)
(* in a frame that can still be handed out.                                *)
(***************************************************************************)
CopyIsFaithful ==
  state = "owned" =>
    /\ Meaning(mem, cr3, TOP) = Meaning(boot_mem, BootRoot, TOP)
    /\ Reachable(mem, cr3) \cap DOMAIN boot_mem = {}
    /\ Reachable(mem, cr3) \cap free = {}

(***************************************************************************)
(* take_ownership fails only when there are fewer frames than tables, and  *)
(* then every frame it took, on whichever level it ran out, is free again, *)
(* and CR3 and the tables of the bootloader, still in use, are as they     *)
(* were: the clean-up leaves those alone.                                  *)
(***************************************************************************)
FailureIsClean ==
  [][state' = "OutOfFrames" =>
       /\ free' = free /\ cr3' = cr3
       /\ \A f \in DOMAIN boot_mem : mem'[f] = boot_mem[f]
       /\ Cardinality(free) < Cardinality(Reachable(boot_mem, BootRoot))]_vars
=============================================================================
