------------------------------ MODULE MCVmmTlb ------------------------------
(* Model-checking instance of VmmTlb on the memory of MCVmm: two base pages  *)
(* of one table, the pages next to them and a large page.                    *)
EXTENDS VmmTlb, TLC

CONSTANTS r, h, a, b, c

MCFrames == {r, h, a, b, c}
MCBootTable ==
  (r :> [x \in Indexes |-> IF x = 1 THEN TableAt(h) ELSE Nothing])
    @@ (h :> [x \in Indexes |-> IF x = 0 THEN PageAt(0) ELSE Nothing])

MCCalls ==
  {[virt |-> 0, phys |-> 9, pages |-> 1, size |-> Base],
   [virt |-> 0, phys |-> 4, pages |-> 3, size |-> Base],
   [virt |-> 1, phys |-> 6, pages |-> 1, size |-> Base],
   [virt |-> 2, phys |-> 8, pages |-> 1, size |-> Large],
   [virt |-> 28, phys |-> 4, pages |-> 1, size |-> Large]}
MCProbes == {0, 1, 2}
FrameSymmetry == Permutations({a, b, c})
=============================================================================
