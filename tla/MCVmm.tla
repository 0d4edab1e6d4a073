-------------------------------- MODULE MCVmm --------------------------------
(* Model-checking instance of Vmm: tables of two entries.  A base page, a    *)
(* large and a huge one are 1, 2 and 4 units, the lower half is 0..7, the    *)
(* upper one 24..31.  At boot the upper half maps physical memory directly   *)
(* with one huge page.                                                       *)
EXTENDS Vmm, TLC

CONSTANTS r, h, fa, fb, fc, fd, fe

MCFrames == {r, h, fa, fb, fc, fd, fe}
MCBootTable ==
  (r :> [x \in Indexes |-> IF x = 1 THEN TableAt(h) ELSE Nothing])
    @@ (h :> [x \in Indexes |-> IF x = 0 THEN PageAt(0) ELSE Nothing])

Range_(v, p, n, s) == [virt |-> v, phys |-> p, pages |-> n, size |-> s]
MCCalls ==
  {Range_(1, 9, 1, Base),   \* one page
   Range_(0, 4, 3, Base),   \* two tables of the lowest level
   Range_(6, 8, 4, Base),   \* runs into the gap
   Range_(2, 8, 2, Large),  \* two tables of the level above
   Range_(2, 5, 1, Large),  \* misaligned
   Range_(0, 8, 2, Huge),
   Range_(26, 2, 1, Base),  \* inside the direct map
   Range_(28, 4, 1, Large),
   Range_(0, 7, 1, Base),   \* next to the first
   Range_(5, 6, 1, Base),
   Range_(4, 4, 1, Huge),
   Range_(24, 0, 1, Huge)}  \* the direct map itself

FrameSymmetry == Permutations({fa, fb, fc, fd, fe})
=============================================================================
