-------------------------------- MODULE MCMm --------------------------------
(* Model-checking instance of Mm: every cut of the memory into three        *)
(* entries, usable or not, the last of which may end within a frame.        *)
EXTENDS Mm

Cut(a, b, c, u) ==
  <<[base |-> 0, length |-> a * FRAME_SIZE, usable |-> u[1]],
    [base |-> a * FRAME_SIZE, length |-> (b - a) * FRAME_SIZE, usable |-> u[2]],
    [base |-> b * FRAME_SIZE, length |-> c - b * FRAME_SIZE, usable |-> u[3]]>>

MCMemMaps ==
  {m \in {Cut(a, b, c, u) :
             a \in 1..(TotalFrames - 2), b \in 2..(TotalFrames - 1),
             c \in ((TotalFrames - 1) * FRAME_SIZE + 1)..(TotalFrames * FRAME_SIZE),
             u \in [1..3 -> BOOLEAN]} : WellFormed(m)}
=============================================================================
