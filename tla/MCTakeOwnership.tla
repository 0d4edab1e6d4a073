-------------------------- MODULE MCTakeOwnership --------------------------
(* Model-checking instance of TakeOwnership: tables of two entries.  The     *)
(* bootloader's top-level table, frame 0, has one child, frame 1, every      *)
(* shape of which below is tried; frames 2 and 3 are its children, 4 to 7    *)
(* theirs.                                                                   *)
EXTENDS TakeOwnership

Rows(S, T) == {[x \in Indexes |-> IF x = 0 THEN y ELSE z] : y \in S, z \in T}
Leaves == {Nothing, PageAt(9)}
Row(f) == Rows(Leaves \cup {TableAt(2 * f)}, Leaves \cup {TableAt(2 * f + 1)})
LeafRows == {[x \in Indexes |-> Nothing], [x \in Indexes |-> PageAt(x)]}

\* A table nothing points to keeps one shape.
Used(f, parent, rows) ==
  IF \E x \in Indexes : parent[x] = TableAt(f) THEN rows ELSE {Zeroed}

Mem(one, two, three, low) ==
  [f \in 0..7 |->
     CASE f = 0 -> [x \in Indexes |-> IF x = 0 THEN TableAt(1) ELSE Nothing]
       [] f = 1 -> one
       [] f = 2 -> two
       [] f = 3 -> three
       [] OTHER -> low]

MCBootMems ==
  UNION {UNION {UNION {{Mem(one, two, three, low) : low \in LeafRows} :
                  three \in Used(3, one, Row(3))} :
            two \in Used(2, one, Row(2))} :
    one \in Row(1)}
MCOwned == 10..17
=============================================================================
