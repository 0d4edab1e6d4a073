-------------------------------- MODULE MCPci --------------------------------
(* Model-checking instance of Pci: two devices of three functions to a bus.   *)
(* Each of seven places is empty or says one of a few things, among them      *)
(* bridges that make trees, share a bus, lead back or out of the entry; the   *)
(* tables include one that starts at bus 1, one whose buses are in the wrong  *)
(* order, and none at all.                                                    *)
EXTENDS Pci, TLC

Address(b, d, f) == [bus |-> b, device |-> d, function |-> f]
Says1(multi, bus) == [multi |-> multi, secondary |-> bus]
Empty == Says1(FALSE, -2)
Single == {Empty, Says1(FALSE, NoBus)}
Multi == Single \cup {Says1(TRUE, NoBus)}

Without(c) == [a \in {f \in DOMAIN c : c[f] # Empty} |-> c[a]]
Configs ==
  {Without((Address(0, 0, 0) :> p @@ Address(0, 0, 2) :> q @@ Address(0, 1, 0) :> r)
           @@ (Address(1, 0, 0) :> s @@ Address(1, 1, 0) :> t @@ Address(1, 1, 2) :> u @@ Address(2, 1, 0) :> v)) :
     p \in Multi \cup {Says1(TRUE, 1), Says1(FALSE, 0)}, q \in Single \cup {Says1(FALSE, 2)},
     r \in Multi, s \in Multi, t \in Multi \cup {Says1(TRUE, 2), Says1(FALSE, 3)},
     u \in Single, v \in Single \cup {Says1(FALSE, 1)}}
Entries == {<<>>, <<[start |-> 0, end |-> 2]>>, <<[start |-> 0, end |-> 0]>>, <<[start |-> 1, end |-> 2]>>,
            <<[start |-> 2, end |-> 1]>>}
MCMachines == [entries : Entries, config : Configs]
=============================================================================
