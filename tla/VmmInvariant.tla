---------------------------- MODULE VmmInvariant ----------------------------
(***************************************************************************)
(* The inductive invariant of vmm.rs, for any tables, calls and number of  *)
(* entries.  First what walks are in a tree of tables; then the invariant, *)
(* Inv, and what it says about the state at hand; then its proof, action   *)
(* by action.  The theorems that follow from it are in VmmProofs.          *)
(***************************************************************************)
EXTENDS Vmm, TLAPS

\* Zenon proves the leaves that name no prover.
USE ZenonT(60)

-----------------------------------------------------------------------------
(* Arithmetic of addresses. *)

\* Quotients are unique.
LEMMA Quotient ==
  ASSUME NEW q \in Int, NEW m \in Nat \ {0}, NEW r \in 0..(m - 1)
  PROVE  (q * m + r) \div m = q /\ (q * m + r) % m = r
  BY SMTT(60)

\* Division with a remainder.
LEMMA Divide ==
  ASSUME NEW v \in Nat, NEW m \in Nat \ {0}
  PROVE  /\ v \div m \in Nat /\ v % m \in 0..(m - 1)
         /\ v = (v \div m) * m + (v % m)
  BY SMTT(60)

\* Division in two steps.
LEMMA DivideTwice ==
  ASSUME NEW v \in Nat, NEW m \in Nat \ {0}, NEW n \in Nat \ {0}
  PROVE  (v \div m) \div n = v \div (n * m)
<1> DEFINE a == v \div m
           r == v % m
           b == a \div n
           q == a % n
<1>1. a \in Nat /\ r \in 0..(m - 1) /\ v = a * m + r
  BY Divide
<1>2. b \in Nat /\ q \in 0..(n - 1) /\ a = b * n + q
  BY <1>1, Divide
<1> HIDE DEF a, r, b, q
<1>3. v = b * (n * m) + (q * m + r)
  <2>1. (b * n + q) * m = b * (n * m) + q * m
    BY SMTT(60), <1>1, <1>2
  <2> QED BY SMTT(60), <1>1, <1>2, <2>1
<1>4. n * m \in Nat \ {0} /\ q * m + r \in 0..(n * m - 1)
  <2>1. q * m \in Nat /\ n * m \in Nat
    BY SMTT(60), <1>1, <1>2
  <2>2. (q + 1) * m <= n * m
    BY SMTT(60), <1>2
  <2>3. (q + 1) * m = q * m + m
    BY SMTT(60), <1>2
  <2> QED BY SMTT(60), <1>1, <2>1, <2>2, <2>3
<1>5. v \div (n * m) = b
  BY SMTT(60), <1>2, <1>3, <1>4, Quotient
<1> QED BY <1>5 DEF b, a

\* The powers that occur.
LEMMA Powers ==
  /\ ENTRIES \in Nat \ {0, 1} /\ ENTRIES % 2 = 0
  /\ ENTRIES^0 = 1 /\ ENTRIES^1 = ENTRIES
  /\ \A k \in 0..4 : ENTRIES^k \in Nat \ {0}
  /\ \A k \in 0..3 : ENTRIES^(k + 1) = ENTRIES * ENTRIES^k
<1>1. ENTRIES \in Nat \ {0, 1} /\ ENTRIES % 2 = 0
  BY VmmAssumption
<1>2. /\ ENTRIES^0 = 1 /\ ENTRIES^1 = ENTRIES * ENTRIES^0 /\ ENTRIES^2 = ENTRIES * ENTRIES^1
      /\ ENTRIES^3 = ENTRIES * ENTRIES^2 /\ ENTRIES^4 = ENTRIES * ENTRIES^3
  BY SMTT(60), PowersOfEntries
<1>3. ENTRIES^1 = ENTRIES
  BY SMTT(60), <1>1, <1>2
<1>4. \A a \in Nat \ {0} : ENTRIES * a \in Nat \ {0}
  BY SMTT(60), <1>1
<1>5. ENTRIES^2 \in Nat \ {0}
  BY <1>1, <1>2, <1>3, <1>4
<1>6. ENTRIES^3 \in Nat \ {0}
  BY <1>2, <1>4, <1>5
<1>7. ENTRIES^4 \in Nat \ {0}
  BY <1>2, <1>4, <1>6
<1>8. \A k \in 0..4 : k = 0 \/ k = 1 \/ k = 2 \/ k = 3 \/ k = 4
  BY SMTT(60)
<1>9. \A k \in 0..4 : ENTRIES^k \in Nat \ {0}
  BY SMTT(60), <1>1, <1>2, <1>3, <1>5, <1>6, <1>7, <1>8
<1> QED BY <1>1, <1>2, <1>3, <1>9, PowersOfEntries

\* The page of size l that v is in, numbered.
Block(v, l) == v \div ENTRIES^l

\* Block numbers are natural numbers.
LEMMA BlockType ==
  ASSUME NEW v \in Nat, NEW l \in 0..4
  PROVE  Block(v, l) \in Nat
  BY Powers, Divide DEF Block

\* The block of an address, one level up and one level down.
LEMMA BlockStep ==
  ASSUME NEW v \in Nat, NEW l \in 0..3
  PROVE  /\ index(v, l) \in Indexes
         /\ Block(v, l + 1) = Block(v, l) \div ENTRIES
         /\ Block(v, l) = Block(v, l + 1) * ENTRIES + index(v, l)
<1>1. l \in 0..4 /\ ENTRIES \in Nat \ {0} /\ ENTRIES^l \in Nat \ {0} /\ ENTRIES^(l + 1) = ENTRIES * ENTRIES^l
  BY SMTT(60), Powers
<1>2. Block(v, l) \in Nat
  BY <1>1, BlockType
<1>3. /\ Block(v, l) % ENTRIES \in 0..(ENTRIES - 1)
      /\ Block(v, l) = (Block(v, l) \div ENTRIES) * ENTRIES + (Block(v, l) % ENTRIES)
  BY <1>1, <1>2, Divide
<1>4. Block(v, l) \div ENTRIES = Block(v, l + 1)
  <2>1. (v \div ENTRIES^l) \div ENTRIES = v \div (ENTRIES * ENTRIES^l)
    BY <1>1, DivideTwice
  <2> QED BY <1>1, <2>1 DEF Block
<1>5. index(v, l) = Block(v, l) % ENTRIES
  BY DEF index, Block
<1> QED BY <1>3, <1>4, <1>5 DEF Indexes

\* Two addresses are in one page when they are in one page of the next size and
\* have the same entry there.
LEMMA SameBlock ==
  ASSUME NEW v \in Nat, NEW w \in Nat, NEW l \in 0..3
  PROVE  Block(v, l) = Block(w, l) <=> Block(v, l + 1) = Block(w, l + 1) /\ index(v, l) = index(w, l)
<1>1. ASSUME Block(v, l) = Block(w, l)
      PROVE  Block(v, l + 1) = Block(w, l + 1) /\ index(v, l) = index(w, l)
  BY <1>1, BlockStep DEF index, Block
<1>2. ASSUME Block(v, l + 1) = Block(w, l + 1), index(v, l) = index(w, l)
      PROVE  Block(v, l) = Block(w, l)
  BY <1>2, BlockStep
<1> QED BY <1>1, <1>2

\* A half of the address space has half of the entries of the root.
LEMMA Halves ==
  ASSUME NEW v \in Nat
  PROVE  \E h \in Nat \ {0} : ENTRIES = 2 * h /\ (v \div Half = Block(v, 3) \div h)
<1> DEFINE h == ENTRIES \div 2
<1>1. h \in Nat \ {0} /\ ENTRIES = 2 * h
  BY SMTT(60), Powers
<1> HIDE DEF h
<1>2. ENTRIES^3 \in Nat \ {0} /\ ENTRIES^4 = ENTRIES * ENTRIES^3
  BY SMTT(60), Powers
<1>3. h * ENTRIES^3 \in Nat \ {0} /\ ENTRIES^4 = (h * ENTRIES^3) * 2 + 0
  <2> DEFINE m == ENTRIES^3
  <2>1. m \in Nat \ {0} /\ ENTRIES^4 = ENTRIES * m
    BY <1>2
  <2> HIDE DEF m
  <2>2. h * m \in Nat \ {0} /\ (2 * h) * m = (h * m) * 2
    BY SMTT(60), <1>1, <2>1
  <2> QED BY SMTT(60), <1>1, <2>1, <2>2 DEF m
<1>4. Half = h * ENTRIES^3
  BY SMTT(60), <1>3, Quotient DEF Half
<1>5. v \div Half = Block(v, 3) \div h
  BY <1>1, <1>2, <1>4, DivideTwice DEF Block
<1> QED BY <1>1, <1>5

\* Canonical addresses in one entry of the root are in one page of its size.
LEMMA TopBlock ==
  ASSUME NEW v \in Nat, NEW w \in Nat, is_canonical(v), is_canonical(w), index(v, 3) = index(w, 3)
  PROVE  Block(v, 3) = Block(w, 3)
<1>1. PICK h \in Nat \ {0} : ENTRIES = 2 * h /\ (v \div Half = Block(v, 3) \div h)
  BY Halves
<1>2. PICK k \in Nat \ {0} : ENTRIES = 2 * k /\ (w \div Half = Block(w, 3) \div k)
  BY Halves
<1>3. h = k
  BY SMTT(60), <1>1, <1>2
<1> DEFINE a == Block(v, 3)
           b == Block(w, 3)
<1>4. a \in Nat /\ b \in Nat
  BY SMTT(60), BlockType
<1>5. a \div h \in {0, 3} /\ b \div h \in {0, 3} /\ a % (2 * h) = b % (2 * h)
  BY <1>1, <1>2, <1>3 DEF is_canonical, index, Block
<1> HIDE DEF a, b
<1>6. a = (a \div h) * h + (a % h) /\ a % h \in 0..(h - 1) /\ b = (b \div h) * h + (b % h) /\ b % h \in 0..(h - 1)
  BY <1>4, Divide
<1>7. ASSUME NEW c \in Nat, c \div h \in {0, 3}, c = (c \div h) * h + (c % h), c % h \in 0..(h - 1)
      PROVE  c % (2 * h) = IF c \div h = 0 THEN c % h ELSE h + (c % h)
  <2> DEFINE r == c % h
  <2>1. r \in 0..(h - 1) /\ h \in Nat \ {0} /\ 2 * h \in Nat \ {0}
    BY SMTT(60), <1>7
  <2>2. CASE c \div h = 0
    <3>1. c = 0 * (2 * h) + r /\ r \in 0..(2 * h - 1)
      BY SMTT(60), <1>7, <2>1, <2>2
    <3> HIDE DEF r
    <3>2. (0 * (2 * h) + r) % (2 * h) = r
      BY SMTT(60), <2>1, <3>1, Quotient
    <3> QED BY <2>2, <3>1, <3>2 DEF r
  <2>3. CASE c \div h = 3
    <3> DEFINE one == 1
               t == h + r
    <3>1. one \in Int /\ c = one * (2 * h) + t /\ t \in 0..(2 * h - 1)
      BY SMTT(60), <1>7, <2>1, <2>3
    <3> HIDE DEF one, t
    <3>2. c % (2 * h) = t
      BY <2>1, <3>1, Quotient
    <3> QED BY SMTT(60), <2>3, <3>2 DEF t
  <2> QED BY <1>7, <2>2, <2>3
<1>8. /\ a % (2 * h) = (IF a \div h = 0 THEN a % h ELSE h + (a % h))
      /\ b % (2 * h) = (IF b \div h = 0 THEN b % h ELSE h + (b % h))
  BY <1>4, <1>5, <1>6, <1>7
<1>9. a \div h = b \div h /\ a % h = b % h
  <2> DEFINE p == a \div h
             q == b \div h
             r == a % h
             t == b % h
  <2>1. p \in {0, 3} /\ q \in {0, 3} /\ r \in 0..(h - 1) /\ t \in 0..(h - 1)
    BY <1>5, <1>6
  <2>2. (IF p = 0 THEN r ELSE h + r) = (IF q = 0 THEN t ELSE h + t)
    BY <1>5, <1>8
  <2> HIDE DEF p, q, r, t
  <2>3. p = q /\ r = t
    BY SMTT(60), <2>1, <2>2
  <2> QED BY <2>3 DEF p, q, r, t
<1>10. a = b
  BY <1>6, <1>9
<1> QED BY <1>10 DEF a, b

\* All of a page is canonical, or nothing of it is.
LEMMA CanonicalBlock ==
  ASSUME NEW v \in Nat, NEW w \in Nat, Block(v, 3) = Block(w, 3), is_canonical(v)
  PROVE  is_canonical(w)
<1>1. PICK h \in Nat \ {0} : ENTRIES = 2 * h /\ (v \div Half = Block(v, 3) \div h)
  BY Halves
<1>2. PICK k \in Nat \ {0} : ENTRIES = 2 * k /\ (w \div Half = Block(w, 3) \div k)
  BY Halves
<1>3. h = k
  BY SMTT(60), <1>1, <1>2
<1> QED BY <1>1, <1>2, <1>3 DEF is_canonical

\* The addresses of a page.
LEMMA InPage ==
  ASSUME NEW v \in Nat, NEW w \in Nat, NEW s \in 0..3, w % ENTRIES^s = 0
  PROVE  /\ Block(v, s) = Block(w, s) <=> v \in w..(w + ENTRIES^s - 1)
         /\ Block(v, s) = Block(w, s) => v % ENTRIES^s = v - w
<1> DEFINE m == ENTRIES^s
<1>1. m \in Nat \ {0}
  BY SMTT(60), Powers
<1>2. v \div m \in Nat /\ v % m \in 0..(m - 1) /\ v = (v \div m) * m + (v % m) /\ w \div m \in Nat
  BY <1>1, Divide
<1>3. w = (w \div m) * m
  <2> DEFINE q == w \div m
  <2>1. w = q * m + (w % m) /\ q \in Nat /\ w % m = 0
    BY <1>1, Divide
  <2> HIDE DEF m, q
  <2>2. w = q * m
    BY SMTT(60), <1>1, <2>1
  <2> QED BY <2>2 DEF q
<1>4. Block(v, s) = v \div m /\ Block(w, s) = w \div m
  BY DEF Block
<1> HIDE DEF m
<1>5. ASSUME v \div m = w \div m PROVE v \in w..(w + m - 1) /\ v % m = v - w
  BY SMTT(60), <1>1, <1>2, <1>3, <1>5
<1>6. ASSUME v \in w..(w + m - 1) PROVE v \div m = w \div m
  <2> DEFINE r == v - w
             q == w \div m
  <2>1. r \in 0..(m - 1) /\ v = q * m + r /\ q \in Int
    BY SMTT(60), <1>1, <1>2, <1>3, <1>6
  <2> HIDE DEF r, q
  <2>2. v \div m = q
    BY <1>1, <2>1, Quotient
  <2> QED BY <2>2 DEF q
<1> QED BY <1>4, <1>5, <1>6 DEF m

-----------------------------------------------------------------------------
(* Walks through a tree of tables. *)

\* A walk for v gets to a table of level l.
Reached(T, v, l) == Walk(T, v, l) # Root \/ l = 3

\* What the entry of a table is.
LEMMA EntryKinds ==
  ASSUME NEW T, NEW S, NEW lv, Tree(T, S, lv), NEW f \in S, NEW x \in Indexes
  PROVE  /\ T[f][x].kind \in {"none", "page", "table"}
         /\ T[f][x].kind = "none" => T[f][x] = Nothing
         /\ T[f][x].kind = "page" => T[f][x].at \in Nat /\ lv[f] < 3
         /\ T[f][x].kind = "table" =>
              /\ T[f][x] = TableAt(T[f][x].at) /\ T[f][x].at \in S \ {Root}
              /\ lv[f] = lv[T[f][x].at] + 1
<1>1. CASE T[f][x] = Nothing
  BY SMTT(60), <1>1 DEF Nothing
<1>2. CASE T[f][x].kind = "page" /\ T[f][x].at \in Nat /\ lv[f] < 3
  BY <1>2
<1>3. CASE \E g \in S \ {Root} : T[f][x] = TableAt(g) /\ lv[f] = lv[g] + 1
  <2>1. PICK g \in S \ {Root} : T[f][x] = TableAt(g) /\ lv[f] = lv[g] + 1
    BY <1>3
  <2>2. T[f][x].kind = "table" /\ T[f][x].at = g
    BY SMTT(60), <2>1 DEF TableAt
  <2> QED BY <2>1, <2>2
<1> QED BY <1>1, <1>2, <1>3 DEF Tree, TOP

\* An entry is empty, a page, or points to a table one level down.
LEMMA EntryForm ==
  ASSUME NEW T, NEW S, NEW lv, Tree(T, S, lv), NEW f \in S, NEW x \in Indexes
  PROVE  \/ T[f][x] = Nothing
         \/ T[f][x].kind = "page" /\ T[f][x].at \in Nat /\ lv[f] < 3
         \/ \E g \in S \ {Root} : T[f][x] = TableAt(g) /\ lv[f] = lv[g] + 1
  BY DEF Tree, TOP

\* No two entries point to one table.
LEMMA SamePointer ==
  ASSUME NEW T, NEW S, NEW lv, Tree(T, S, lv), NEW f \in S, NEW g \in S, NEW x \in Indexes, NEW y \in Indexes,
         T[f][x] = T[g][y], T[f][x].kind = "table"
  PROVE  f = g /\ x = y
  BY SMTT(60) DEF Tree

\* Two entries that point to one table are the same entry.
LEMMA OnePointer ==
  ASSUME NEW T, NEW S, NEW lv, Tree(T, S, lv), NEW f \in S, NEW g \in S, NEW x \in Indexes, NEW y \in Indexes,
         NEW h, T[f][x] = TableAt(h), T[g][y] = TableAt(h)
  PROVE  f = g /\ x = y
<1>1. TableAt(h).kind = "table"
  BY DEF TableAt
<1> QED BY SMTT(60), <1>1, SamePointer

\* Each level is a step from the level above.
LEMMA WalkStep ==
  ASSUME NEW T, NEW v
  PROVE  Walk(T, v, 3) = Root /\ \A l \in 0..2 : Walk(T, v, l) = Child(T, Walk(T, v, l + 1), v, l + 1)
<1>1. /\ Walk(T, v, 3) = Root /\ Walk(T, v, 2) = pdpt(T, v) /\ Walk(T, v, 1) = pd(T, v)
      /\ Walk(T, v, 0) = pt(T, v)
  BY SMTT(60) DEF Walk, TOP, Huge, Large, Base
<1>2. /\ Walk(T, v, 2) = Child(T, Walk(T, v, 3), v, 3)
      /\ Walk(T, v, 1) = Child(T, Walk(T, v, 2), v, 2)
      /\ Walk(T, v, 0) = Child(T, Walk(T, v, 1), v, 1)
  BY <1>1 DEF pdpt, pd, pt, TOP, Huge, Large
<1>3. \A l \in 0..2 : l = 0 \/ l = 1 \/ l = 2
  BY SMTT(60)
<1>4. 0 + 1 = 1 /\ 1 + 1 = 2 /\ 2 + 1 = 3
  BY SMTT(60)
<1> QED BY <1>1, <1>2, <1>3, <1>4

\* A walk passes tables of the tree, each on its level, ...
LEMMA WalkIn ==
  ASSUME NEW T, NEW S, NEW lv, Tree(T, S, lv), NEW v \in Nat
  PROVE  \A l \in 0..3 : Walk(T, v, l) \in S /\ (Reached(T, v, l) => lv[Walk(T, v, l)] = l)
<1> DEFINE P(l) == Walk(T, v, l) \in S /\ (Reached(T, v, l) => lv[Walk(T, v, l)] = l)
<1>1. P(3)
  BY SMTT(60), WalkStep DEF Tree, TOP
<1>2. ASSUME NEW l \in 0..2, P(l + 1) PROVE P(l)
  <2> DEFINE f == Walk(T, v, l + 1)
             x == index(v, l + 1)
  <2>1. Walk(T, v, l) = (IF (f # Root \/ l + 1 = 3) /\ T[f][x].kind = "table" THEN T[f][x].at ELSE Root)
    BY WalkStep DEF Child, TOP
  <2>2. x \in Indexes /\ f \in S /\ l + 1 \in 0..3
    BY SMTT(60), <1>2, BlockStep
  <2>3. CASE (f # Root \/ l + 1 = 3) /\ T[f][x].kind = "table"
    <3>1. Walk(T, v, l) = T[f][x].at /\ lv[f] = l + 1
      BY <1>2, <2>1, <2>3 DEF Reached
    <3> HIDE DEF f, x
    <3>2. T[f][x].at \in S /\ lv[f] = lv[T[f][x].at] + 1
      BY SMTT(60), <2>2, <2>3, EntryKinds
    <3>3. lv[T[f][x].at] \in Int
      BY SMTT(60), <3>2 DEF Tree, TOP
    <3> QED BY SMTT(60), <3>1, <3>2, <3>3
  <2>4. CASE ~((f # Root \/ l + 1 = 3) /\ T[f][x].kind = "table")
    <3>1. Walk(T, v, l) = Root /\ Root \in S
      BY <2>1, <2>4 DEF Tree
    <3>2. l # 3
      BY SMTT(60)
    <3> QED BY <3>1, <3>2 DEF Reached
  <2> QED BY <2>3, <2>4
<1> HIDE DEF P
<1>3. P(2)
  BY SMTT(60), <1>1, <1>2
<1>4. P(1)
  BY SMTT(60), <1>3, <1>2
<1>5. P(0)
  BY SMTT(60), <1>4, <1>2
<1>6. \A l \in 0..3 : l = 0 \/ l = 1 \/ l = 2 \/ l = 3
  BY SMTT(60)
<1> QED BY <1>1, <1>3, <1>4, <1>5, <1>6 DEF P

\* ... and follows the entries for v.
LEMMA WalkNext ==
  ASSUME NEW T, NEW S, NEW lv, Tree(T, S, lv), NEW v \in Nat, NEW l \in 0..2
  PROVE  LET e == T[Walk(T, v, l + 1)][index(v, l + 1)]
         IN  /\ Reached(T, v, l) <=> Reached(T, v, l + 1) /\ e.kind = "table"
             /\ Reached(T, v, l) => e = TableAt(Walk(T, v, l)) /\ Walk(T, v, l) # Root
             /\ ~Reached(T, v, l) => Walk(T, v, l) = Root
<1> DEFINE f == Walk(T, v, l + 1)
           x == index(v, l + 1)
<1>1. Walk(T, v, l) = (IF (f # Root \/ l + 1 = 3) /\ T[f][x].kind = "table" THEN T[f][x].at ELSE Root)
  BY WalkStep DEF Child, TOP
<1>2. l + 1 \in 0..3 /\ l # 3
  BY SMTT(60)
<1>3. x \in Indexes /\ f \in S
  BY <1>2, BlockStep, WalkIn
<1>4. T[f][x].kind = "table" => T[f][x] = TableAt(T[f][x].at) /\ T[f][x].at # Root
  <2> HIDE DEF f, x
  <2> QED BY SMTT(60), <1>3, EntryKinds
<1> QED BY <1>1, <1>2, <1>4 DEF Reached

\* Above a table that is reached there are only tables.
LEMMA ReachedUp ==
  ASSUME NEW T, NEW S, NEW lv, Tree(T, S, lv), NEW v \in Nat, NEW m \in 0..3, NEW l \in 0..3,
         Reached(T, v, m), m < l
  PROVE  Reached(T, v, l) /\ T[Walk(T, v, l)][index(v, l)].kind = "table"
<1> DEFINE Q(k) == Reached(T, v, k) /\ T[Walk(T, v, k)][index(v, k)].kind = "table"
<1>1. ASSUME NEW k \in 0..2, Reached(T, v, k) PROVE Q(k + 1)
  BY <1>1, WalkNext
<1>2. ASSUME NEW k \in 0..3, Q(k) PROVE Reached(T, v, k)
  BY <1>2
<1> HIDE DEF Q
<1>3. Q(m + 1)
  BY SMTT(60), <1>1
<1>4. m + 1 < 3 => Q(m + 2)
  BY SMTT(60), <1>1, <1>2, <1>3
<1>5. m + 2 < 3 => Q(m + 3)
  BY SMTT(60), <1>1, <1>2, <1>4
<1>6. l = m + 1 \/ (l = m + 2 /\ m + 1 < 3) \/ (l = m + 3 /\ m + 2 < 3)
  BY SMTT(60)
<1>7. Q(l)
  BY <1>3, <1>4, <1>5, <1>6
<1> QED BY <1>7 DEF Q

\* The walks for the addresses of one page pass the same tables, ...
LEMMA WalkSame ==
  ASSUME NEW T, NEW v \in Nat, NEW w \in Nat, NEW l \in 0..2, Block(v, l + 1) = Block(w, l + 1)
  PROVE  Walk(T, v, l) = Walk(T, w, l)
<1> DEFINE P(k) == Block(v, k + 1) = Block(w, k + 1) => Walk(T, v, k) = Walk(T, w, k)
<1>1. P(3)
  BY WalkStep
<1>2. ASSUME NEW k \in 0..2, P(k + 1) PROVE P(k)
  <2>1. k + 1 \in 0..3
    BY SMTT(60)
  <2>2. SUFFICES ASSUME Block(v, k + 1) = Block(w, k + 1) PROVE Walk(T, v, k) = Walk(T, w, k)
    OBVIOUS
  <2>3. Block(v, (k + 1) + 1) = Block(w, (k + 1) + 1) /\ index(v, k + 1) = index(w, k + 1)
    BY <2>1, <2>2, SameBlock
  <2>4. Walk(T, v, k + 1) = Walk(T, w, k + 1)
    BY <1>2, <2>3
  <2> QED BY <2>3, <2>4, WalkStep DEF Child
<1> HIDE DEF P
<1>3. P(2) /\ P(1) /\ P(0)
  BY SMTT(60), <1>1, <1>2
<1>4. l = 0 \/ l = 1 \/ l = 2
  BY SMTT(60)
<1>5. P(l)
  BY <1>3, <1>4
<1> QED BY <1>5 DEF P

\* ... and only theirs.
LEMMA WalkApart ==
  ASSUME NEW T, NEW S, NEW lv, Tree(T, S, lv), NEW v \in Nat, NEW w \in Nat,
         is_canonical(v), is_canonical(w),
         NEW l \in 0..2, Reached(T, v, l), Walk(T, v, l) = Walk(T, w, l)
  PROVE  Block(v, l + 1) = Block(w, l + 1)
<1> DEFINE P(k) == Reached(T, v, k) /\ Walk(T, v, k) = Walk(T, w, k) => Block(v, k + 1) = Block(w, k + 1)
           Q(k) == Reached(T, v, k) /\ Walk(T, v, k) = Walk(T, w, k)
                     => /\ Reached(T, v, k + 1) /\ Walk(T, v, k + 1) = Walk(T, w, k + 1)
                        /\ index(v, k + 1) = index(w, k + 1)
<1>1. ASSUME NEW k \in 0..2 PROVE Q(k)
  <2> SUFFICES ASSUME Reached(T, v, k), Walk(T, v, k) = Walk(T, w, k)
               PROVE  /\ Reached(T, v, k + 1) /\ Walk(T, v, k + 1) = Walk(T, w, k + 1)
                      /\ index(v, k + 1) = index(w, k + 1)
    OBVIOUS
  <2>1. k + 1 \in 0..3 /\ k # 3
    BY SMTT(60)
  <2>2. Reached(T, w, k)
    BY <2>1 DEF Reached
  <2>3. /\ Reached(T, v, k + 1)
        /\ T[Walk(T, v, k + 1)][index(v, k + 1)] = TableAt(Walk(T, v, k))
        /\ T[Walk(T, w, k + 1)][index(w, k + 1)] = TableAt(Walk(T, v, k))
    BY <2>2, WalkNext
  <2>4. /\ Walk(T, v, k + 1) \in S /\ Walk(T, w, k + 1) \in S
        /\ index(v, k + 1) \in Indexes /\ index(w, k + 1) \in Indexes
    BY <2>1, WalkIn, BlockStep
  <2> DEFINE a == Walk(T, v, k + 1)
             b == Walk(T, w, k + 1)
             x == index(v, k + 1)
             y == index(w, k + 1)
             h == Walk(T, v, k)
  <2>5. a \in S /\ b \in S /\ x \in Indexes /\ y \in Indexes /\ T[a][x] = TableAt(h) /\ T[b][y] = TableAt(h)
    BY <2>3, <2>4
  <2>6. a = b /\ x = y
    <3> HIDE DEF a, b, x, y, h
    <3> QED BY SMTT(60), <2>5, OnePointer
  <2> QED BY <2>3, <2>6
<1>2. P(2)
  <2>1. Q(2) /\ 2 + 1 = 3
    BY SMTT(60), <1>1
  <2>2. index(v, 3) = index(w, 3) => Block(v, 3) = Block(w, 3)
    BY TopBlock
  <2> QED BY <2>1, <2>2
<1>3. ASSUME NEW k \in 0..1, P(k + 1) PROVE P(k)
  <2>1. k \in 0..2 /\ k + 1 \in 0..3 /\ (k + 1) + 1 = k + 2
    BY SMTT(60)
  <2>2. Q(k)
    BY <1>1, <2>1
  <2> QED BY <1>3, <2>1, <2>2, SameBlock
<1> HIDE DEF P, Q
<1>4. P(1)
  BY SMTT(60), <1>2, <1>3
<1>5. P(0)
  BY SMTT(60), <1>3, <1>4
<1>6. l = 0 \/ l = 1 \/ l = 2
  BY SMTT(60)
<1>7. P(l)
  BY <1>2, <1>4, <1>5, <1>6
<1> QED BY <1>7 DEF P

-----------------------------------------------------------------------------
(* Pages and translations. *)

\* Half the address space is not empty.
LEMMA HalfNat == Half \in Nat \ {0}
<1>1. ENTRIES^3 \in Nat \ {0} /\ ENTRIES^4 = ENTRIES * ENTRIES^3
  BY SMTT(60), Powers
<1>2. PICK j \in Nat \ {0} : ENTRIES = 2 * j
  BY Halves
<1> DEFINE m == ENTRIES^3
<1>3. m \in Nat \ {0} /\ ENTRIES^4 = (2 * j) * m
  BY <1>1, <1>2
<1> HIDE DEF m
<1>4. PICK k \in Nat \ {0} : ENTRIES^4 = 2 * k
  <2>1. j * m \in Nat \ {0} /\ ENTRIES^4 = 2 * (j * m)
    BY SMTT(60), <1>3
  <2> QED BY <2>1
<1> QED BY SMTT(60), <1>4 DEF Half

\* Every canonical address is below LastAddress.
LEMMA CanonicalNat ==
  \A v : v \in Canonical <=> v \in Nat /\ is_canonical(v)
<1> DEFINE h == Half
<1>1. h \in Nat \ {0} /\ LastAddress = 4 * h - 1
  BY HalfNat DEF LastAddress
<1>2. ASSUME NEW v \in Nat, is_canonical(v) PROVE v \in 0..LastAddress
  <2>1. v \div h \in {0, 3} /\ v \div h \in Nat /\ v % h \in 0..(h - 1) /\ v = (v \div h) * h + (v % h)
    BY <1>1, <1>2, Divide DEF is_canonical
  <2> HIDE DEF h
  <2> QED BY SMTT(60), <1>1, <2>1
<1>3. \A v \in 0..LastAddress : v \in Nat
  BY SMTT(60)
<1> QED BY <1>2, <1>3 DEF Canonical

\* The addresses of one page have one entry.
LEMMA LeafSame ==
  ASSUME NEW T, NEW v \in Nat, NEW w \in Nat, NEW l \in 0..2, Block(v, l) = Block(w, l)
  PROVE  /\ Leaf(T, v, l) <=> Leaf(T, w, l)
         /\ LeafAt(T, v, l) = LeafAt(T, w, l)
<1>1. l \in 0..3
  BY SMTT(60)
<1>2. Block(v, l + 1) = Block(w, l + 1) /\ index(v, l) = index(w, l)
  BY <1>1, SameBlock
<1>3. Walk(T, v, l) = Walk(T, w, l)
  BY <1>2, WalkSame
<1> QED BY <1>2, <1>3 DEF Leaf, LeafAt

\* An address is in at most one page.
LEMMA OneLeaf ==
  ASSUME NEW T, NEW S, NEW lv, Tree(T, S, lv), NEW v \in Nat, NEW l \in 0..2, NEW m \in 0..2,
         Leaf(T, v, l), Leaf(T, v, m)
  PROVE  l = m
<1>1. ASSUME NEW j \in 0..2, NEW k \in 0..2, Leaf(T, v, j), Leaf(T, v, k), j < k PROVE FALSE
  <2>1. j \in 0..3 /\ k \in 0..3
    BY SMTT(60)
  <2>2. Reached(T, v, j) /\ T[Walk(T, v, k)][index(v, k)].kind = "page"
    BY <1>1 DEF Leaf, Reached
  <2>3. T[Walk(T, v, k)][index(v, k)].kind = "table"
    BY <1>1, <2>1, <2>2, ReachedUp
  <2> QED BY <2>2, <2>3
<1>2. l < m \/ m < l \/ l = m
  BY SMTT(60)
<1> QED BY <1>1, <1>2

\* A page lies at a physical address.
LEMMA LeafNat ==
  ASSUME NEW T, NEW S, NEW lv, Tree(T, S, lv), NEW v \in Nat, NEW l \in 0..2, Leaf(T, v, l)
  PROVE  LeafAt(T, v, l) \in Nat
<1> DEFINE f == Walk(T, v, l)
           x == index(v, l)
<1>1. l \in 0..3
  BY SMTT(60)
<1>2. f \in S /\ x \in Indexes /\ T[f][x].kind = "page"
  BY <1>1, WalkIn, BlockStep DEF Leaf
<1>3. T[f][x].at \in Nat
  <2> HIDE DEF f, x
  <2> QED BY <1>2, EntryKinds
<1> QED BY <1>3 DEF LeafAt

\* translate of an address in a page, ...
LEMMA TranslateLeaf ==
  ASSUME NEW T, NEW S, NEW lv, Tree(T, S, lv), NEW v \in Canonical, NEW l \in 0..2, Leaf(T, v, l)
  PROVE  translate(T, v) = LeafAt(T, v, l) + (v % ENTRIES^l) /\ translate(T, v) # Unmapped
<1>1. v \in Nat /\ is_canonical(v)
  BY CanonicalNat
<1>2. {Base, Large, Huge} = 0..2
  BY SMTT(60) DEF Base, Large, Huge
<1>3. \A m \in {Base, Large, Huge} : Leaf(T, v, m) => m = l
  BY <1>1, <1>2, OneLeaf
<1>4. (CHOOSE m \in {Base, Large, Huge} : Leaf(T, v, m)) = l
  BY <1>2, <1>3
<1>5. translate(T, v) = LeafAt(T, v, l) + (v % ENTRIES^l)
  BY <1>1, <1>2, <1>4 DEF translate
<1>6. LeafAt(T, v, l) \in Nat
  BY <1>1, LeafNat
<1>7. v % ENTRIES^l \in Nat
  <2>1. ENTRIES^l \in Nat \ {0}
    BY SMTT(60), Powers
  <2> QED BY SMTT(60), <1>1, <2>1
<1> QED BY SMTT(60), <1>5, <1>6, <1>7 DEF Unmapped

\* ... and of one in none.
LEMMA TranslateNone ==
  ASSUME NEW T, NEW v, \A l \in 0..2 : ~Leaf(T, v, l)
  PROVE  translate(T, v) = Unmapped
<1>1. {Base, Large, Huge} = 0..2
  BY SMTT(60) DEF Base, Large, Huge
<1> QED BY <1>1 DEF translate

\* T and U map the same pages around v.
SameLeaves(T, U, v) ==
  \A l \in 0..2 : /\ Leaf(T, v, l) <=> Leaf(U, v, l)
                  /\ Leaf(T, v, l) => LeafAt(T, v, l) = LeafAt(U, v, l)

\* Tables with the same pages translate alike.
LEMMA SameTranslation ==
  ASSUME NEW T, NEW S, NEW lv, Tree(T, S, lv), NEW U, NEW R, NEW lw, Tree(U, R, lw),
         NEW v \in Canonical, SameLeaves(T, U, v)
  PROVE  translate(T, v) = translate(U, v)
<1>1. CASE \E l \in 0..2 : Leaf(T, v, l)
  <2>1. PICK l \in 0..2 : Leaf(T, v, l)
    BY <1>1
  <2>2. Leaf(U, v, l) /\ LeafAt(T, v, l) = LeafAt(U, v, l)
    BY <2>1 DEF SameLeaves
  <2>3. translate(T, v) = LeafAt(T, v, l) + (v % ENTRIES^l)
    BY <2>1, TranslateLeaf
  <2>4. translate(U, v) = LeafAt(U, v, l) + (v % ENTRIES^l)
    BY <2>2, TranslateLeaf
  <2> QED BY <2>2, <2>3, <2>4
<1>2. CASE \A l \in 0..2 : ~Leaf(T, v, l)
  <2>1. \A l \in 0..2 : ~Leaf(U, v, l)
    BY <1>2 DEF SameLeaves
  <2> QED BY <1>2, <2>1, TranslateNone
<1> QED BY <1>1, <1>2

\* Tables in which every address has the same pages map the same pages.
LEMMA SamePages ==
  ASSUME NEW T, NEW U, \A v \in Canonical : SameLeaves(T, U, v)
  PROVE  PagesIn(T) = PagesIn(U)
<1>1. {Base, Large, Huge} = 0..2
  BY SMTT(60) DEF Base, Large, Huge
<1> DEFINE P(V, l) == {[virt |-> v, phys |-> LeafAt(V, v, l), size |-> l] :
                         v \in {w \in Canonical : w % ENTRIES^l = 0 /\ Leaf(V, w, l)}}
<1>2. ASSUME NEW l \in 0..2 PROVE P(T, l) = P(U, l)
  BY <1>2 DEF SameLeaves
<1>3. PagesIn(T) = UNION {P(T, l) : l \in 0..2} /\ PagesIn(U) = UNION {P(U, l) : l \in 0..2}
  BY <1>1 DEF PagesIn
<1> HIDE DEF P
<1> QED BY <1>2, <1>3

-----------------------------------------------------------------------------
(* Tables that hold no page come and go. *)

\* U is T without the tables D, which lead nowhere.
Pruned(T, U, S, D) ==
  /\ Root \notin D /\ S \cap D = {}
  /\ \A f \in D, x \in Indexes : T[f][x].kind = "none" \/ (T[f][x].kind = "table" /\ T[f][x].at \in D)
  /\ \A f \in S, x \in Indexes :
       U[f][x] = IF T[f][x].kind = "table" /\ T[f][x].at \in D THEN Nothing ELSE T[f][x]

\* What is left of an entry when the tables D are taken out.
LEMMA PrunedEntry ==
  ASSUME NEW T, NEW U, NEW S, NEW D, Pruned(T, U, S, D), NEW x \in Indexes
  PROVE  /\ \A f \in S : U[f][x] = IF T[f][x].kind = "table" /\ T[f][x].at \in D THEN Nothing ELSE T[f][x]
         /\ \A f \in D : T[f][x].kind = "none" \/ (T[f][x].kind = "table" /\ T[f][x].at \in D)
  BY DEF Pruned

\* Without D, the tables are still a tree.
LEMMA PrunedTree ==
  ASSUME NEW T, NEW U, NEW S, NEW D, NEW lv, Tree(T, S \cup D, lv), Pruned(T, U, S, D)
  PROVE  Tree(U, S, lv)
<1>1. Root \in S /\ lv[Root] = 3 /\ \A f \in S : lv[f] \in 0..3
  BY DEF Tree, Pruned, TOP
<1>2. ASSUME NEW f \in S, NEW x \in Indexes
      PROVE  \/ U[f][x] = Nothing
             \/ U[f][x].kind = "page" /\ U[f][x].at \in Nat /\ lv[f] < 3
             \/ \E g \in S \ {Root} : U[f][x] = TableAt(g) /\ lv[f] = lv[g] + 1
  <2>1. CASE T[f][x].kind = "table" /\ T[f][x].at \in D
    BY <2>1 DEF Pruned
  <2>2. CASE ~(T[f][x].kind = "table" /\ T[f][x].at \in D)
    <3>1. U[f][x] = T[f][x]
      BY <2>2 DEF Pruned
    <3>2. CASE T[f][x].kind = "table"
      <4>1. /\ T[f][x] = TableAt(T[f][x].at) /\ T[f][x].at \in (S \cup D) \ {Root}
            /\ lv[f] = lv[T[f][x].at] + 1
        BY SMTT(60), <3>2, EntryKinds
      <4>2. T[f][x].at \in S \ {Root}
        BY <2>2, <3>2, <4>1
      <4> QED BY <3>1, <4>1, <4>2
    <3>3. CASE T[f][x].kind # "table"
      BY SMTT(60), <3>1, <3>3, EntryKinds
    <3> QED BY <3>2, <3>3
  <2> QED BY <2>1, <2>2
<1>3. ASSUME NEW g \in S \ {Root} PROVE \E f \in S, x \in Indexes : U[f][x] = TableAt(g)
  <2>1. PICK f \in S \cup D, x \in Indexes : T[f][x] = TableAt(g)
    BY DEF Tree
  <2>2. T[f][x].kind = "table" /\ T[f][x].at = g /\ g \notin D
    BY SMTT(60), <2>1 DEF TableAt, Pruned
  <2>3. f \in S
    BY <2>2 DEF Pruned
  <2>4. U[f][x] = TableAt(g)
    BY SMTT(60), <2>1, <2>2, <2>3, PrunedEntry
  <2> QED BY <2>3, <2>4
<1>4. ASSUME NEW f \in S, NEW g \in S, NEW x \in Indexes, NEW y \in Indexes, U[f][x] = U[g][y], U[f][x].kind = "table"
      PROVE  f = g /\ x = y
  <2>1. Nothing.kind # "table"
    BY DEF Nothing
  <2>2. U[f][x] = T[f][x] /\ U[g][y] = T[g][y]
    BY <1>4, <2>1 DEF Pruned
  <2>3. f \in S \cup D /\ g \in S \cup D /\ T[f][x] = T[g][y] /\ T[f][x].kind = "table"
    BY <1>4, <2>2
  <2> QED BY SMTT(60), <2>3, SamePointer
<1> QED BY SMTT(60), <1>1, <1>2, <1>3, <1>4 DEF Tree, TOP

\* Without D, a walk ends where it met D.
LEMMA PrunedWalk ==
  ASSUME NEW T, NEW U, NEW S, NEW D, NEW lv, Tree(T, S \cup D, lv), Pruned(T, U, S, D), NEW v \in Nat
  PROVE  \A l \in 0..3 : Walk(U, v, l) = IF Walk(T, v, l) \in D THEN Root ELSE Walk(T, v, l)
<1> DEFINE P(l) == Walk(U, v, l) = IF Walk(T, v, l) \in D THEN Root ELSE Walk(T, v, l)
<1>1. P(3)
  BY WalkStep
<1>2. ASSUME NEW l \in 0..2, P(l + 1) PROVE P(l)
  <2> DEFINE f == Walk(T, v, l + 1)
             h == Walk(U, v, l + 1)
             x == index(v, l + 1)
  <2>1. /\ Walk(T, v, l) = (IF (f # Root \/ l + 1 = 3) /\ T[f][x].kind = "table" THEN T[f][x].at ELSE Root)
        /\ Walk(U, v, l) = (IF (h # Root \/ l + 1 = 3) /\ U[h][x].kind = "table" THEN U[h][x].at ELSE Root)
    BY WalkStep DEF Child, TOP
  <2>2. l + 1 \in 0..3
    BY SMTT(60)
  <2>3. x \in Indexes /\ f \in S \cup D /\ Root \notin D /\ Walk(T, v, 3) = Root
    BY <2>2, BlockStep, WalkIn, WalkStep DEF Pruned
  <2>4. CASE f \in D
    <3>1. h = Root /\ f # Root /\ l + 1 # 3
      BY <1>2, <2>3, <2>4
    <3>2. Walk(U, v, l) = Root
      BY <2>1, <3>1
    <3>3. Walk(T, v, l) = Root \/ Walk(T, v, l) \in D
      <4>1. T[f][x].kind = "none" \/ (T[f][x].kind = "table" /\ T[f][x].at \in D)
        <5> HIDE DEF f, x
        <5> QED BY <2>3, <2>4, PrunedEntry
      <4> QED BY <2>1, <4>1
    <3> QED BY <3>2, <3>3
  <2>5. CASE f \notin D
    <3>1. h = f /\ f \in S
      BY <1>2, <2>3, <2>5
    <3>2. U[f][x] = IF T[f][x].kind = "table" /\ T[f][x].at \in D THEN Nothing ELSE T[f][x]
      <4> HIDE DEF f, x
      <4> QED BY SMTT(60), <2>3, <3>1, PrunedEntry
    <3>3. Nothing.kind # "table"
      BY DEF Nothing
    <3> QED BY <2>1, <2>3, <3>1, <3>2, <3>3
  <2> QED BY <2>4, <2>5
<1> HIDE DEF P
<1>3. P(2) /\ P(1) /\ P(0)
  BY SMTT(60), <1>1, <1>2
<1>4. \A l \in 0..3 : l = 0 \/ l = 1 \/ l = 2 \/ l = 3
  BY SMTT(60)
<1> QED BY <1>1, <1>3, <1>4 DEF P

\* D held no page, so none is lost.
LEMMA PrunedLeaves ==
  ASSUME NEW T, NEW U, NEW S, NEW D, NEW lv, Tree(T, S \cup D, lv), Pruned(T, U, S, D), NEW v \in Nat
  PROVE  SameLeaves(T, U, v)
<1> SUFFICES ASSUME NEW l \in 0..2
             PROVE  /\ Leaf(T, v, l) <=> Leaf(U, v, l)
                    /\ Leaf(T, v, l) => LeafAt(T, v, l) = LeafAt(U, v, l)
  BY DEF SameLeaves
<1> DEFINE f == Walk(T, v, l)
           h == Walk(U, v, l)
           x == index(v, l)
<1>1. l \in 0..3
  BY SMTT(60)
<1>2. x \in Indexes /\ f \in S \cup D /\ (h = IF f \in D THEN Root ELSE f)
  <2>1. x \in Indexes
    BY <1>1, BlockStep
  <2>2. f \in S \cup D
    BY <1>1, WalkIn
  <2>3. \A k \in 0..3 : Walk(U, v, k) = IF Walk(T, v, k) \in D THEN Root ELSE Walk(T, v, k)
    BY SMTT(60), PrunedWalk
  <2>4. h = IF f \in D THEN Root ELSE f
    BY <1>1, <2>3
  <2> QED BY <2>1, <2>2, <2>4
<1>3. /\ Leaf(T, v, l) <=> f # Root /\ T[f][x].kind = "page"
      /\ Leaf(U, v, l) <=> h # Root /\ U[h][x].kind = "page"
      /\ LeafAt(T, v, l) = T[f][x].at /\ LeafAt(U, v, l) = U[h][x].at
  BY DEF Leaf, LeafAt
<1> HIDE DEF f, h, x
<1>4. CASE f \in D
  <2>1. T[f][x].kind = "none" \/ (T[f][x].kind = "table" /\ T[f][x].at \in D)
    BY <1>2, <1>4, PrunedEntry
  <2> QED BY <1>2, <1>3, <1>4, <2>1
<1>5. CASE f \notin D
  <2>1. f \in S /\ h = f
    BY <1>2, <1>5
  <2>2. U[f][x] = IF T[f][x].kind = "table" /\ T[f][x].at \in D THEN Nothing ELSE T[f][x]
    BY SMTT(60), <1>2, <2>1, PrunedEntry
  <2>3. Nothing.kind # "page"
    BY DEF Nothing
  <2> QED BY <1>3, <2>1, <2>2, <2>3
<1> QED BY <1>4, <1>5

\* U is T with a new table f, all empty, in the entry x of p, which was empty.
Growth(T, U, S, lv, lw, p, x, f) ==
  /\ p \in S /\ x \in Indexes /\ f \notin S /\ lv[p] # 0
  /\ T[p][x] = Nothing /\ U[p][x] = TableAt(f) /\ \A y \in Indexes : U[f][y] = Nothing
  /\ \A g \in S, y \in Indexes : U[g][y] = T[g][y] \/ (g = p /\ y = x)
  /\ lw[f] = lv[p] - 1 /\ \A g \in S : lw[g] = lv[g]

\* The reverse: with one more, empty table, they are a tree too.
LEMMA Grown ==
  ASSUME NEW T, NEW S, NEW lv, Tree(T, S, lv), NEW U, NEW lw, NEW p, NEW x, NEW f, Growth(T, U, S, lv, lw, p, x, f)
  PROVE  Tree(U, S \cup {f}, lw) /\ Pruned(U, T, S, {f})
<1> USE DEF Growth
<1>1. Root \in S /\ f # Root /\ lw[Root] = 3 /\ \A g \in S : lv[g] \in 0..3 /\ lw[g] \in 0..3
  BY DEF Tree, TOP
<1>2. lw[f] \in 0..3 /\ lw[p] = lw[f] + 1 /\ lw[p] = lv[p]
  BY SMTT(60), <1>1
<1>3. Nothing.kind = "none" /\ TableAt(f).kind = "table" /\ TableAt(f).at = f
  BY DEF Nothing, TableAt
<1>4. ASSUME NEW g \in S, NEW y \in Indexes PROVE T[g][y].kind = "table" => T[g][y].at \in S
  BY EntryKinds
<1>5. ASSUME NEW g \in S \cup {f}, NEW y \in Indexes
      PROVE  \/ U[g][y] = Nothing
             \/ U[g][y].kind = "page" /\ U[g][y].at \in Nat /\ lw[g] < 3
             \/ \E h \in (S \cup {f}) \ {Root} : U[g][y] = TableAt(h) /\ lw[g] = lw[h] + 1
  <2>1. CASE g = f
    BY <2>1
  <2>2. CASE g = p /\ y = x
    BY <1>1, <1>2, <2>2
  <2>3. CASE g \in S /\ ~(g = p /\ y = x)
    <3>1. U[g][y] = T[g][y] /\ lw[g] = lv[g]
      BY <2>3
    <3>2. CASE T[g][y].kind = "table"
      <4>1. T[g][y] = TableAt(T[g][y].at) /\ T[g][y].at \in S \ {Root} /\ lv[g] = lv[T[g][y].at] + 1
        BY SMTT(60), <2>3, <3>2, EntryKinds
      <4> QED BY <3>1, <4>1
    <3>3. CASE T[g][y].kind # "table"
      BY SMTT(60), <2>3, <3>1, <3>3, EntryKinds
    <3> QED BY <3>2, <3>3
  <2> QED BY <2>1, <2>2, <2>3
<1>6. ASSUME NEW h \in (S \cup {f}) \ {Root} PROVE \E g \in S \cup {f}, y \in Indexes : U[g][y] = TableAt(h)
  <2>1. CASE h = f
    BY <2>1
  <2>2. CASE h \in S \ {Root}
    <3>1. PICK g \in S, y \in Indexes : T[g][y] = TableAt(h)
      BY <2>2 DEF Tree
    <3>2. T[g][y] # Nothing
      BY SMTT(60), <3>1 DEF TableAt, Nothing
    <3>3. U[g][y] = TableAt(h)
      BY <3>1, <3>2
    <3> QED BY <3>3
  <2> QED BY <1>6, <2>1, <2>2
<1>7. ASSUME NEW g \in S \cup {f}, NEW h \in S \cup {f}, NEW y \in Indexes, NEW z \in Indexes,
             U[g][y] = U[h][z], U[g][y].kind = "table"
      PROVE  g = h /\ y = z
  <2>1. g \in S /\ h \in S
    BY <1>3, <1>7
  <2>2. \A k \in S, w \in Indexes : U[k][w] = T[k][w] \/ (k = p /\ w = x)
    OBVIOUS
  <2>3. CASE (g = p /\ y = x) \/ (h = p /\ z = x)
    <3>1. U[g][y].at = f /\ U[h][z].at = f /\ U[h][z].kind = "table"
      BY <1>3, <1>7, <2>3
    <3> QED BY SMTT(60), <1>4, <1>7, <2>1, <2>2, <3>1
  <2>4. CASE ~(g = p /\ y = x) /\ ~(h = p /\ z = x)
    BY SMTT(60), <1>7, <2>1, <2>2, <2>4, SamePointer
  <2> QED BY <2>3, <2>4
<1>8. Tree(U, S \cup {f}, lw)
  <2>1. Root \in S \cup {f} /\ lw[Root] = TOP /\ \A g \in S \cup {f} : lw[g] \in 0..TOP
    BY <1>1, <1>2 DEF TOP
  <2> QED BY SMTT(60), <1>5, <1>6, <1>7, <2>1 DEF Tree, TOP
<1>9. ASSUME NEW g \in S, NEW y \in Indexes
      PROVE  T[g][y] = IF U[g][y].kind = "table" /\ U[g][y].at \in {f} THEN Nothing ELSE U[g][y]
  <2>1. CASE g = p /\ y = x
    BY <1>3, <2>1
  <2>2. CASE ~(g = p /\ y = x)
    <3>1. U[g][y] = T[g][y]
      BY <2>2
    <3>2. ~(T[g][y].kind = "table" /\ T[g][y].at = f)
      BY <1>4
    <3> QED BY <3>1, <3>2
  <2> QED BY <2>1, <2>2
<1>10. Pruned(U, T, S, {f})
  BY <1>1, <1>3, <1>9 DEF Pruned
<1> QED BY <1>8, <1>10

-----------------------------------------------------------------------------
(* A page comes or goes. *)

\* U is T with the entry x of p, which is no table, replaced by e.
Written(T, U, S, p, x, e) ==
  /\ U[p][x] = e /\ T[p][x].kind # "table" /\ (e = Nothing \/ (e.kind = "page" /\ e.at \in Nat))
  /\ \A g \in S, y \in Indexes : U[g][y] = T[g][y] \/ (g = p /\ y = x)

\* A tree with a page written or cleared is a tree.
LEMMA WrittenTree ==
  ASSUME NEW T, NEW S, NEW lv, Tree(T, S, lv), NEW U, NEW p \in S, NEW x \in Indexes, NEW e, lv[p] < 3,
         Written(T, U, S, p, x, e)
  PROVE  Tree(U, S, lv)
<1>0. U[p][x].kind # "table" /\ (e = Nothing \/ (e.kind = "page" /\ e.at \in Nat)) /\ U[p][x] = e
  BY SMTT(60) DEF Written, Nothing
<1>1. ASSUME NEW f \in S, NEW y \in Indexes
      PROVE  \/ U[f][y] = Nothing
             \/ U[f][y].kind = "page" /\ U[f][y].at \in Nat /\ lv[f] < 3
             \/ \E g \in S \ {Root} : U[f][y] = TableAt(g) /\ lv[f] = lv[g] + 1
  <2>1. CASE f = p /\ y = x
    BY <1>0, <2>1
  <2>2. CASE U[f][y] = T[f][y]
    BY SMTT(60), <2>2, EntryForm
  <2> QED BY <2>1, <2>2 DEF Written
<1>2. ASSUME NEW g \in S \ {Root} PROVE \E f \in S, y \in Indexes : U[f][y] = TableAt(g)
  <2>1. PICK f \in S, y \in Indexes : T[f][y] = TableAt(g)
    BY DEF Tree
  <2>2. T[f][y].kind = "table"
    BY SMTT(60), <2>1 DEF TableAt
  <2>3. U[f][y] = TableAt(g)
    BY <2>1, <2>2 DEF Written
  <2> QED BY <2>3
<1>3. ASSUME NEW f \in S, NEW g \in S, NEW y \in Indexes, NEW z \in Indexes, U[f][y] = U[g][z], U[f][y].kind = "table"
      PROVE  f = g /\ y = z
  <2>1. U[f][y] = T[f][y] /\ U[g][z] = T[g][z]
    BY <1>0, <1>3 DEF Written
  <2>2. T[f][y] = T[g][z] /\ T[f][y].kind = "table"
    BY <1>3, <2>1
  <2> QED BY SMTT(60), <2>2, SamePointer
<1> QED BY SMTT(60), <1>1, <1>2, <1>3 DEF Tree, TOP

\* Writing or clearing a page changes no walk.
LEMMA WrittenWalk ==
  ASSUME NEW T, NEW S, NEW lv, Tree(T, S, lv), NEW U, NEW p \in S, NEW x \in Indexes, NEW e,
         Written(T, U, S, p, x, e), NEW v \in Nat
  PROVE  \A l \in 0..3 : Walk(U, v, l) = Walk(T, v, l)
<1>1. ASSUME NEW f \in S, NEW y \in Indexes
      PROVE  U[f][y] = T[f][y] \/ (U[f][y].kind # "table" /\ T[f][y].kind # "table")
  <2>1. U[p][x].kind # "table"
    BY SMTT(60) DEF Written, Nothing
  <2> QED BY <2>1 DEF Written
<1> DEFINE P(l) == Walk(U, v, l) = Walk(T, v, l)
<1>2. P(3)
  BY WalkStep
<1>3. ASSUME NEW l \in 0..2, P(l + 1) PROVE P(l)
  <2> DEFINE f == Walk(T, v, l + 1)
             y == index(v, l + 1)
  <2>1. l + 1 \in 0..3
    BY SMTT(60)
  <2>2. f \in S /\ y \in Indexes
    BY <2>1, WalkIn, BlockStep
  <2>3. Child(U, f, v, l + 1) = Child(T, f, v, l + 1)
    BY <1>1, <2>2 DEF Child
  <2> QED BY <1>3, <2>3, WalkStep
<1> HIDE DEF P
<1>4. P(2) /\ P(1) /\ P(0)
  BY SMTT(60), <1>2, <1>3
<1>5. \A l \in 0..3 : l = 0 \/ l = 1 \/ l = 2 \/ l = 3
  BY SMTT(60)
<1> QED BY <1>2, <1>4, <1>5 DEF P

\* Only the addresses of the page see that it was written or cleared.
LEMMA WrittenLeaves ==
  ASSUME NEW T, NEW S, NEW lv, Tree(T, S, lv), NEW U, NEW w \in Nat, is_canonical(w), NEW s \in 0..2,
         NEW e, Walk(T, w, s) # Root, Written(T, U, S, Walk(T, w, s), index(w, s), e),
         NEW v \in Nat, is_canonical(v), NEW l \in 0..2
  PROVE  IF l = s /\ Block(v, s) = Block(w, s)
         THEN (Leaf(U, v, l) <=> e.kind = "page") /\ LeafAt(U, v, l) = e.at
         ELSE (Leaf(U, v, l) <=> Leaf(T, v, l)) /\ LeafAt(U, v, l) = LeafAt(T, v, l)
<1>1. l \in 0..3 /\ s \in 0..3 /\ s + 1 \in 0..3
  BY SMTT(60)
<1> DEFINE p == Walk(T, w, s)
           x == index(w, s)
           f == Walk(T, v, l)
           y == index(v, l)
<1>2. p \in S /\ x \in Indexes /\ f \in S /\ y \in Indexes /\ lv[p] = s /\ Reached(T, w, s)
  <2>1. Reached(T, w, s)
    BY DEF Reached
  <2>2. p \in S /\ lv[p] = s /\ f \in S
    BY <1>1, <2>1, WalkIn
  <2>3. x \in Indexes /\ y \in Indexes
    BY <1>1, BlockStep
  <2> QED BY <2>1, <2>2, <2>3
<1>3. Walk(U, v, l) = f
  <2>1. \A k \in 0..3 : Walk(U, v, k) = Walk(T, v, k)
    <3>1. Written(T, U, S, p, x, e)
      OBVIOUS
    <3> HIDE DEF p, x, f, y
    <3> QED BY SMTT(60), <1>2, <3>1, WrittenWalk
  <2> QED BY <1>1, <2>1
<1>4. CASE l = s /\ Block(v, s) = Block(w, s)
  <2>1. Block(v, s + 1) = Block(w, s + 1) /\ index(v, s) = index(w, s)
    BY <1>1, <1>4, SameBlock
  <2>2. Walk(T, v, s) = Walk(T, w, s)
    BY <2>1, WalkSame
  <2>3. f = p /\ y = x
    BY <1>4, <2>1, <2>2
  <2>4. U[f][y] = e
    BY <2>3 DEF Written
  <2> QED BY <1>3, <1>4, <2>3, <2>4 DEF Leaf, LeafAt
<1>5. CASE ~(l = s /\ Block(v, s) = Block(w, s))
  <2>1. ASSUME f = p, y = x PROVE FALSE
    <3>1. l = s
      <4>1. Reached(T, v, l)
        BY <2>1 DEF Reached
      <4>2. lv[f] = l
        BY <1>1, <4>1, WalkIn
      <4> QED BY <1>2, <2>1, <4>2
    <3>2. Block(w, s + 1) = Block(v, s + 1)
      BY <1>2, <2>1, <3>1, WalkApart
    <3>3. Block(v, s) = Block(w, s)
      BY <1>1, <2>1, <3>1, <3>2, SameBlock
    <3> QED BY <1>5, <3>1, <3>3
  <2>2. U[f][y] = T[f][y]
    BY <1>2, <2>1 DEF Written
  <2> QED BY <1>3, <1>5, <2>2 DEF Leaf, LeafAt
<1> QED BY <1>4, <1>5

\* Below an entry that is no table there is nothing, above it only tables.
LEMMA NoLeafThere ==
  ASSUME NEW T, NEW S, NEW lv, Tree(T, S, lv), NEW w \in Nat, NEW s \in 0..2, Reached(T, w, s),
         T[Walk(T, w, s)][index(w, s)].kind = "none", NEW v \in Nat, Block(v, s) = Block(w, s), NEW l \in 0..2
  PROVE  ~Leaf(T, v, l)
<1>1. l \in 0..3 /\ s \in 0..3 /\ l # 3 /\ s # 3
  BY SMTT(60)
<1>2. Block(v, s + 1) = Block(w, s + 1) /\ index(v, s) = index(w, s)
  BY <1>1, SameBlock
<1>3. Walk(T, v, s) = Walk(T, w, s)
  BY <1>2, WalkSame
<1>4. Reached(T, v, s) /\ T[Walk(T, v, s)][index(v, s)].kind = "none"
  BY <1>2, <1>3 DEF Reached
<1> SUFFICES ASSUME Leaf(T, v, l) PROVE FALSE
  OBVIOUS
<1>5. Reached(T, v, l) /\ T[Walk(T, v, l)][index(v, l)].kind = "page"
  BY DEF Leaf, Reached
<1>6. CASE l = s
  BY <1>4, <1>5, <1>6
<1>7. CASE l < s
  <2>1. T[Walk(T, v, s)][index(v, s)].kind = "table"
    BY <1>1, <1>5, <1>7, ReachedUp
  <2> QED BY <1>4, <2>1
<1>8. CASE s < l
  <2>1. T[Walk(T, v, l)][index(v, l)].kind = "table"
    BY <1>1, <1>4, <1>8, ReachedUp
  <2> QED BY <1>5, <2>1
<1>9. l < s \/ s < l \/ l = s
  BY SMTT(60)
<1> QED BY <1>6, <1>7, <1>8, <1>9

-----------------------------------------------------------------------------
(***************************************************************************)
(* The inductive invariant.  H are frames that somebody else holds: none   *)
(* in Vmm, those of the rest of the kernel in VmmTlb.                      *)
(***************************************************************************)
Tables(H) == Frames \ (free \cup H)

\* map and unmap hold the tables of a walk.
Walking == pc \in {"map_walk", "unmap_walk", "reclaim", "flush"}

\* The operations during which the lock holder is at p.
OpsAt(p) ==
  CASE p = "idle" -> {"none"}
    [] p \in {"map", "map_walk"} -> {"map"}
    [] p = "unmap" -> {"unmap"}
    [] p = "undo" -> {"undo"}
    [] p = "done" -> {"map", "unmap", "undo"}
    [] OTHER -> {"unmap", "undo"}

\* Where the lock holder can be, and with what.
Pcs == {"idle", "map", "map_walk", "unmap", "undo", "unmap_walk", "reclaim", "flush", "done"}
CallSet == [op : {"none", "map", "unmap", "undo"}, virt : Nat, phys : Nat, pages : Nat, size : 0..2]
Results == {"Ok", "NonCanonical", "Misaligned", "AlreadyMapped", "OutOfMemory", "NotMapped"}

\* Types, and what the control state says.
Typed ==
  /\ table \in [Frames -> [Indexes -> Entries]]
  /\ free \subseteq Frames /\ new \subseteq Frames
  /\ pc \in Pcs /\ call \in CallSet /\ call.op \in OpsAt(pc)
  /\ i \in 0..call.pages
  /\ path \in Seq(Frames)
  /\ result \in Results

\* The frames are free, held by somebody else, or the tables of a tree.
Shaped(H) ==
  /\ H \subseteq Frames \ free
  /\ \E lv : Tree(table, Tables(H), lv)
  /\ \A f \in Frames \ Tables(H) : table[f] = Junk

\* The tables in hand are those that a walk for the page passes.
OnPath ==
  IF Walking
  THEN /\ Len(path) \in 1..(4 - call.size) /\ i < call.pages
       /\ \A k \in 1..Len(path) : path[k] = Walk(table, virt, 4 - k) /\ Reached(table, virt, 4 - k)
       /\ is_canonical(virt) /\ ~misaligned(virt)
       /\ pc = "map_walk" => ~misaligned(phys)
  ELSE path = <<>>

\* The new tables hold nothing but each other.
OnlyNew(H) ==
  /\ new \subseteq Tables(H) \ {Root}
  /\ pc # "map_walk" => new = {}
  /\ \A f \in new, x \in Indexes :
       table[f][x].kind = "none" \/ (table[f][x].kind = "table" /\ table[f][x].at \in new)

\* All of it.
Struct(H) == Typed /\ Shaped(H) /\ OnPath /\ OnlyNew(H)

\* Empty tables are about to be used or to be given back.
Used(H) ==
  /\ \A f \in Tables(H) \ {Root} :
       is_empty(f) => pc \in {"map_walk", "reclaim", "flush"} /\ f = Lowest /\ (pc = "map_walk" => f \in new)
  /\ \A f \in Tables(H) \ (new \cup {Root}) : pc = "map_walk" =>
       \E x \in Indexes : Present(table[f][x]) /\ ~(table[f][x].kind = "table" /\ table[f][x].at \in new)

\* The k-th page of the range.
VirtAt(k) == call.virt + k * Stride(call.size)
Span(a, b) == VirtAt(a)..(VirtAt(b) - 1)

\* How many pages of the range are done.
Done == IF pc \in {"reclaim", "flush"} THEN i + 1 ELSE i

\* Pages a..b-1 of the range are mapped.
Standing(a, b) ==
  \A k \in a..(b - 1) :
    is_canonical(VirtAt(k)) /\ ~misaligned(VirtAt(k)) /\ Leaf(table, VirtAt(k), call.size)

\* Pages a..b-1 of the range translate to the physical range, all else as before.
MappedFrom(a, b) ==
  \A v \in Canonical :
    translate(table, v) = IF v \in Span(a, b) THEN call.phys + (v - call.virt) ELSE before[v]

\* map_range: the pages up to the i-th are mapped, and were not before.
MapSoFar ==
  /\ result = "Ok" /\ MappedFrom(0, i) /\ Standing(0, i)
  /\ \A v \in Canonical : v \in Span(0, i) => before[v] = Unmapped
  /\ pc = "done" => i = call.pages

\* Its rollback: those from the i-th on still are.
UndoSoFar ==
  /\ result # "Ok" /\ MappedFrom(Done, call.pages) /\ Standing(Done, call.pages)
  /\ \A v \in Canonical : v \in Span(0, call.pages) => before[v] = Unmapped
  /\ pc = "done" => i = call.pages

\* unmap_range: the pages up to the i-th are gone, and were there before.
UnmapSoFar ==
  /\ \A v \in Canonical : translate(table, v) = IF v \in Span(0, Done) THEN Unmapped ELSE before[v]
  /\ \A v \in Span(0, Done) : v \in Canonical /\ before[v] # Unmapped
  /\ result = "Ok" <=> (pc = "done" => i = call.pages)

\* What the call has done so far.
SoFar ==
  /\ pc # "idle" => before = [v \in Canonical |-> before[v]]
  /\ call.op = "map" => MapSoFar
  /\ call.op = "undo" => UndoSoFar
  /\ call.op = "unmap" => UnmapSoFar

\* The inductive invariant.
Inv(H) == Struct(H) /\ Used(H) /\ SoFar

-----------------------------------------------------------------------------
(* What the invariant says about the state at hand. *)

\* OpsAt, case by case.
LEMMA OpsAtPcs ==
  /\ OpsAt("idle") = {"none"} /\ OpsAt("map") = {"map"} /\ OpsAt("map_walk") = {"map"}
  /\ OpsAt("unmap") = {"unmap"} /\ OpsAt("undo") = {"undo"} /\ OpsAt("done") = {"map", "unmap", "undo"}
  /\ OpsAt("unmap_walk") = {"unmap", "undo"} /\ OpsAt("reclaim") = {"unmap", "undo"}
  /\ OpsAt("flush") = {"unmap", "undo"}
  BY DEF OpsAt

\* The fields of a call.
LEMMA CallTypes ==
  ASSUME Typed
  PROVE  /\ call.virt \in Nat /\ call.phys \in Nat /\ call.pages \in Nat /\ call.size \in 0..2
         /\ i \in Nat /\ i <= call.pages /\ Stride(call.size) \in Nat \ {0}
         /\ call.op \in {"none", "map", "unmap", "undo"}
<1>1. /\ call.virt \in Nat /\ call.phys \in Nat /\ call.pages \in Nat /\ call.size \in 0..2
      /\ call.op \in {"none", "map", "unmap", "undo"} /\ i \in 0..call.pages
  BY DEF Typed, CallSet
<1>2. Stride(call.size) \in Nat \ {0}
  BY SMTT(60), <1>1, Powers DEF Stride
<1> QED BY SMTT(60), <1>1, <1>2

\* The page in hand is at a natural address.
LEMMA VirtNat ==
  ASSUME Typed
  PROVE  virt \in Nat /\ phys \in Nat /\ \A k \in Nat : VirtAt(k) \in Nat
<1> DEFINE st == Stride(call.size)
<1>1. call.virt \in Nat /\ call.phys \in Nat /\ i \in Nat /\ st \in Nat
  BY CallTypes
<1> HIDE DEF st
<1>2. \A k \in Nat : k * st \in Nat
  BY SMTT(60), <1>1
<1>3. \A k \in Nat : call.virt + k * st \in Nat /\ call.phys + k * st \in Nat
  BY SMTT(60), <1>1, <1>2
<1> QED BY <1>1, <1>3 DEF virt, phys, VirtAt, st

\* The table in hand is on the walk for the page in hand, on its level.
LEMMA InHand ==
  ASSUME NEW H, Struct(H), Walking, NEW lv, Tree(table, Tables(H), lv)
  PROVE  /\ Len(path) \in 1..4 /\ Level \in call.size..3 /\ Level \in 0..3 /\ Len(path) = 4 - Level
         /\ Lowest = Walk(table, virt, Level) /\ Reached(table, virt, Level)
         /\ Lowest \in Tables(H) /\ Lowest \in Frames /\ lv[Lowest] = Level
         /\ index(virt, Level) \in Indexes
<1>1. call.size \in 0..2 /\ virt \in Nat /\ path \in Seq(Frames)
  BY CallTypes, VirtNat DEF Struct, Typed
<1>2. /\ Len(path) \in 1..(4 - call.size)
      /\ \A k \in 1..Len(path) : path[k] = Walk(table, virt, 4 - k) /\ Reached(table, virt, 4 - k)
  BY DEF Struct, OnPath
<1>3. Level = 4 - Len(path)
  BY SMTT(60), <1>1, <1>2 DEF Level, TOP
<1>4. /\ Len(path) \in 1..4 /\ Level \in call.size..3 /\ Level \in 0..3 /\ Len(path) = 4 - Level
      /\ Len(path) \in 1..Len(path)
  <2> DEFINE n == Len(path)
             s == call.size
             m == Level
  <2>1. s \in 0..2 /\ n \in 1..(4 - s) /\ m = 4 - n
    BY <1>1, <1>2, <1>3
  <2> HIDE DEF n, s, m
  <2>2. n \in 1..4 /\ m \in s..3 /\ m \in 0..3 /\ n = 4 - m /\ n \in 1..n
    BY SMTT(60), <2>1
  <2> QED BY <2>2 DEF n, s, m
<1>5. Lowest = Walk(table, virt, Level) /\ Reached(table, virt, Level)
  BY <1>2, <1>3, <1>4 DEF Lowest
<1>6. Walk(table, virt, Level) \in Tables(H) /\ lv[Walk(table, virt, Level)] = Level
  BY <1>1, <1>4, <1>5, WalkIn
<1>7. index(virt, Level) \in Indexes
  BY <1>1, <1>4, BlockStep
<1>8. Walk(table, virt, Level) \in Frames
  BY <1>6 DEF Tables
<1> QED BY <1>4, <1>5, <1>6, <1>7, <1>8

\* A table with one entry written.
LEMMA EntryWritten ==
  ASSUME NEW T \in [Frames -> [Indexes -> Entries]], NEW f \in Frames, NEW x \in Indexes, NEW e \in Entries,
         NEW U, U = [T EXCEPT ![f][x] = e]
  PROVE  /\ U \in [Frames -> [Indexes -> Entries]] /\ U[f][x] = e
         /\ \A g \in Frames, y \in Indexes : U[g][y] = T[g][y] \/ (g = f /\ y = x)
         /\ \A g \in Frames \ {f} : U[g] = T[g]
  OBVIOUS

\* The entries that vmm.rs writes.
LEMMA EntryTypes ==
  /\ Nothing \in Entries /\ Zeroed \in [Indexes -> Entries] /\ Junk \in [Indexes -> Entries]
  /\ \A f \in Frames : TableAt(f) \in Entries
  /\ \A p \in Nat : PageAt(p) \in Entries
  /\ Nothing.kind = "none"
  /\ \A x \in Indexes : Zeroed[x] = Nothing /\ Junk[x].kind = "junk"
  /\ \A f : TableAt(f).kind = "table" /\ TableAt(f).at = f
  /\ \A p : PageAt(p).kind = "page" /\ PageAt(p).at = p
  BY DEF Nothing, TableAt, PageAt, Entries, Zeroed, Junk

-----------------------------------------------------------------------------
(* What the writes do to the tables. *)

\* A table is made: it is all empty, and in the entry that was empty.
Makes(H, f) ==
  LET p == Lowest
      x == index(virt, Level)
  IN  /\ f \in Frames \ Tables(H) /\ f \notin H /\ Tables(H)' = Tables(H) \cup {f}
      /\ table[p][x] = Nothing /\ table'[p][x] = TableAt(f)
      /\ \A y \in Indexes : table'[f][y] = Nothing
      /\ \A g \in Tables(H), y \in Indexes : table'[g][y] = table[g][y] \/ (g = p /\ y = x)
      /\ \E lv : Tree(table', Tables(H) \cup {f}, lv)
      /\ Pruned(table', table, Tables(H), {f})

\* map, where a table is missing: the tree grows by one.
LEMMA MapNewTableDoes ==
  ASSUME NEW H, Struct(H), MapNewTable
  PROVE  /\ table' \in [Frames -> [Indexes -> Entries]]
         /\ \E f \in free : /\ Makes(H, f) /\ free' = free \ {f} /\ path' = Append(path, f) /\ new' = new \cup {f}
                            /\ \A g \in Frames \ (Tables(H) \cup {f}) : table'[g] = table[g]
<1> DEFINE p == Lowest
           x == index(virt, Level)
           S == Tables(H)
<1>1. PICK lv : Tree(table, S, lv)
  BY DEF Struct, Shaped
<1>2. pc = "map_walk" /\ Level > call.size /\ Slot.kind = "none"
  BY DEF MapNewTable
<1>3. Walking
  BY <1>2 DEF Walking
<1>4. p \in S /\ p \in Frames /\ lv[p] = Level /\ x \in Indexes /\ Level \in 0..3
  BY <1>1, <1>3, InHand
<1>5. PICK f \in free :
        /\ free' = free \ {f} /\ path' = Append(path, f) /\ new' = new \cup {f}
        /\ table' = [[table EXCEPT ![p][x] = TableAt(f)] EXCEPT ![f] = Zeroed]
  BY DEF MapNewTable, Write
<1>6. f \in Frames /\ f \notin H /\ f \notin S /\ table \in [Frames -> [Indexes -> Entries]] /\ free \subseteq Frames
  BY DEF Struct, Typed, Shaped, Tables
<1>7. Tables(H)' = S \cup {f}
  BY <1>5, <1>6 DEF Tables
<1>8. table[p][x] = Nothing
  <2>1. table[p][x].kind = "none"
    BY <1>2 DEF Slot
  <2> HIDE DEF p, x, S
  <2> QED BY <1>1, <1>4, <2>1, EntryKinds
<1> DEFINE W == [table EXCEPT ![p][x] = TableAt(f)]
<1> HIDE DEF p, x, S
<1>9. /\ W \in [Frames -> [Indexes -> Entries]] /\ W[p][x] = TableAt(f)
      /\ \A g \in Frames, y \in Indexes : W[g][y] = table[g][y] \/ (g = p /\ y = x)
      /\ \A g \in Frames \ {p} : W[g] = table[g]
  <2>1. W = [table EXCEPT ![p][x] = TableAt(f)] /\ TableAt(f) \in Entries
    BY <1>6, EntryTypes
  <2> HIDE DEF W
  <2> QED BY SMTT(60), <1>4, <1>6, <2>1, EntryWritten
<1> HIDE DEF W
<1>10. /\ table' \in [Frames -> [Indexes -> Entries]] /\ table'[f] = Zeroed
       /\ \A g \in Frames \ {f} : table'[g] = W[g]
  <2>1. table' = [W EXCEPT ![f] = Zeroed]
    BY <1>5 DEF W
  <2> QED BY <1>6, <1>9, <2>1, EntryTypes
<1>11. /\ table'[p][x] = TableAt(f)
       /\ \A y \in Indexes : table'[f][y] = Nothing
       /\ \A g \in S, y \in Indexes : table'[g][y] = table[g][y] \/ (g = p /\ y = x)
       /\ \A g \in Frames \ (S \cup {f}) : table'[g] = table[g]
  <2>1. S \subseteq Frames
    BY DEF S, Tables
  <2>2. table'[p][x] = TableAt(f)
    BY <1>4, <1>6, <1>9, <1>10
  <2>3. \A y \in Indexes : table'[f][y] = Nothing
    BY <1>10, EntryTypes
  <2>4. \A g \in S, y \in Indexes : table'[g][y] = table[g][y] \/ (g = p /\ y = x)
    BY <1>6, <1>9, <1>10, <2>1
  <2>5. \A g \in Frames \ (S \cup {f}) : table'[g] = table[g]
    BY <1>4, <1>9, <1>10
  <2> QED BY <2>2, <2>3, <2>4, <2>5
<1>12. \E lw : Tree(table', S \cup {f}, lw) /\ Pruned(table', table, S, {f})
  <2> DEFINE lw == [g \in Frames |-> IF g = f THEN lv[p] - 1 ELSE lv[g]]
  <2>1. lw[f] = lv[p] - 1 /\ \A g \in S : lw[g] = lv[g]
    BY <1>6 DEF S, Tables
  <2>2. lv[p] # 0
    BY SMTT(60), <1>2, <1>4, CallTypes DEF Struct
  <2> HIDE DEF lw
  <2>3. Growth(table, table', S, lv, lw, p, x, f)
    BY <1>4, <1>6, <1>8, <1>11, <2>1, <2>2 DEF Growth
  <2>4. Tree(table', S \cup {f}, lw) /\ Pruned(table', table, S, {f})
    BY <1>1, <2>3, Grown
  <2> QED BY <2>4
<1>13. Makes(H, f)
  BY <1>6, <1>7, <1>8, <1>11, <1>12 DEF Makes, p, x, S
<1> QED BY <1>5, <1>10, <1>11, <1>13 DEF S

\* The tables D go, which hold nothing but each other.
Drops(H, D) ==
  /\ D \subseteq Tables(H) \ {Root} /\ Tables(H)' = Tables(H) \ D
  /\ Pruned(table, table', Tables(H) \ D, D)
  /\ \A f \in D : table'[f] = Junk
  /\ \A f \in Frames \ Tables(H) : table'[f] = table[f]

\* map, out of memory: the new tables are dropped from the tree.
LEMMA MapOutOfMemoryDoes ==
  ASSUME NEW H, Struct(H), MapOutOfMemory
  PROVE  table' \in [Frames -> [Indexes -> Entries]] /\ Drops(H, new) /\ free' = new
<1> DEFINE S == Tables(H)
<1>1. /\ free = {} /\ free' = new
      /\ table' = [f \in Frames |->
           IF f \in new THEN Junk
           ELSE [x \in Indexes |-> IF table[f][x].kind = "table" /\ table[f][x].at \in new
                                   THEN Nothing ELSE table[f][x]]]
  BY DEF MapOutOfMemory
<1>2. /\ table \in [Frames -> [Indexes -> Entries]] /\ new \subseteq S \ {Root} /\ S \subseteq Frames
      /\ \A f \in Frames \ S : table[f] = Junk
      /\ H \subseteq Frames \ free
  BY DEF Struct, Typed, Shaped, OnlyNew, Tables
<1>3. Tables(H)' = S \ new
  BY <1>1, <1>2 DEF Tables
<1> HIDE DEF S
<1>4. table' \in [Frames -> [Indexes -> Entries]]
  <2>1. ASSUME NEW f \in Frames
        PROVE  [x \in Indexes |-> IF table[f][x].kind = "table" /\ table[f][x].at \in new
                                  THEN Nothing ELSE table[f][x]] \in [Indexes -> Entries]
    BY <1>2, EntryTypes
  <2> QED BY <1>1, <2>1, EntryTypes
<1>5. \A f \in new : table'[f] = Junk
  BY <1>1, <1>2
<1>6. \A f \in Frames \ new, x \in Indexes :
        table'[f][x] = IF table[f][x].kind = "table" /\ table[f][x].at \in new THEN Nothing ELSE table[f][x]
  BY <1>1, <1>2
<1>7. ASSUME NEW f \in Frames \ S PROVE table'[f] = table[f]
  <2>1. table'[f] = [x \in Indexes |-> IF table[f][x].kind = "table" /\ table[f][x].at \in new
                                       THEN Nothing ELSE table[f][x]]
    BY <1>1, <1>2
  <2>2. \A x \in Indexes : table[f][x].kind = "junk"
    BY <1>2, EntryTypes
  <2>3. table'[f] = [x \in Indexes |-> table[f][x]]
    BY <2>1, <2>2
  <2>4. table[f] = [x \in Indexes |-> table[f][x]]
    BY <1>2
  <2> QED BY <2>3, <2>4
<1>8. Pruned(table, table', S \ new, new)
  <2>1. \A f \in new, x \in Indexes :
          table[f][x].kind = "none" \/ (table[f][x].kind = "table" /\ table[f][x].at \in new)
    BY DEF Struct, OnlyNew
  <2>2. Root \notin new /\ (S \ new) \cap new = {}
    BY <1>2
  <2>3. \A f \in S \ new : f \in Frames \ new
    BY <1>2
  <2> QED BY <1>6, <2>1, <2>2, <2>3 DEF Pruned
<1> QED BY <1>1, <1>2, <1>3, <1>4, <1>5, <1>7, <1>8 DEF Drops, S

\* reclaim_pt, reclaim_pd, reclaim_pdpt: the empty table is dropped.
LEMMA ReclaimDoes ==
  ASSUME NEW H, Struct(H), Reclaim, is_empty(Lowest)
  PROVE  /\ table' \in [Frames -> [Indexes -> Entries]] /\ Drops(H, {Lowest})
         /\ free' = free \cup {Lowest} /\ pc' = "flush"
<1> DEFINE f == Lowest
           p == path[Len(path) - 1]
           x == index(virt, Level + 1)
           S == Tables(H)
<1>1. PICK lv : Tree(table, S, lv)
  BY DEF Struct, Shaped
<1>2. /\ pc = "reclaim" /\ Len(path) > 1 /\ pc' = "flush" /\ free' = free \cup {f}
      /\ table' = [[table EXCEPT ![p][x] = Nothing] EXCEPT ![f] = Junk]
  BY DEF Reclaim, Write
<1>3. Walking
  BY <1>2 DEF Walking
<1>4. /\ Len(path) \in 1..4 /\ Level \in 0..3 /\ Len(path) = 4 - Level /\ f = Walk(table, virt, Level)
      /\ Reached(table, virt, Level) /\ f \in S /\ f \in Frames /\ lv[f] = Level
  BY <1>1, <1>3, InHand
<1>5. virt \in Nat
  BY VirtNat DEF Struct
<1>6. Level \in 0..2 /\ Level + 1 \in 0..3 /\ Len(path) - 1 \in 1..Len(path) /\ 4 - (Len(path) - 1) = Level + 1
  BY SMTT(60), <1>2, <1>4
<1>7. p = Walk(table, virt, Level + 1)
  BY <1>3, <1>6 DEF Struct, OnPath
<1>8. p \in S /\ p \in Frames /\ x \in Indexes
  <2>1. p \in S /\ x \in Indexes
    BY <1>1, <1>5, <1>6, <1>7, WalkIn, BlockStep
  <2> QED BY <2>1 DEF Tables
<1>9. table[p][x] = TableAt(f) /\ f # Root
  BY <1>1, <1>4, <1>5, <1>6, <1>7, WalkNext
<1>10. \A y \in Indexes : table[f][y].kind = "none"
  BY DEF is_empty, Present
<1>11. p # f
  BY <1>8, <1>9, <1>10, EntryTypes
<1>12. table \in [Frames -> [Indexes -> Entries]] /\ free \subseteq Frames
  BY DEF Struct, Typed
<1>13. Tables(H)' = S \ {f}
  BY <1>2, <1>4 DEF Tables
<1> DEFINE W == [table EXCEPT ![p][x] = Nothing]
<1> HIDE DEF f, p, x, S
<1>14. /\ W \in [Frames -> [Indexes -> Entries]] /\ W[p][x] = Nothing
       /\ \A g \in Frames, y \in Indexes : W[g][y] = table[g][y] \/ (g = p /\ y = x)
       /\ \A g \in Frames \ {p} : W[g] = table[g]
  <2>1. W = [table EXCEPT ![p][x] = Nothing] /\ Nothing \in Entries
    BY EntryTypes
  <2> HIDE DEF W
  <2> QED BY SMTT(60), <1>8, <1>12, <2>1, EntryWritten
<1> HIDE DEF W
<1>15. /\ table' \in [Frames -> [Indexes -> Entries]] /\ table'[f] = Junk
       /\ \A g \in Frames \ {f} : table'[g] = W[g]
  <2>1. table' = [W EXCEPT ![f] = Junk]
    BY <1>2 DEF W
  <2> QED BY <1>4, <1>14, <2>1, EntryTypes
<1>16. ASSUME NEW g \in S \ {f}, NEW y \in Indexes
       PROVE  table'[g][y] = IF table[g][y].kind = "table" /\ table[g][y].at \in {f} THEN Nothing ELSE table[g][y]
  <2>1. g \in Frames \ {f} /\ g \in S
    BY DEF S, Tables
  <2>2. table'[g][y] = W[g][y]
    BY <1>15, <2>1
  <2>3. CASE g = p /\ y = x
    <3>1. table[g][y].kind = "table" /\ table[g][y].at = f
      BY <1>9, <2>3, EntryTypes
    <3> QED BY <1>14, <2>2, <2>3, <3>1
  <2>4. CASE ~(g = p /\ y = x)
    <3>1. W[g][y] = table[g][y]
      BY <1>14, <2>1, <2>4
    <3>2. ASSUME table[g][y].kind = "table", table[g][y].at = f PROVE FALSE
      <4>1. table[g][y] = TableAt(f)
        BY SMTT(60), <1>1, <2>1, <3>2, EntryKinds
      <4> QED BY SMTT(60), <1>1, <1>8, <1>9, <2>1, <2>4, <4>1, OnePointer
    <3> QED BY <2>2, <3>1, <3>2
  <2> QED BY <2>3, <2>4
<1>17. Pruned(table, table', S \ {f}, {f})
  BY <1>9, <1>10, <1>16 DEF Pruned
<1>18. \A g \in Frames \ S : table'[g] = table[g]
  BY <1>4, <1>8, <1>14, <1>15
<1> QED BY <1>2, <1>4, <1>9, <1>13, <1>15, <1>17, <1>18 DEF Drops, f, S

\* The entry of the page is written.
Writes(H, e) ==
  /\ Lowest = Walk(table, virt, call.size) /\ Level = call.size /\ Lowest # Root /\ Lowest \in Tables(H)
  /\ Tables(H)' = Tables(H)
  /\ Written(table, table', Tables(H), Lowest, index(virt, call.size), e)
  /\ \A f \in Frames \ Tables(H) : table'[f] = table[f]

\* map and unmap, at the last level: one entry of the tree is written.
LEMMA LeafDoes ==
  ASSUME NEW H, Struct(H), Walking, Level = call.size, Slot.kind # "table",
         NEW e, e = Nothing \/ (\E a \in Nat : e = PageAt(a)), table' = Write(Lowest, Level, e), free' = free
  PROVE  table' \in [Frames -> [Indexes -> Entries]] /\ Writes(H, e)
<1> DEFINE p == Lowest
           x == index(virt, Level)
           S == Tables(H)
<1>1. PICK lv : Tree(table, S, lv)
  BY DEF Struct, Shaped
<1>2. /\ p \in S /\ p \in Frames /\ lv[p] = Level /\ x \in Indexes /\ Level \in 0..3 /\ p = Walk(table, virt, Level)
  BY <1>1, InHand
<1>3. p # Root
  <2>1. Level # 3
    BY SMTT(60), CallTypes DEF Struct
  <2>2. lv[Root] = 3
    BY <1>1 DEF Tree, TOP
  <2> QED BY <1>2, <2>1, <2>2
<1>4. table \in [Frames -> [Indexes -> Entries]] /\ S \subseteq Frames
  BY DEF Struct, Typed, Tables
<1>5. e \in Entries /\ (e = Nothing \/ (e.kind = "page" /\ e.at \in Nat))
  BY EntryTypes
<1>6. table' = [table EXCEPT ![p][x] = e]
  BY DEF Write
<1>7. Tables(H)' = S
  BY DEF Tables
<1>8. table[p][x].kind # "table"
  BY DEF Slot
<1>9. index(virt, call.size) = x
  OBVIOUS
<1> HIDE DEF p, x, S
<1>10. /\ table' \in [Frames -> [Indexes -> Entries]] /\ table'[p][x] = e
       /\ \A g \in Frames, y \in Indexes : table'[g][y] = table[g][y] \/ (g = p /\ y = x)
       /\ \A g \in Frames \ {p} : table'[g] = table[g]
  BY SMTT(60), <1>2, <1>4, <1>5, <1>6, EntryWritten
<1>11. Written(table, table', S, p, x, e)
  BY <1>4, <1>5, <1>8, <1>10 DEF Written
<1>12. \A g \in Frames \ S : table'[g] = table[g]
  BY <1>2, <1>10
<1> QED BY <1>2, <1>3, <1>7, <1>9, <1>10, <1>11, <1>12 DEF Writes, p, S

-----------------------------------------------------------------------------
(* Each step keeps the shape of the tables and the way through them. *)

\* No walk is under way.
Resting == pc \in {"idle", "map", "unmap", "undo", "done"} /\ path = <<>> /\ new = {}

\* Between two pages, with no walk in hand, Struct is the shape of the tables.
LEMMA Rests ==
  ASSUME NEW H, Shaped(H)', table' \in [Frames -> [Indexes -> Entries]], free' \subseteq Frames, Resting',
         call' \in CallSet, call'.op \in OpsAt(pc'), i' \in 0..call'.pages, result' \in Results
  PROVE  Struct(H)'
<1>1. Typed'
  <2>1. path' \in Seq(Frames)
    BY SMTT(60) DEF Resting
  <2>2. pc' \in Pcs /\ new' \subseteq Frames
    BY DEF Resting, Pcs
  <2> QED BY <2>1, <2>2 DEF Typed
<1>2. OnPath'
  <2>1. pc' \notin {"map_walk", "unmap_walk", "reclaim", "flush"} /\ path' = <<>>
    BY DEF Resting
  <2> QED BY <2>1 DEF OnPath, Walking
<1>3. OnlyNew(H)'
  BY DEF OnlyNew, Resting
<1> QED BY <1>1, <1>2, <1>3 DEF Struct

\* A step that writes no table keeps the tree.
LEMMA SameShape ==
  ASSUME NEW H, Shaped(H), table' = table, free' = free
  PROVE  Shaped(H)' /\ Tables(H)' = Tables(H)
<1>1. Tables(H)' = Tables(H)
  BY DEF Tables
<1> QED BY <1>1 DEF Shaped

\* The page in hand depends on the call and the counter only.
LEMMA SameVirt ==
  ASSUME call' = call, i' = i
  PROVE  virt' = virt /\ phys' = phys /\ \A a : misaligned(a)' <=> misaligned(a)
  BY DEF virt, phys, misaligned, Stride

\* The pages that are mapped are given up.
LEMMA MapFailsDoes ==
  ASSUME Typed, NEW e \in Results, MapFails(e)
  PROVE  /\ call' \in CallSet /\ call'.op = "undo" /\ call'.pages = i /\ i' = 0 /\ pc' = "undo"
         /\ call'.virt = call.virt /\ call'.phys = call.phys /\ call'.size = call.size
         /\ call'.op \in OpsAt(pc') /\ i' \in 0..call'.pages /\ result' = e /\ Resting'
<1>1. call \in CallSet /\ i \in Nat
  BY CallTypes DEF Typed
<1>2. /\ call' = [call EXCEPT !.op = "undo", !.pages = i] /\ i' = 0 /\ pc' = "undo"
      /\ result' = e /\ path' = <<>> /\ new' = {}
  BY DEF MapFails
<1>3. /\ call' \in CallSet /\ call'.op = "undo" /\ call'.pages = i
      /\ call'.virt = call.virt /\ call'.phys = call.phys /\ call'.size = call.size
  BY <1>1, <1>2 DEF CallSet
<1>4. i' \in 0..call'.pages
  BY SMTT(60), <1>1, <1>2, <1>3
<1>5. call'.op \in OpsAt(pc')
  BY <1>2, <1>3, OpsAtPcs
<1>6. Resting'
  BY <1>2 DEF Resting
<1> QED BY <1>2, <1>3, <1>4, <1>5, <1>6

\* The loop goes on to a page of the range, or past its end.
LEMMA NextPageDoes ==
  ASSUME Typed, i < call.pages, NextPage, call' = call, pc \notin {"idle", "done"}
  PROVE  pc' = call.op /\ call'.op \in OpsAt(pc') /\ i' = i + 1 /\ i' \in 0..call'.pages /\ Resting'
<1>1. pc' = call.op /\ i' = i + 1 /\ path' = <<>> /\ new' = {}
  BY DEF NextPage
<1>2. call.op \in {"map", "unmap", "undo"}
  BY OpsAtPcs DEF Typed, Pcs
<1>3. call'.op \in OpsAt(pc')
  BY <1>1, <1>2, OpsAtPcs
<1>4. i' \in 0..call'.pages
  BY SMTT(60), <1>1, CallTypes
<1>5. Resting'
  BY <1>1, <1>2 DEF Resting
<1> QED BY <1>1, <1>3, <1>4, <1>5

\* Both ways to take an error of unmap.
LEMMA UnmapFailsDoes ==
  ASSUME Typed, i < call.pages, NEW e \in Results, UnmapFails(e), pc \in {"unmap", "undo", "unmap_walk"}, new = {}
  PROVE  /\ call' = call /\ call'.op \in OpsAt(pc') /\ i' \in 0..call'.pages /\ Resting' /\ result' \in Results
         /\ IF call.op = "undo" THEN NextPage /\ result' = result
                                ELSE call.op = "unmap" /\ pc' = "done" /\ i' = i /\ result' = e
<1>1. call.op \in {"unmap", "undo"} /\ result \in Results /\ i \in 0..call.pages
  BY OpsAtPcs DEF Typed, Pcs
<1>2. CASE call.op = "undo"
  <2>1. NextPage /\ call' = call /\ result' = result
    BY <1>2 DEF UnmapFails
  <2>2. pc \notin {"idle", "done"}
    OBVIOUS
  <2> QED BY <1>1, <1>2, <2>1, <2>2, NextPageDoes
<1>3. CASE call.op # "undo"
  <2>1. result' = e /\ pc' = "done" /\ path' = <<>> /\ call' = call /\ i' = i /\ new' = new
    BY <1>3 DEF UnmapFails
  <2>2. Resting' /\ call'.op \in OpsAt(pc') /\ call.op = "unmap"
    BY <1>1, <1>3, <2>1, OpsAtPcs DEF Resting
  <2> QED BY <1>1, <1>3, <2>1, <2>2
<1> QED BY <1>2, <1>3

\* map_range and unmap_range begin; Struct is kept.
LEMMA EnterStruct ==
  ASSUME NEW H, Struct(H), NEW c \in Calls, NEW op \in {"map", "unmap"}, Enter(op, c)
  PROVE  Struct(H)'
<1>1. /\ pc = "idle" /\ pc' = op /\ i' = 0 /\ result' = "Ok" /\ table' = table /\ free' = free /\ path' = path /\ new' = new
      /\ call' = [op |-> op, virt |-> c.virt, phys |-> c.phys, pages |-> c.pages, size |-> c.size]
  BY DEF Enter
<1>2. c.size \in 0..2 /\ c.pages \in Nat /\ c.virt \in Nat /\ c.phys \in Nat
  BY SMTT(60), VmmAssumption
<1>3. call' \in CallSet /\ call'.op = op /\ call'.pages = c.pages
  BY <1>1, <1>2 DEF CallSet
<1>4. i' \in 0..call'.pages /\ call'.op \in OpsAt(pc') /\ result' \in Results
  BY SMTT(60), <1>1, <1>2, <1>3, OpsAtPcs DEF Results
<1>5. Resting'
  <2>1. ~Walking /\ pc # "map_walk"
    BY <1>1 DEF Walking
  <2>2. path = <<>> /\ new = {}
    BY <2>1 DEF Struct, OnPath, OnlyNew
  <2> QED BY <1>1, <2>2 DEF Resting
<1>6. Shaped(H)' /\ table' \in [Frames -> [Indexes -> Entries]] /\ free' \subseteq Frames
  BY <1>1, SameShape DEF Struct, Typed
<1> QED BY <1>3, <1>4, <1>5, <1>6, Rests

\* A step between walks, or one that ends a walk and writes nothing.
LEMMA StillRests ==
  ASSUME NEW H, Struct(H), table' = table, free' = free, Resting', call' \in CallSet, call'.op \in OpsAt(pc'),
         i' \in 0..call'.pages, result' \in Results
  PROVE  Struct(H)'
<1>1. Shaped(H)' /\ table' \in [Frames -> [Indexes -> Entries]] /\ free' \subseteq Frames
  BY SameShape DEF Struct, Typed
<1> QED BY <1>1, Rests

\* Outside of a page, map_range and unmap_range are in no walk.
LEMMA NotWalking ==
  ASSUME NEW H, Struct(H), pc \in {"idle", "map", "unmap", "undo", "done"}
  PROVE  path = <<>> /\ new = {}
<1>1. ~Walking /\ pc # "map_walk"
  BY DEF Walking
<1> QED BY <1>1 DEF Struct, OnPath, OnlyNew

\* Their loops end; Struct is kept.
LEMMA RangeDoneStruct ==
  ASSUME NEW H, Struct(H), RangeDone
  PROVE  Struct(H)' /\ pc \in {"map", "unmap", "undo"}
<1>1. /\ pc = call.op /\ pc' = "done" /\ table' = table /\ free' = free /\ call' = call /\ i' = i /\ path' = path
      /\ new' = new /\ result' = result
  BY DEF RangeDone
<1>2. call \in CallSet /\ pc \in {"map", "unmap", "undo"} /\ i \in 0..call.pages /\ result \in Results
  BY <1>1, CallTypes DEF Struct, Typed, Pcs
<1>3. path = <<>> /\ new = {}
  BY <1>2, NotWalking
<1>4. Resting' /\ call'.op \in OpsAt(pc')
  BY <1>1, <1>2, <1>3, OpsAtPcs DEF Resting
<1> QED BY <1>1, <1>2, <1>4, StillRests

\* They return; Struct is kept.
LEMMA ReturnStruct ==
  ASSUME NEW H, Struct(H), Return
  PROVE  Struct(H)'
<1>1. /\ pc = "done" /\ pc' = "idle" /\ call' = NoCall /\ i' = 0 /\ result' = "Ok"
      /\ table' = table /\ free' = free /\ path' = path /\ new' = new
  BY DEF Return
<1>2. path = <<>> /\ new = {}
  BY <1>1, NotWalking
<1>3. call' \in CallSet /\ i' \in 0..call'.pages /\ call'.op = "none"
  BY SMTT(60), <1>1 DEF NoCall, CallSet
<1>4. Resting' /\ call'.op \in OpsAt(pc') /\ result' \in Results
  BY <1>1, <1>2, <1>3, OpsAtPcs DEF Resting, Results
<1> QED BY <1>1, <1>3, <1>4, StillRests

\* Struct is kept when nothing happens.
LEMMA UnchangedStruct ==
  ASSUME NEW H, Struct(H), UNCHANGED vars
  PROVE  Struct(H)'
<1>1. /\ table' = table /\ free' = free /\ pc' = pc /\ call' = call /\ i' = i /\ path' = path /\ new' = new
      /\ result' = result
  BY DEF vars
<1>2. Shaped(H)' /\ Tables(H)' = Tables(H)
  BY <1>1, SameShape DEF Struct
<1>3. Typed'
  BY <1>1 DEF Struct, Typed, OpsAt
<1>4. OnPath'
  BY <1>1 DEF Struct, OnPath, virt, phys, misaligned, Stride, Walking
<1>5. OnlyNew(H)'
  BY <1>1, <1>2 DEF Struct, OnlyNew
<1> QED BY <1>2, <1>3, <1>4, <1>5 DEF Struct

\* A walk begins at the root; Struct is kept.
LEMMA WalkBegins ==
  ASSUME NEW H, Struct(H), pc \in {"map", "unmap", "undo"}, i < call.pages,
         pc' = (IF pc = "map" THEN "map_walk" ELSE "unmap_walk"),
         path' = <<Root>>, UNCHANGED <<table, free, call, i, new, result>>,
         is_canonical(virt), ~misaligned(virt), pc = "map" => ~misaligned(phys)
  PROVE  Struct(H)'
<1>1. /\ table' = table /\ free' = free /\ call' = call /\ i' = i /\ new' = new /\ result' = result
  OBVIOUS
<1>2. new = {} /\ call.size \in 0..2
  BY NotWalking, CallTypes DEF Struct
<1>3. Shaped(H)' /\ Tables(H)' = Tables(H) /\ Root \in Frames
  <2>1. Shaped(H)
    BY DEF Struct
  <2>2. Root \in Tables(H)
    BY <2>1 DEF Shaped, Tree
  <2> QED BY <1>1, <2>1, <2>2, SameShape DEF Tables
<1>4. Typed'
  <2>1. pc' \in Pcs /\ path' \in Seq(Frames)
    BY SMTT(60), <1>3 DEF Pcs
  <2>2. call.op \in OpsAt(pc')
    BY OpsAtPcs DEF Struct, Typed
  <2> QED BY <1>1, <2>1, <2>2 DEF Struct, Typed
<1>5. OnPath'
  <2>1. virt' = virt /\ phys' = phys /\ (\A a : misaligned(a)' <=> misaligned(a))
    BY <1>1, SameVirt
  <2>2. pc' \in {"map_walk", "unmap_walk"} /\ (pc' = "map_walk" => pc = "map")
    OBVIOUS
  <2>3. Len(path') = 1 /\ path'[1] = Root /\ 1 \in 1..(4 - call.size) /\ 4 - 1 = 3
    BY SMTT(60), <1>2
  <2>4. Walk(table, virt, 3) = Root /\ Reached(table, virt, 3)
    BY WalkStep DEF Reached
  <2>5. \A k \in 1..Len(path') : path'[k] = Walk(table, virt, 4 - k) /\ Reached(table, virt, 4 - k)
    BY SMTT(60), <2>3, <2>4
  <2>6. misaligned(virt)' = misaligned(virt) /\ misaligned(phys)' = misaligned(phys)
    BY <1>1, <2>1 DEF misaligned, Stride
  <2>7. Walking'
    BY <2>2 DEF Walking
  <2> QED BY <1>1, <2>1, <2>2, <2>3, <2>5, <2>6, <2>7 DEF OnPath
<1>6. OnlyNew(H)'
  BY <1>1, <1>2 DEF OnlyNew
<1> QED BY <1>3, <1>4, <1>5, <1>6 DEF Struct

\* map checks its arguments; Struct is kept.
LEMMA MapStartStruct ==
  ASSUME NEW H, Struct(H), MapStart
  PROVE  Struct(H)'
<1>1. pc = "map" /\ i < call.pages /\ table' = table /\ free' = free
  BY DEF MapStart
<1>2. ASSUME NEW e \in Results, MapFails(e) PROVE Struct(H)'
  <2>1. Typed
    BY DEF Struct
  <2> QED BY <1>1, <1>2, <2>1, MapFailsDoes, StillRests
<1>3. CASE ~is_canonical(virt) \/ misaligned(virt) \/ misaligned(phys)
  <2>1. "NonCanonical" \in Results /\ "Misaligned" \in Results
    BY DEF Results
  <2> QED BY <1>2, <1>3, <2>1 DEF MapStart
<1>4. CASE is_canonical(virt) /\ ~misaligned(virt) /\ ~misaligned(phys)
  <2>1. pc' = "map_walk" /\ path' = <<Root>> /\ UNCHANGED <<call, i, new, result>>
    BY <1>4 DEF MapStart
  <2> QED BY <1>1, <1>4, <2>1, WalkBegins
<1> QED BY <1>3, <1>4

\* unmap checks its arguments; Struct is kept.
LEMMA UnmapStartStruct ==
  ASSUME NEW H, Struct(H), UnmapStart
  PROVE  Struct(H)'
<1>1. pc \in {"unmap", "undo"} /\ i < call.pages /\ table' = table /\ free' = free
  BY DEF UnmapStart
<1>2. ASSUME NEW e \in Results, UnmapFails(e) PROVE Struct(H)'
  <2>1. Typed /\ new = {} /\ pc \in {"unmap", "undo", "unmap_walk"} /\ call \in CallSet
    BY <1>1, NotWalking DEF Struct, Typed
  <2> QED BY <1>1, <1>2, <2>1, UnmapFailsDoes, StillRests
<1>3. CASE ~is_canonical(virt) \/ misaligned(virt)
  <2>1. "NonCanonical" \in Results /\ "Misaligned" \in Results
    BY DEF Results
  <2> QED BY <1>2, <1>3, <2>1 DEF UnmapStart
<1>4. CASE is_canonical(virt) /\ ~misaligned(virt)
  <2>1. pc' = "unmap_walk" /\ path' = <<Root>> /\ UNCHANGED <<call, i, new, result>>
    BY <1>4 DEF UnmapStart
  <2> QED BY <1>1, <1>4, <2>1, WalkBegins
<1> QED BY <1>3, <1>4

\* The walk in hand, after a step that keeps those tables.
LEMMA PathKept ==
  ASSUME OnPath, Walking, Walking', call' = call, i' = i, pc' = "map_walk" => pc = "map_walk",
         Len(path') \in 1..(4 - call.size),
         \A k \in 1..Len(path') : path'[k] = Walk(table', virt, 4 - k) /\ Reached(table', virt, 4 - k)
  PROVE  OnPath'
<1>1. virt' = virt /\ phys' = phys
  BY SameVirt
<1>2. misaligned(virt)' = misaligned(virt) /\ misaligned(phys)' = misaligned(phys)
  BY <1>1 DEF misaligned, Stride
<1>3. is_canonical(virt) /\ ~misaligned(virt) /\ i < call.pages /\ (pc = "map_walk" => ~misaligned(phys))
  BY DEF OnPath
<1> QED BY <1>1, <1>2, <1>3 DEF OnPath

\* The walk in hand, after a step to a table further down.
LEMMA PathGrows ==
  ASSUME NEW H, Struct(H), Walking, Level > call.size, NEW f \in Frames, path' = Append(path, f),
         call' = call, i' = i, pc' = pc,
         \A l \in 0..3 : Reached(table, virt, l) => Walk(table', virt, l) = Walk(table, virt, l) /\ Reached(table', virt, l),
         Walk(table', virt, Level - 1) = f, f # Root
  PROVE  OnPath' /\ path' \in Seq(Frames)
<1>1. PICK lv : Tree(table, Tables(H), lv)
  BY DEF Struct, Shaped
<1>2. path \in Seq(Frames) /\ call.size \in 0..2 /\ Walking'
  BY CallTypes DEF Struct, Typed, Walking
<1>3. Len(path) \in 1..4 /\ Level \in 0..3 /\ Len(path) = 4 - Level
  BY <1>1, InHand
<1>4. \A k \in 1..Len(path) : path[k] = Walk(table, virt, 4 - k) /\ Reached(table, virt, 4 - k)
  BY DEF Struct, OnPath
<1>5. /\ path' \in Seq(Frames) /\ Len(path') = Len(path) + 1 /\ path'[Len(path) + 1] = f
      /\ \A k \in 1..Len(path) : path'[k] = path[k]
  BY SMTT(60), <1>2
<1>6. Len(path') \in 1..(4 - call.size)
  BY SMTT(60), <1>2, <1>3, <1>5
<1>7. ASSUME NEW k \in 1..Len(path') PROVE path'[k] = Walk(table', virt, 4 - k) /\ Reached(table', virt, 4 - k)
  <2>1. CASE k \in 1..Len(path)
    <3>1. 4 - k \in 0..3
      BY SMTT(60), <1>3, <2>1
    <3> QED BY <1>4, <1>5, <2>1, <3>1
  <2>2. CASE k = Len(path) + 1
    <3>1. 4 - k = Level - 1
      BY SMTT(60), <1>3, <2>2
    <3> QED BY <1>5, <2>2, <3>1 DEF Reached
  <2>3. k \in 1..Len(path) \/ k = Len(path) + 1
    BY SMTT(60), <1>3, <1>5
  <2> QED BY <2>1, <2>2, <2>3
<1>8. OnPath'
  BY <1>2, <1>6, <1>7, PathKept DEF Struct
<1> QED BY <1>5, <1>8

\* The table that an entry on the walk points to is the next one of the walk.
LEMMA WalkDown ==
  ASSUME NEW T, NEW S, NEW lv, Tree(T, S, lv), NEW v \in Nat, NEW l \in 1..3, Reached(T, v, l),
         NEW e, e = T[Walk(T, v, l)][index(v, l)], e.kind = "table"
  PROVE  e = TableAt(Walk(T, v, l - 1)) /\ Walk(T, v, l - 1) # Root
<1> DEFINE m == l - 1
<1>1. m \in 0..2 /\ m + 1 = l
  BY SMTT(60)
<1> HIDE DEF m
<1>2. /\ Reached(T, v, m) <=> Reached(T, v, m + 1) /\ T[Walk(T, v, m + 1)][index(v, m + 1)].kind = "table"
      /\ Reached(T, v, m) => T[Walk(T, v, m + 1)][index(v, m + 1)] = TableAt(Walk(T, v, m)) /\ Walk(T, v, m) # Root
  BY SMTT(60), <1>1, WalkNext
<1>3. Reached(T, v, m)
  BY <1>1, <1>2
<1>4. e = TableAt(Walk(T, v, m)) /\ Walk(T, v, m) # Root
  BY <1>1, <1>2, <1>3
<1> QED BY <1>4 DEF m

\* map or unmap goes down to a table that is there; Struct is kept.
LEMMA DescendStruct ==
  ASSUME NEW H, Struct(H), MapDescend \/ UnmapDescend
  PROVE  Struct(H)'
<1>1. /\ pc \in {"map_walk", "unmap_walk"} /\ Level > call.size /\ Slot.kind = "table" /\ path' = Append(path, Slot.at)
      /\ table' = table /\ free' = free /\ pc' = pc /\ call' = call /\ i' = i /\ new' = new /\ result' = result
  BY DEF MapDescend, UnmapDescend
<1>2. Walking /\ virt \in Nat /\ call.size \in 0..2
  BY <1>1, VirtNat, CallTypes DEF Walking, Struct
<1>3. PICK lv : Tree(table, Tables(H), lv)
  BY DEF Struct, Shaped
<1>4. Level \in 0..3 /\ Lowest = Walk(table, virt, Level) /\ Reached(table, virt, Level)
  BY <1>2, <1>3, InHand
<1>5. Level - 1 \in 0..2 /\ Level \in 1..3
  BY SMTT(60), <1>1, <1>2, <1>4
<1>6. Slot = table[Walk(table, virt, Level)][index(virt, Level)]
  BY <1>4 DEF Slot
<1>7. Slot = TableAt(Walk(table, virt, Level - 1)) /\ Walk(table, virt, Level - 1) # Root
  BY <1>1, <1>2, <1>3, <1>4, <1>5, <1>6, WalkDown
<1>8. Slot.at = Walk(table, virt, Level - 1)
  BY <1>7, EntryTypes
<1>9. Slot.at \in Frames
  <2>1. Level - 1 \in 0..3
    BY SMTT(60), <1>5
  <2>2. Walk(table, virt, Level - 1) \in Tables(H)
    BY <1>2, <1>3, <2>1, WalkIn
  <2> QED BY <1>8, <2>2 DEF Tables
<1>10. OnPath' /\ path' \in Seq(Frames)
  <2> DEFINE g == Slot.at
  <2>1. g \in Frames /\ path' = Append(path, g) /\ Walk(table', virt, Level - 1) = g /\ g # Root
    BY <1>1, <1>7, <1>8, <1>9
  <2> HIDE DEF g
  <2>2. \A l \in 0..3 : Reached(table, virt, l) => Walk(table', virt, l) = Walk(table, virt, l) /\ Reached(table', virt, l)
    BY <1>1
  <2> QED BY <1>1, <1>2, <2>1, <2>2, PathGrows
<1>11. Typed'
  BY <1>1, <1>10 DEF Struct, Typed
<1>12. Shaped(H)' /\ Tables(H)' = Tables(H)
  BY <1>1, SameShape DEF Struct
<1>13. OnlyNew(H)'
  BY <1>1, <1>12 DEF Struct, OnlyNew
<1> QED BY <1>10, <1>11, <1>12, <1>13 DEF Struct

\* map finds its page taken; Struct is kept.
LEMMA MapBlockedStruct ==
  ASSUME NEW H, Struct(H), MapBlocked
  PROVE  Struct(H)'
<1>1. MapFails("AlreadyMapped") /\ table' = table /\ free' = free /\ Typed
  BY DEF MapBlocked, Struct
<1>2. "AlreadyMapped" \in Results
  BY DEF Results
<1> QED BY <1>1, <1>2, MapFailsDoes, StillRests

\* unmap finds no page; Struct is kept.
LEMMA UnmapMissStruct ==
  ASSUME NEW H, Struct(H), UnmapMiss
  PROVE  Struct(H)'
<1>1. pc = "unmap_walk" /\ UnmapFails("NotMapped") /\ table' = table /\ free' = free /\ Typed
  BY DEF UnmapMiss, Struct
<1>2. "NotMapped" \in Results /\ Walking /\ pc \in {"unmap", "undo", "unmap_walk"} /\ pc # "map_walk"
  BY <1>1 DEF Results, Walking
<1>3. i < call.pages /\ new = {} /\ call \in CallSet
  BY <1>2 DEF Struct, OnPath, OnlyNew, Typed
<1> QED BY <1>1, <1>2, <1>3, UnmapFailsDoes, StillRests

\* Without D, every walk that does not meet D is the same.
LEMMA PrunedReached ==
  ASSUME NEW T, NEW U, NEW S, NEW D, NEW lv, Tree(T, S \cup D, lv), Pruned(T, U, S, D), NEW v \in Nat, NEW l \in 0..3
  PROVE  /\ Reached(U, v, l) => Walk(T, v, l) = Walk(U, v, l) /\ Reached(T, v, l)
         /\ Reached(T, v, l) /\ Walk(T, v, l) \notin D => Walk(U, v, l) = Walk(T, v, l) /\ Reached(U, v, l)
<1>1. \A k \in 0..3 : Walk(U, v, k) = IF Walk(T, v, k) \in D THEN Root ELSE Walk(T, v, k)
  BY SMTT(60), PrunedWalk
<1>2. Walk(U, v, l) = IF Walk(T, v, l) \in D THEN Root ELSE Walk(T, v, l)
  BY <1>1
<1>3. Walk(U, v, 3) = Root /\ Walk(T, v, 3) = Root
  BY WalkStep
<1> QED BY <1>2, <1>3 DEF Reached

\* map makes a table; Struct is kept.
LEMMA MapNewTableStruct ==
  ASSUME NEW H, Struct(H), MapNewTable
  PROVE  Struct(H)'
<1>1. /\ pc = "map_walk" /\ Level > call.size /\ Slot.kind = "none"
      /\ pc' = pc /\ call' = call /\ i' = i /\ result' = result
  BY DEF MapNewTable
<1>2. table' \in [Frames -> [Indexes -> Entries]]
  BY MapNewTableDoes
<1>3. PICK f \in free : /\ Makes(H, f) /\ free' = free \ {f} /\ path' = Append(path, f) /\ new' = new \cup {f}
                        /\ \A g \in Frames \ (Tables(H) \cup {f}) : table'[g] = table[g]
  BY MapNewTableDoes
<1> DEFINE S == Tables(H)
           p == Lowest
           x == index(virt, Level)
<1>4. Walking /\ virt \in Nat /\ call.size \in 0..2
  BY <1>1, VirtNat, CallTypes DEF Walking, Struct
<1>5. PICK lv : Tree(table, S, lv)
  BY DEF Struct, Shaped
<1>6. Level \in 0..3 /\ p = Walk(table, virt, Level) /\ Reached(table, virt, Level) /\ p \in S
  BY <1>4, <1>5, InHand
<1>7. PICK lw : Tree(table', S \cup {f}, lw)
  BY <1>3 DEF Makes
<1>8. /\ f \in Frames \ S /\ f \notin H /\ Tables(H)' = S \cup {f}
      /\ table'[p][x] = TableAt(f) /\ Pruned(table', table, S, {f})
      /\ \A y \in Indexes : table'[f][y] = Nothing
      /\ \A g \in S, y \in Indexes : table'[g][y] = table[g][y] \/ (g = p /\ y = x)
  BY <1>3 DEF Makes
<1>9. \A l \in 0..3 : Reached(table, virt, l) => Walk(table', virt, l) = Walk(table, virt, l) /\ Reached(table', virt, l)
  BY <1>4, <1>7, <1>8, PrunedReached
<1>10. Walk(table', virt, Level - 1) = f /\ f # Root
  <2>1. Level \in 1..3
    BY SMTT(60), <1>1, <1>4, <1>6
  <2>2. Walk(table', virt, Level) = p /\ Reached(table', virt, Level)
    BY <1>6, <1>9
  <2>3. table'[Walk(table', virt, Level)][index(virt, Level)] = TableAt(f)
    BY <1>8, <2>2
  <2>4. TableAt(f).kind = "table" /\ TableAt(f).at = f
    BY EntryTypes
  <2>5. TableAt(f) = TableAt(Walk(table', virt, Level - 1)) /\ Walk(table', virt, Level - 1) # Root
    BY <1>4, <1>7, <2>1, <2>2, <2>3, <2>4, WalkDown
  <2>6. TableAt(Walk(table', virt, Level - 1)).at = Walk(table', virt, Level - 1)
    BY EntryTypes
  <2> QED BY <2>4, <2>5, <2>6
<1>11. OnPath' /\ path' \in Seq(Frames)
  <2>1. f \in Frames
    BY <1>8
  <2> HIDE DEF S, p, x
  <2> QED BY <1>1, <1>3, <1>4, <1>9, <1>10, <2>1, PathGrows
<1>12. new' \subseteq Frames /\ free' \subseteq Frames
  BY <1>3, <1>8 DEF Struct, Typed
<1>13. Typed'
  BY <1>1, <1>2, <1>11, <1>12 DEF Struct, Typed
<1>14. Shaped(H)'
  <2>1. H \subseteq Frames \ free' /\ \A g \in Frames \ (S \cup {f}) : table[g] = Junk
    BY <1>3 DEF Struct, Shaped
  <2>2. \A g \in Frames \ (S \cup {f}) : table'[g] = Junk
    BY <1>3, <2>1
  <2> QED BY <1>7, <1>8, <2>1, <2>2 DEF Shaped
<1>15. OnlyNew(H)'
  <2>1. new \subseteq S \ {Root}
    BY DEF Struct, OnlyNew
  <2>2. new' \subseteq Tables(H)' \ {Root}
    BY <1>3, <1>8, <1>10, <2>1
  <2>3. ASSUME NEW g \in new', NEW y \in Indexes
        PROVE  table'[g][y].kind = "none" \/ (table'[g][y].kind = "table" /\ table'[g][y].at \in new')
    <3>1. CASE g = f
      BY <1>8, <3>1, EntryTypes
    <3>2. CASE g = p /\ y = x
      BY <1>3, <1>8, <3>2, EntryTypes
    <3>3. CASE g \in new /\ ~(g = p /\ y = x)
      <4>1. table'[g][y] = table[g][y]
        BY <1>8, <2>1, <3>3
      <4>2. table[g][y].kind = "none" \/ (table[g][y].kind = "table" /\ table[g][y].at \in new)
        BY <3>3 DEF Struct, OnlyNew
      <4> QED BY <1>3, <4>1, <4>2
    <3> QED BY <1>3, <2>3, <3>1, <3>2, <3>3
  <2>4. pc' = "map_walk"
    BY <1>1
  <2> QED BY <2>2, <2>3, <2>4 DEF OnlyNew
<1> QED BY <1>11, <1>13, <1>14, <1>15 DEF Struct

\* The tree without the dropped tables.
LEMMA DropsShape ==
  ASSUME NEW H, Struct(H), NEW D, Drops(H, D), H \subseteq Frames \ free'
  PROVE  Shaped(H)'
<1> DEFINE S == Tables(H)
<1>1. PICK lv : Tree(table, S, lv)
  BY DEF Struct, Shaped
<1>2. D \subseteq S /\ S \subseteq Frames /\ Tables(H)' = S \ D
  BY DEF Drops, Tables
<1>3. S = (S \ D) \cup D
  BY <1>2
<1>4. Tree(table', S \ D, lv)
  <2>1. Tree(table, (S \ D) \cup D, lv) /\ Pruned(table, table', S \ D, D)
    BY <1>1, <1>3 DEF Drops
  <2> QED BY <2>1, PrunedTree
<1>5. ASSUME NEW f \in Frames \ (S \ D) PROVE table'[f] = Junk
  <2>1. CASE f \in D
    BY <2>1 DEF Drops
  <2>2. CASE f \notin S
    BY <2>2 DEF Drops, Struct, Shaped
  <2> QED BY <2>1, <2>2
<1> QED BY <1>2, <1>4, <1>5 DEF Shaped

\* map frees the tables it made; Struct is kept.
LEMMA MapOutOfMemoryStruct ==
  ASSUME NEW H, Struct(H), MapOutOfMemory
  PROVE  Struct(H)'
<1>1. MapFails("OutOfMemory") /\ Typed
  BY DEF MapOutOfMemory, Struct
<1>2. table' \in [Frames -> [Indexes -> Entries]] /\ Drops(H, new) /\ free' = new
  BY MapOutOfMemoryDoes
<1>3. free' \subseteq Frames /\ H \subseteq Frames \ free'
  BY <1>2 DEF Drops, Struct, Typed, Shaped, Tables
<1>4. Shaped(H)'
  BY <1>2, <1>3, DropsShape
<1>5. "OutOfMemory" \in Results
  BY DEF Results
<1> QED BY <1>1, <1>2, <1>3, <1>4, <1>5, MapFailsDoes, Rests

\* The tree with one entry written.
LEMMA WritesShape ==
  ASSUME NEW H, Struct(H), NEW e, Writes(H, e), free' = free
  PROVE  Shaped(H)'
<1> DEFINE S == Tables(H)
           p == Lowest
           x == index(virt, call.size)
<1>1. PICK lv : Tree(table, S, lv)
  BY DEF Struct, Shaped
<1>2. /\ p \in S /\ Written(table, table', S, p, x, e) /\ Tables(H)' = S /\ p # Root /\ p = Walk(table, virt, call.size)
      /\ \A f \in Frames \ S : table'[f] = table[f]
  BY DEF Writes
<1>3. call.size \in 0..2 /\ call.size \in 0..3 /\ call.size < 3 /\ virt \in Nat
  BY SMTT(60), CallTypes, VirtNat DEF Struct
<1>4. x \in Indexes /\ lv[p] = call.size
  <2>1. x \in Indexes
    BY <1>3, BlockStep
  <2>2. Reached(table, virt, call.size)
    BY <1>2 DEF Reached
  <2>3. lv[Walk(table, virt, call.size)] = call.size
    BY <1>1, <1>3, <2>2, WalkIn
  <2> QED BY <1>2, <2>1, <2>3
<1>5. Tree(table', S, lv)
  <2>1. lv[p] < 3
    BY <1>3, <1>4
  <2> HIDE DEF S, p, x
  <2> QED BY <1>1, <1>2, <1>4, <2>1, WrittenTree
<1>6. \A f \in Frames \ S : table'[f] = Junk
  BY <1>2 DEF Struct, Shaped
<1>7. H \subseteq Frames \ free'
  BY DEF Struct, Shaped
<1> QED BY <1>2, <1>5, <1>6, <1>7 DEF Shaped

\* What the last step of map does.
LEMMA MapLeafDoes ==
  ASSUME NEW H, Struct(H), MapLeaf
  PROVE  /\ table' \in [Frames -> [Indexes -> Entries]] /\ Writes(H, PageAt(phys)) /\ Slot.kind = "none"
         /\ pc = "map_walk" /\ Walking /\ NextPage /\ free' = free /\ call' = call /\ result' = result /\ before' = before
<1>1. /\ pc = "map_walk" /\ Level = call.size /\ Slot.kind = "none" /\ table' = Write(Lowest, Level, PageAt(phys))
      /\ NextPage /\ free' = free /\ call' = call /\ result' = result /\ before' = before
  BY DEF MapLeaf
<1>2. Walking /\ phys \in Nat /\ Slot.kind # "table"
  BY <1>1, VirtNat DEF Walking, Struct
<1>3. \E a \in Nat : PageAt(phys) = PageAt(a)
  BY <1>2
<1> QED BY <1>1, <1>2, <1>3, LeafDoes

\* What unmap does before it reclaims.
LEMMA UnmapLeafDoes ==
  ASSUME NEW H, Struct(H), UnmapLeaf
  PROVE  /\ table' \in [Frames -> [Indexes -> Entries]] /\ Writes(H, Nothing) /\ Slot.kind = "page"
         /\ pc = "unmap_walk" /\ pc' = "reclaim" /\ Walking /\ free' = free /\ call' = call /\ i' = i
         /\ path' = path /\ new' = new /\ result' = result /\ before' = before
<1>1. /\ pc = "unmap_walk" /\ Level = call.size /\ Slot.kind = "page" /\ table' = Write(Lowest, Level, Nothing)
      /\ pc' = "reclaim" /\ free' = free /\ call' = call /\ i' = i
      /\ path' = path /\ new' = new /\ result' = result /\ before' = before
  BY DEF UnmapLeaf
<1>2. Walking /\ Slot.kind # "table"
  BY <1>1 DEF Walking
<1> QED BY <1>1, <1>2, LeafDoes

\* map writes its page; Struct is kept.
LEMMA MapLeafStruct ==
  ASSUME NEW H, Struct(H), MapLeaf
  PROVE  Struct(H)'
<1>1. /\ table' \in [Frames -> [Indexes -> Entries]] /\ Writes(H, PageAt(phys)) /\ pc = "map_walk" /\ Walking
      /\ NextPage /\ free' = free /\ call' = call /\ result' = result
  BY MapLeafDoes
<1>2. Shaped(H)'
  BY <1>1, WritesShape
<1>3. Typed /\ i < call.pages /\ free \subseteq Frames /\ result \in Results /\ call \in CallSet
  BY <1>1 DEF Struct, OnPath, Typed
<1>4. pc \notin {"idle", "done"}
  BY <1>1
<1> QED BY <1>1, <1>2, <1>3, <1>4, NextPageDoes, Rests

\* unmap clears its page; Struct is kept.
LEMMA UnmapLeafStruct ==
  ASSUME NEW H, Struct(H), UnmapLeaf
  PROVE  Struct(H)'
<1>1. /\ table' \in [Frames -> [Indexes -> Entries]] /\ Writes(H, Nothing) /\ pc = "unmap_walk" /\ Walking
      /\ pc' = "reclaim" /\ free' = free /\ call' = call /\ i' = i /\ path' = path /\ new' = new /\ result' = result
  BY UnmapLeafDoes
<1>2. Shaped(H)'
  BY <1>1, WritesShape
<1>3. Typed'
  <2>1. call.op \in OpsAt(pc') /\ pc' \in Pcs
    BY <1>1, OpsAtPcs DEF Struct, Typed, Pcs
  <2> QED BY <1>1, <2>1 DEF Struct, Typed
<1>4. OnPath'
  <2> DEFINE S == Tables(H)
             p == Lowest
             x == index(virt, call.size)
  <2>1. PICK lv : Tree(table, S, lv)
    BY DEF Struct, Shaped
  <2>2. p \in S /\ Written(table, table', S, p, x, Nothing)
    BY <1>1 DEF Writes
  <2>3. call.size \in 0..3 /\ virt \in Nat
    BY SMTT(60), CallTypes, VirtNat DEF Struct
  <2>4. x \in Indexes
    BY <2>3, BlockStep
  <2>5. \A l \in 0..3 : Walk(table', virt, l) = Walk(table, virt, l)
    <3> HIDE DEF S, p, x
    <3> QED BY SMTT(60), <2>1, <2>2, <2>3, <2>4, WrittenWalk
  <2>6. Walking' /\ pc' # "map_walk"
    BY <1>1 DEF Walking
  <2>7. /\ Len(path) \in 1..(4 - call.size)
        /\ \A k \in 1..Len(path) : path[k] = Walk(table, virt, 4 - k) /\ Reached(table, virt, 4 - k)
    BY <1>1 DEF Struct, OnPath
  <2>8. Len(path) \in 1..4
    BY <1>1, <2>1, InHand
  <2>9. \A k \in 1..Len(path) : 4 - k \in 0..3
    <3> DEFINE n == Len(path)
    <3> HIDE DEF n
    <3>1. n \in 1..4
      BY <2>8 DEF n
    <3>2. \A k \in 1..n : 4 - k \in 0..3
      BY SMTT(60), <3>1
    <3> QED BY <3>2 DEF n
  <2>10. \A k \in 1..Len(path) : path[k] = Walk(table', virt, 4 - k) /\ Reached(table', virt, 4 - k)
    BY <2>5, <2>7, <2>9 DEF Reached
  <2> QED BY <1>1, <2>6, <2>7, <2>10, PathKept DEF Struct
<1>5. OnlyNew(H)'
  <2>1. new = {}
    BY <1>1 DEF Struct, OnlyNew
  <2> QED BY <1>1, <2>1 DEF OnlyNew
<1> QED BY <1>2, <1>3, <1>4, <1>5 DEF Struct

\* unmap looks at a table of its walk, and may free it; Struct is kept.
LEMMA ReclaimStruct ==
  ASSUME NEW H, Struct(H), Reclaim
  PROVE  Struct(H)'
<1>1. /\ pc = "reclaim" /\ Len(path) > 1 /\ path' = SubSeq(path, 1, Len(path) - 1)
      /\ call' = call /\ i' = i /\ new' = new /\ result' = result
  BY DEF Reclaim
<1>2. PICK lv : Tree(table, Tables(H), lv)
  BY DEF Struct, Shaped
<1>3. Walking /\ virt \in Nat /\ path \in Seq(Frames) /\ call.size \in 0..2 /\ new = {} /\ Typed
  BY <1>1, VirtNat, CallTypes DEF Walking, Struct, Typed, OnlyNew
<1>4. /\ Len(path) \in 1..4 /\ Level \in 0..3 /\ Len(path) = 4 - Level /\ lv[Lowest] = Level
  BY <1>2, <1>3, InHand
<1>5. /\ Len(path) \in 1..(4 - call.size)
      /\ \A k \in 1..Len(path) : path[k] = Walk(table, virt, 4 - k) /\ Reached(table, virt, 4 - k)
  BY <1>3 DEF Struct, OnPath
<1>6. /\ path' \in Seq(Frames) /\ Len(path') = Len(path) - 1 /\ Len(path') \in 1..(4 - call.size)
      /\ \A k \in 1..Len(path') : path'[k] = path[k] /\ k \in 1..Len(path) /\ 4 - k \in 0..3 /\ 4 - k # Level
  <2> DEFINE n == Len(path)
             l == Level
             s == call.size
  <2>1. n \in 1..4 /\ n > 1 /\ l \in 0..3 /\ n = 4 - l /\ n \in 1..(4 - s) /\ s \in 0..2 /\ n = Len(path)
    BY <1>1, <1>3, <1>4, <1>5
  <2> HIDE DEF n, l, s
  <2>2. path' \in Seq(Frames) /\ Len(path') = n - 1 /\ \A k \in 1..(n - 1) : path'[k] = path[k]
    BY SMTT(60), <1>1, <1>3, <2>1
  <2>3. n - 1 \in 1..(4 - s) /\ \A k \in 1..(n - 1) : k \in 1..n /\ 4 - k \in 0..3 /\ 4 - k # l
    BY SMTT(60), <2>1
  <2> QED BY <2>2, <2>3 DEF n, l, s
<1>7. ASSUME table' \in [Frames -> [Indexes -> Entries]], free' \subseteq Frames, Shaped(H)', pc' \in {"reclaim", "flush"},
             \A k \in 1..Len(path') : Walk(table', virt, 4 - k) = Walk(table, virt, 4 - k)
      PROVE  Struct(H)'
  <2>1. Typed'
    <3>1. call.op \in OpsAt(pc') /\ pc' \in Pcs
      BY <1>1, <1>3, <1>7, OpsAtPcs DEF Typed, Pcs
    <3> QED BY <1>1, <1>3, <1>6, <1>7, <3>1 DEF Typed
  <2>2. OnPath'
    <3>1. Walking' /\ pc' # "map_walk"
      BY <1>7 DEF Walking
    <3>2. \A k \in 1..Len(path') : path'[k] = Walk(table', virt, 4 - k) /\ Reached(table', virt, 4 - k)
      BY <1>5, <1>6, <1>7 DEF Reached
    <3> QED BY <1>1, <1>3, <1>6, <3>1, <3>2, PathKept DEF Struct
  <2>3. OnlyNew(H)'
    BY <1>1, <1>3 DEF OnlyNew
  <2> QED BY <1>7, <2>1, <2>2, <2>3 DEF Struct
<1>8. CASE is_empty(Lowest)
  <2>1. /\ table' \in [Frames -> [Indexes -> Entries]] /\ Drops(H, {Lowest})
        /\ free' = free \cup {Lowest} /\ pc' = "flush"
    BY <1>8, ReclaimDoes
  <2>2. Lowest \in Tables(H)
    BY <2>1 DEF Drops
  <2>3. free' \subseteq Frames /\ H \subseteq Frames \ free'
    BY <1>3, <2>1, <2>2 DEF Typed, Struct, Shaped, Tables
  <2>4. Shaped(H)'
    BY <2>1, <2>3, DropsShape
  <2>5. ASSUME NEW k \in 1..Len(path') PROVE Walk(table', virt, 4 - k) = Walk(table, virt, 4 - k)
    <3> DEFINE l == 4 - k
               S == Tables(H) \ {Lowest}
               D == {Lowest}
    <3>1. l \in 0..3 /\ l # Level /\ Reached(table, virt, l)
      BY <1>5, <1>6
    <3>2. lv[Walk(table, virt, l)] = l
      BY <1>2, <1>3, <3>1, WalkIn
    <3>3. Walk(table, virt, l) \notin D
      BY <1>4, <3>1, <3>2
    <3>4. Tables(H) = S \cup D /\ Pruned(table, table', S, D)
      BY <2>1, <2>2 DEF Drops
    <3>5. Tree(table, S \cup D, lv)
      BY <1>2, <3>4
    <3> HIDE DEF l, S, D
    <3>6. Walk(table', virt, l) = Walk(table, virt, l)
      BY <1>3, <3>1, <3>3, <3>4, <3>5, PrunedReached
    <3> QED BY <3>6 DEF l
  <2>6. pc' \in {"reclaim", "flush"}
    BY <2>1
  <2> QED BY <1>7, <2>1, <2>3, <2>4, <2>5, <2>6
<1>9. CASE ~is_empty(Lowest)
  <2>1. table' = table /\ free' = free /\ pc' = pc
    BY <1>9 DEF Reclaim
  <2>2. pc' \in {"reclaim", "flush"} /\ free' \subseteq Frames /\ table' \in [Frames -> [Indexes -> Entries]]
    BY <1>1, <1>3, <2>1 DEF Typed
  <2>3. Shaped(H)'
    BY <2>1, SameShape DEF Struct
  <2> QED BY <1>7, <2>1, <2>2, <2>3
<1> QED BY <1>8, <1>9

\* unmap flushes the TLB; Struct is kept.
LEMMA FlushAllStruct ==
  ASSUME NEW H, Struct(H), FlushAll
  PROVE  Struct(H)'
<1>1. /\ pc = "flush" /\ pc' = "reclaim" /\ table' = table /\ free' = free /\ call' = call /\ i' = i
      /\ path' = path /\ new' = new /\ result' = result
  BY DEF FlushAll
<1>2. Shaped(H)' /\ Tables(H)' = Tables(H)
  BY <1>1, SameShape DEF Struct
<1>3. Typed'
  <2>1. call.op \in OpsAt(pc') /\ pc' \in Pcs
    BY <1>1, OpsAtPcs DEF Struct, Typed, Pcs
  <2> QED BY <1>1, <2>1 DEF Struct, Typed
<1>4. OnPath'
  <2>1. Walking /\ Walking' /\ pc' # "map_walk"
    BY <1>1 DEF Walking
  <2>2. /\ Len(path) \in 1..(4 - call.size)
        /\ \A k \in 1..Len(path) : path[k] = Walk(table, virt, 4 - k) /\ Reached(table, virt, 4 - k)
    BY <2>1 DEF Struct, OnPath
  <2> QED BY <1>1, <2>1, <2>2, PathKept DEF Struct
<1>5. OnlyNew(H)'
  <2>1. new = {}
    BY <1>1 DEF Struct, OnlyNew
  <2> QED BY <1>1, <2>1 DEF OnlyNew
<1> QED BY <1>2, <1>3, <1>4, <1>5 DEF Struct

\* unmap is back at the root; Struct is kept.
LEMMA UnmapDoneStruct ==
  ASSUME NEW H, Struct(H), UnmapDone
  PROVE  Struct(H)'
<1>1. /\ pc = "reclaim" /\ NextPage /\ table' = table /\ free' = free /\ call' = call /\ result' = result
  BY DEF UnmapDone
<1>2. pc \notin {"idle", "done"} /\ Walking
  BY <1>1 DEF Walking
<1>3. Typed /\ i < call.pages /\ result \in Results /\ call \in CallSet
  BY <1>2 DEF Struct, OnPath, Typed
<1> QED BY <1>1, <1>2, <1>3, NextPageDoes, StillRests

\* Every step of the lock holder, and every call, keeps Struct.
LEMMA StepStruct ==
  ASSUME NEW H, Struct(H), [Next]_vars
  PROVE  Struct(H)'
<1>1. ASSUME NEW c \in Calls, MapRange(c) \/ UnmapRange(c) PROVE Struct(H)'
  <2>1. "map" \in {"map", "unmap"} /\ "unmap" \in {"map", "unmap"}
    OBVIOUS
  <2> QED BY <1>1, <2>1, EnterStruct DEF MapRange, UnmapRange
<1>2. CASE Step
  BY <1>2, RangeDoneStruct, ReturnStruct, MapStartStruct, DescendStruct, MapBlockedStruct,
     MapNewTableStruct, MapOutOfMemoryStruct, MapLeafStruct, UnmapStartStruct, UnmapMissStruct,
     UnmapLeafStruct, ReclaimStruct, FlushAllStruct, UnmapDoneStruct DEF Step
<1>3. CASE UNCHANGED vars
  BY <1>3, UnchangedStruct
<1> QED BY <1>1, <1>2, <1>3 DEF Next

-----------------------------------------------------------------------------
(* Empty tables. *)

\* Every table but the root has an entry.
AllUsed(H) == \A f \in Tables(H) \ {Root} : ~is_empty(f)

\* Outside of a walk no table is empty.
LEMMA UsedRests ==
  ASSUME NEW H, Used(H), pc \notin {"map_walk", "reclaim", "flush"}
  PROVE  AllUsed(H)
  BY DEF Used, AllUsed

\* The other way round: with all tables used, Used holds.
LEMMA RestsUsed ==
  ASSUME NEW H, AllUsed(H)', pc' # "map_walk"
  PROVE  Used(H)'
  BY DEF Used, AllUsed

\* A step that leaves the tables alone leaves them used.
LEMMA SameUsed ==
  ASSUME NEW H, AllUsed(H), table' = table, Tables(H)' = Tables(H)
  PROVE  AllUsed(H)'
  BY DEF AllUsed, is_empty

\* Steps that leave the tables alone and neither begin nor are part of a walk
\* that maps.
LEMMA QuietUsed ==
  ASSUME NEW H, AllUsed(H), table' = table, free' = free, pc' # "map_walk"
  PROVE  Used(H)'
<1>1. Tables(H)' = Tables(H)
  BY DEF Tables
<1> QED BY <1>1, SameUsed, RestsUsed

\* With an entry in the table in hand, no table is empty.
LEMMA SlotUsed ==
  ASSUME NEW H, Struct(H), Used(H), Walking, Present(Slot)
  PROVE  AllUsed(H)
<1>1. PICK lv : Tree(table, Tables(H), lv)
  BY DEF Struct, Shaped
<1>2. index(virt, Level) \in Indexes
  BY <1>1, InHand
<1>3. ~is_empty(Lowest)
  BY <1>2 DEF is_empty, Slot
<1> QED BY <1>3 DEF Used, AllUsed

\* Used is kept: map starts with no new tables.
LEMMA MapStartUsed ==
  ASSUME NEW H, Struct(H), Used(H), MapStart
  PROVE  Used(H)'
<1>1. pc = "map" /\ table' = table /\ free' = free
  BY DEF MapStart
<1>2. AllUsed(H) /\ new = {}
  BY <1>1, UsedRests, NotWalking
<1>3. ASSUME NEW e, MapFails(e) PROVE Used(H)'
  <2>1. pc' = "undo"
    BY <1>3 DEF MapFails
  <2>2. pc' # "map_walk"
    BY <2>1
  <2> QED BY <1>1, <1>2, <2>2, QuietUsed
<1>4. CASE pc' = "map_walk" /\ new' = new
  <2>1. Tables(H)' = Tables(H)
    BY <1>1 DEF Tables
  <2>2. AllUsed(H)'
    BY <1>1, <1>2, <2>1, SameUsed
  <2>3. \A f \in Tables(H)' \ {Root} : \E x \in Indexes : Present(table'[f][x])
    BY <2>2 DEF AllUsed, is_empty
  <2> QED BY <1>2, <1>4, <2>2, <2>3 DEF Used, AllUsed
<1> QED BY <1>3, <1>4 DEF MapStart

\* Used is kept: map passes no empty table.
LEMMA MapDescendUsed ==
  ASSUME NEW H, Struct(H), Used(H), MapDescend
  PROVE  Used(H)'
<1>1. pc = "map_walk" /\ pc' = pc /\ Slot.kind = "table" /\ table' = table /\ free' = free /\ new' = new
  BY DEF MapDescend
<1>2. Walking /\ Present(Slot) /\ Tables(H)' = Tables(H)
  BY <1>1 DEF Walking, Present, Tables
<1>3. AllUsed(H)'
  BY <1>1, <1>2, SlotUsed, SameUsed
<1> QED BY <1>1, <1>2, <1>3 DEF Used, AllUsed

\* Used is kept: when map finds its page taken, it made no table.
LEMMA MapBlockedUsed ==
  ASSUME NEW H, Struct(H), Used(H), MapBlocked
  PROVE  Used(H)'
<1>1. pc = "map_walk" /\ Slot.kind \in {"page", "table"} /\ table' = table /\ free' = free
  BY DEF MapBlocked
<1>2. Walking /\ Present(Slot) /\ pc' # "map_walk"
  BY <1>1 DEF Walking, Present, MapBlocked, MapFails
<1> QED BY <1>1, <1>2, SlotUsed, QuietUsed

\* Used is kept: the one empty table is the one just made.
LEMMA MapNewTableUsed ==
  ASSUME NEW H, Struct(H), Used(H), MapNewTable
  PROVE  Used(H)'
<1> DEFINE S == Tables(H)
           p == Lowest
           x == index(virt, Level)
<1>1. pc = "map_walk" /\ pc' = "map_walk"
  BY DEF MapNewTable
<1>2. PICK f \in free : Makes(H, f) /\ path' = Append(path, f) /\ new' = new \cup {f}
  BY MapNewTableDoes
<1>3. /\ f \in Frames \ S /\ Tables(H)' = S \cup {f} /\ table[p][x] = Nothing /\ table'[p][x] = TableAt(f)
      /\ \A g \in S, y \in Indexes : table'[g][y] = table[g][y] \/ (g = p /\ y = x)
  BY <1>2 DEF Makes
<1>4. PICK lv : Tree(table, S, lv)
  BY DEF Struct, Shaped
<1>5. Walking /\ path \in Seq(Frames)
  BY <1>1 DEF Walking, Struct, Typed
<1>6. x \in Indexes /\ p \in S
  BY <1>4, <1>5, InHand
<1>7. Lowest' = f
  BY SMTT(60), <1>2, <1>3, <1>5 DEF Lowest
<1>8. Present(TableAt(f)) /\ ~Present(Nothing)
  BY DEF Present, TableAt, Nothing
<1>9. ASSUME NEW g \in S \ {Root} PROVE ~is_empty(g)'
  <2>1. CASE g = p
    BY <1>3, <1>6, <1>8, <2>1 DEF is_empty
  <2>2. CASE g # p
    <3>1. ~is_empty(g)
      BY <2>2 DEF Used
    <3>2. \A y \in Indexes : table'[g][y] = table[g][y]
      BY <1>3, <2>2
    <3> QED BY <3>1, <3>2 DEF is_empty
  <2> QED BY <2>1, <2>2
<1>10. ASSUME NEW g \in S \ (new \cup {Root})
       PROVE  \E y \in Indexes : Present(table'[g][y]) /\ ~(table'[g][y].kind = "table" /\ table'[g][y].at \in new')
  <2>1. PICK y \in Indexes : Present(table[g][y]) /\ ~(table[g][y].kind = "table" /\ table[g][y].at \in new)
    BY <1>1 DEF Used
  <2>2. table'[g][y] = table[g][y]
    BY <1>3, <1>8, <2>1
  <2>3. table[g][y].kind = "table" => table[g][y].at \in S
    BY <1>4, EntryKinds
  <2> QED BY <1>2, <1>3, <2>1, <2>2, <2>3
<1>11. /\ \A g \in Tables(H)' \ {Root} : g \in S \ {Root} \/ g = f
       /\ \A g \in Tables(H)' \ (new' \cup {Root}) : g \in S \ (new \cup {Root})
  BY <1>2, <1>3
<1>12. f \in new'
  BY <1>2
<1> QED BY <1>1, <1>7, <1>9, <1>10, <1>11, <1>12 DEF Used

\* Used is kept: a table that pointed to a freed one has other entries.
LEMMA MapOutOfMemoryUsed ==
  ASSUME NEW H, Struct(H), Used(H), MapOutOfMemory
  PROVE  Used(H)'
<1>1. pc = "map_walk" /\ MapFails("OutOfMemory")
  BY DEF MapOutOfMemory
<1>2. pc' # "map_walk"
  BY <1>1 DEF MapFails
<1>3. Tables(H)' = Tables(H) \ new /\ Pruned(table, table', Tables(H) \ new, new)
  BY MapOutOfMemoryDoes DEF Drops
<1>4. ASSUME NEW f \in Tables(H)' \ {Root} PROVE ~is_empty(f)'
  <2>1. f \in Tables(H) \ (new \cup {Root}) /\ f \in Tables(H) \ new
    BY <1>3
  <2>2. PICK x \in Indexes : Present(table[f][x]) /\ ~(table[f][x].kind = "table" /\ table[f][x].at \in new)
    BY <1>1, <2>1 DEF Used
  <2>3. table'[f][x] = IF table[f][x].kind = "table" /\ table[f][x].at \in new THEN Nothing ELSE table[f][x]
    <3> DEFINE S == Tables(H) \ new
    <3>1. Pruned(table, table', S, new) /\ f \in S
      BY <1>3, <2>1
    <3> HIDE DEF S
    <3> QED BY SMTT(60), <3>1, PrunedEntry
  <2>4. table'[f][x] = table[f][x]
    BY <2>2, <2>3
  <2> QED BY <2>2, <2>4 DEF is_empty
<1> QED BY <1>2, <1>4, RestsUsed DEF AllUsed

\* Writing an entry concerns the table in hand alone.
LEMMA WritesUsed ==
  ASSUME NEW H, Struct(H), Used(H), NEW e, Writes(H, e), pc \in {"map_walk", "unmap_walk"},
         NEW f \in Tables(H)' \ {Root}, f # Lowest
  PROVE  ~is_empty(f)'
<1>1. f \in Tables(H) \ {Root} /\ \A y \in Indexes : table'[f][y] = table[f][y]
  BY DEF Writes, Written
<1>2. ~is_empty(f)
  BY <1>1 DEF Used
<1> QED BY <1>1, <1>2 DEF is_empty

\* Used is kept: the last table has the page now.
LEMMA MapLeafUsed ==
  ASSUME NEW H, Struct(H), Used(H), MapLeaf
  PROVE  Used(H)'
<1>1. Writes(H, PageAt(phys)) /\ pc = "map_walk" /\ Walking /\ NextPage
  BY MapLeafDoes
<1>2. call.op = "map"
  BY <1>1, OpsAtPcs DEF Struct, Typed
<1>3. pc' # "map_walk" /\ pc \in {"map_walk", "unmap_walk"}
  BY <1>1, <1>2 DEF NextPage
<1>4. table'[Lowest][index(virt, call.size)] = PageAt(phys) /\ Level = call.size
  BY <1>1 DEF Writes, Written
<1>5. PICK lv : Tree(table, Tables(H), lv)
  BY DEF Struct, Shaped
<1>6. index(virt, call.size) \in Indexes
  BY <1>1, <1>4, <1>5, InHand
<1>7. Present(PageAt(phys))
  BY DEF Present, PageAt
<1>8. ASSUME NEW f \in Tables(H)' \ {Root} PROVE ~is_empty(f)'
  <2>1. CASE f = Lowest
    BY <1>4, <1>6, <1>7, <2>1 DEF is_empty
  <2>2. CASE f # Lowest
    BY <1>1, <1>3, <2>2, WritesUsed
  <2> QED BY <2>1, <2>2
<1> QED BY <1>3, <1>8, RestsUsed DEF AllUsed

\* Used is kept: only the table that lost its page can be empty.
LEMMA UnmapLeafUsed ==
  ASSUME NEW H, Struct(H), Used(H), UnmapLeaf
  PROVE  Used(H)'
<1>1. Writes(H, Nothing) /\ pc = "unmap_walk" /\ pc' = "reclaim" /\ path' = path
  BY UnmapLeafDoes
<1>2. pc \in {"map_walk", "unmap_walk"} /\ pc' \in {"map_walk", "reclaim", "flush"} /\ pc' # "map_walk"
  BY <1>1
<1>3. Lowest' = Lowest
  BY <1>1 DEF Lowest
<1> QED BY <1>1, <1>2, <1>3, WritesUsed DEF Used

\* Used is kept: after a table is freed, only the one above can be empty.
LEMMA ReclaimUsed ==
  ASSUME NEW H, Struct(H), Used(H), Reclaim
  PROVE  Used(H)'
<1>1. pc = "reclaim" /\ Len(path) > 1 /\ path' = SubSeq(path, 1, Len(path) - 1)
  BY DEF Reclaim
<1>2. pc # "map_walk"
  BY <1>1
<1>3. CASE is_empty(Lowest)
  <2> DEFINE p == path[Len(path) - 1]
  <2>1. Drops(H, {Lowest}) /\ pc' = "flush"
    BY <1>3, ReclaimDoes
  <2>2. Tables(H)' = Tables(H) \ {Lowest} /\ Tables(H) \subseteq Frames
    BY <2>1 DEF Drops, Tables
  <2>3. pc' \in {"map_walk", "reclaim", "flush"} /\ pc' # "map_walk"
    BY <2>1
  <2>4. Lowest' = p
    BY SMTT(60), <1>1 DEF Lowest, Struct, Typed
  <2>5. table' = [Write(p, Level + 1, Nothing) EXCEPT ![Lowest] = Junk]
    BY <1>3 DEF Reclaim
  <2>6. \A f \in Frames : f # Lowest /\ f # p => table'[f] = table[f]
    <3> DEFINE W == Write(p, Level + 1, Nothing)
               q == Lowest
    <3>1. W \in [Frames -> [Indexes -> Entries]] \/ DOMAIN W = Frames
      BY DEF Write, Struct, Typed
    <3>2. \A f \in Frames : f # p => W[f] = table[f]
      <4> HIDE DEF p
      <4> QED BY DEF Write, Struct, Typed
    <3>3. DOMAIN W = Frames
      BY DEF Write, Struct, Typed
    <3> HIDE DEF W, p, q
    <3>4. table' = [W EXCEPT ![q] = Junk]
      BY <2>5 DEF W, q
    <3>5. \A f \in Frames : f # q /\ f # p => table'[f] = table[f]
      BY <3>2, <3>3, <3>4
    <3> QED BY <3>5 DEF q
  <2>7. ASSUME NEW f \in Tables(H)' \ {Root}, f # p PROVE ~is_empty(f)'
    <3>1. f \in Tables(H) \ {Root} /\ f # Lowest /\ f \in Frames
      BY <2>2
    <3>2. ~is_empty(f) /\ table'[f] = table[f]
      BY <2>6, <2>7, <3>1 DEF Used
    <3> QED BY <3>2 DEF is_empty
  <2> HIDE DEF p
  <2> QED BY <2>3, <2>4, <2>7 DEF Used
<1>4. CASE ~is_empty(Lowest)
  <2>1. table' = table /\ free' = free /\ pc' = pc
    BY <1>4 DEF Reclaim
  <2>2. AllUsed(H)
    BY <1>4 DEF Used, AllUsed
  <2> QED BY <1>2, <2>1, <2>2, QuietUsed
<1> QED BY <1>3, <1>4

\* Used is kept: at the root every table of the walk was looked at.
LEMMA UnmapDoneUsed ==
  ASSUME NEW H, Struct(H), Used(H), UnmapDone
  PROVE  Used(H)'
<1>1. pc = "reclaim" /\ Len(path) = 1 /\ NextPage /\ table' = table /\ free' = free
  BY DEF UnmapDone
<1>2. pc # "map_walk" /\ Walking
  BY <1>1 DEF Walking
<1>3. call.op \in {"unmap", "undo"}
  BY <1>1, OpsAtPcs DEF Struct, Typed
<1>4. pc' # "map_walk"
  BY <1>1, <1>3 DEF NextPage
<1>5. PICK lv : Tree(table, Tables(H), lv)
  BY DEF Struct, Shaped
<1>6. Level = 3
  BY SMTT(60), <1>1 DEF Level, TOP
<1>7. Lowest = Walk(table, virt, 3)
  BY <1>2, <1>5, <1>6, InHand
<1>8. Lowest = Root
  BY <1>7, WalkStep
<1>9. AllUsed(H)
  BY <1>8 DEF Used, AllUsed
<1> QED BY <1>1, <1>4, <1>9, QuietUsed

\* Every step keeps Used.
LEMMA StepUsed ==
  ASSUME NEW H, Struct(H), Used(H), [Next]_vars
  PROVE  Used(H)'
<1>1. ASSUME pc \notin {"map_walk", "reclaim", "flush"}, table' = table, free' = free, pc' # "map_walk" PROVE Used(H)'
  BY <1>1, UsedRests, QuietUsed
<1>2. ASSUME NEW c \in Calls, MapRange(c) \/ UnmapRange(c) PROVE Used(H)'
  <2>1. pc = "idle" /\ pc' \in {"map", "unmap"} /\ table' = table /\ free' = free
    BY <1>2 DEF MapRange, UnmapRange, Enter
  <2>2. pc \notin {"map_walk", "reclaim", "flush"} /\ pc' # "map_walk"
    BY <2>1
  <2> QED BY <1>1, <2>1, <2>2
<1>3. CASE RangeDone
  <2>1. pc \in {"map", "unmap", "undo"} /\ pc' = "done" /\ table' = table /\ free' = free
    BY <1>3, RangeDoneStruct DEF RangeDone
  <2>2. pc \notin {"map_walk", "reclaim", "flush"} /\ pc' # "map_walk"
    BY <2>1
  <2> QED BY <1>1, <2>1, <2>2
<1>4. CASE Return
  <2>1. pc = "done" /\ pc' = "idle" /\ table' = table /\ free' = free
    BY <1>4 DEF Return
  <2>2. pc \notin {"map_walk", "reclaim", "flush"} /\ pc' # "map_walk"
    BY <2>1
  <2> QED BY <1>1, <2>1, <2>2
<1>5. ASSUME pc \in {"unmap", "undo", "unmap_walk"}, NEW e, UnmapFails(e), table' = table, free' = free PROVE Used(H)'
  <2>1. call.op \in {"unmap", "undo"}
    BY <1>5, OpsAtPcs DEF Struct, Typed, Pcs
  <2>2. pc \notin {"map_walk", "reclaim", "flush"} /\ pc' # "map_walk"
    BY <1>5, <2>1 DEF UnmapFails, NextPage
  <2> QED BY <1>1, <1>5, <2>2
<1>6. CASE UnmapStart
  <2>1. pc \in {"unmap", "undo"} /\ table' = table /\ free' = free
    BY <1>6 DEF UnmapStart
  <2>2. CASE pc' = "unmap_walk"
    <3>1. pc \notin {"map_walk", "reclaim", "flush"} /\ pc' # "map_walk"
      BY <2>1, <2>2
    <3> QED BY <1>1, <2>1, <3>1
  <2>3. pc \in {"unmap", "undo", "unmap_walk"}
    BY <2>1
  <2> QED BY <1>5, <1>6, <2>1, <2>2, <2>3 DEF UnmapStart
<1>7. CASE UnmapDescend
  <2>1. pc = "unmap_walk" /\ pc' = "unmap_walk" /\ table' = table /\ free' = free
    BY <1>7 DEF UnmapDescend
  <2>2. pc \notin {"map_walk", "reclaim", "flush"} /\ pc' # "map_walk"
    BY <2>1
  <2> QED BY <1>1, <2>1, <2>2
<1>8. CASE UnmapMiss
  <2>1. pc = "unmap_walk" /\ UnmapFails("NotMapped") /\ table' = table /\ free' = free
    BY <1>8 DEF UnmapMiss
  <2>2. pc \in {"unmap", "undo", "unmap_walk"}
    BY <2>1
  <2> QED BY <1>5, <2>1, <2>2
<1>9. CASE FlushAll
  <2>1. pc = "flush" /\ pc' = "reclaim" /\ table' = table /\ free' = free /\ path' = path
    BY <1>9 DEF FlushAll
  <2>2. pc # "map_walk" /\ pc' # "map_walk" /\ pc' \in {"map_walk", "reclaim", "flush"} /\ Tables(H)' = Tables(H)
    BY <2>1 DEF Tables
  <2>3. Lowest' = Lowest /\ \A f : is_empty(f)' <=> is_empty(f)
    BY <2>1 DEF Lowest, is_empty
  <2> QED BY <2>2, <2>3 DEF Used
<1>10. CASE UNCHANGED vars
  <2>1. table' = table /\ free' = free /\ path' = path /\ pc' = pc /\ new' = new
    BY <1>10 DEF vars
  <2>2. Tables(H)' = Tables(H) /\ Lowest' = Lowest /\ \A f : is_empty(f)' <=> is_empty(f)
    BY <2>1 DEF Tables, Lowest, is_empty
  <2> QED BY <2>1, <2>2 DEF Used
<1> QED BY <1>2, <1>3, <1>4, <1>6, <1>7, <1>8, <1>9, <1>10, MapStartUsed, MapDescendUsed, MapBlockedUsed,
        MapNewTableUsed, MapOutOfMemoryUsed, MapLeafUsed, UnmapLeafUsed, ReclaimUsed, UnmapDoneUsed DEF Next, Step

-----------------------------------------------------------------------------
(* The pages of a range. *)

\* The addresses of the k-th page.
PageOf(k) == VirtAt(k)..(VirtAt(k) + Stride(call.size) - 1)

\* Products of natural numbers.
LEMMA Products ==
  ASSUME NEW n \in Nat \ {0}, NEW a \in Nat, NEW b \in Nat
  PROVE  /\ a * n \in Nat /\ (a + 1) * n = a * n + n /\ 0 * n = 0
         /\ a < b => (a + 1) * n <= b * n
         /\ a <= b => a * n <= b * n
<1>1. a * n \in Nat /\ (a + 1) * n = a * n + n /\ 0 * n = 0
  BY SMTT(60)
<1>2. ASSUME a <= b PROVE a * n <= b * n
  <2> DEFINE d == b - a
  <2>1. d \in Nat /\ b = a + d
    BY SMTT(60), <1>2
  <2> HIDE DEF d
  <2>2. b * n = a * n + d * n /\ d * n \in Nat
    BY SMTT(60), <2>1
  <2> QED BY SMTT(60), <1>1, <2>2
<1>3. ASSUME a < b PROVE (a + 1) * n <= b * n
  <2> DEFINE d == b - (a + 1)
  <2>1. d \in Nat /\ b = (a + 1) + d
    BY SMTT(60), <1>3
  <2> HIDE DEF d
  <2>2. b * n = (a + 1) * n + d * n /\ d * n \in Nat /\ (a + 1) * n \in Nat
    BY SMTT(60), <2>1
  <2> QED BY SMTT(60), <2>2
<1> QED BY <1>1, <1>2, <1>3

\* The arguments of a call; page sizes are positive.
LEMMA StrideNat ==
  ASSUME call \in CallSet
  PROVE  Stride(call.size) \in Nat \ {0} /\ call.virt \in Nat /\ call.phys \in Nat /\ call.pages \in Nat /\ call.size \in 0..2
<1>1. call.virt \in Nat /\ call.phys \in Nat /\ call.pages \in Nat /\ call.size \in 0..2 /\ call.size \in 0..4
  BY SMTT(60) DEF CallSet
<1>2. ENTRIES^call.size \in Nat \ {0}
  BY <1>1, Powers
<1> QED BY <1>1, <1>2 DEF Stride

\* The pages of a range follow each other and do not overlap.
LEMMA Spans ==
  ASSUME call \in CallSet, NEW a \in Nat
  PROVE  /\ VirtAt(a) \in Nat
         /\ \A b \in Nat : VirtAt(b) \in PageOf(a) <=> b = a
         /\ \A v : v \notin Span(a, a)
         /\ \A v : v \in Span(0, a + 1) <=> v \in Span(0, a) \/ v \in PageOf(a)
         /\ \A v \in PageOf(a) : v \notin Span(0, a)
         /\ \A b \in Nat : a < b => /\ \A v : v \in Span(a, b) <=> v \in Span(a + 1, b) \/ v \in PageOf(a)
                                    /\ \A v \in PageOf(a) : v \notin Span(a + 1, b)
                                    /\ \A v \in Span(a, b) : v \in Span(0, b)
<1> DEFINE n == Stride(call.size)
           c == call.virt
<1>1. n \in Nat \ {0} /\ c \in Nat
  BY StrideNat
<1>2. \A k : VirtAt(k) = c + k * n /\ PageOf(k) = VirtAt(k)..(VirtAt(k) + n - 1)
  BY DEF VirtAt, PageOf
<1>3. \A k, m : Span(k, m) = VirtAt(k)..(VirtAt(m) - 1)
  BY DEF Span
<1> HIDE DEF n, c
<1>4. ASSUME NEW k \in Nat PROVE VirtAt(k) \in Nat /\ VirtAt(k + 1) = VirtAt(k) + n /\ VirtAt(0) = c /\ c <= VirtAt(k)
  <2>1. k * n \in Nat /\ (k + 1) * n = k * n + n /\ 0 * n = 0
    BY <1>1, Products
  <2> QED BY SMTT(60), <1>1, <1>2, <2>1
<1>5. ASSUME NEW k \in Nat, NEW m \in Nat, k < m PROVE VirtAt(k + 1) <= VirtAt(m)
  <2>1. (k + 1) * n <= m * n /\ (k + 1) * n \in Int /\ m * n \in Int
    BY SMTT(60), <1>1, <1>5, Products
  <2> QED BY SMTT(60), <1>1, <1>2, <2>1
<1>6. ASSUME NEW b \in Nat PROVE VirtAt(b) \in PageOf(a) <=> b = a
  <2>4. PageOf(a) = VirtAt(a)..(VirtAt(a) + n - 1) /\ VirtAt(a) \in Nat
    BY <1>2, <1>4
  <2>1. CASE b = a
    BY SMTT(60), <1>1, <2>1, <2>4
  <2>2. CASE b < a
    <3>1. VirtAt(b + 1) <= VirtAt(a) /\ VirtAt(b + 1) = VirtAt(b) + n /\ VirtAt(b) \in Nat /\ VirtAt(a) \in Nat
      BY <1>4, <1>5, <2>2
    <3> QED BY SMTT(60), <1>1, <2>2, <2>4, <3>1
  <2>3. CASE a < b
    <3>1. VirtAt(a + 1) <= VirtAt(b) /\ VirtAt(a + 1) = VirtAt(a) + n /\ VirtAt(b) \in Nat /\ VirtAt(a) \in Nat
      BY <1>4, <1>5, <2>3
    <3> QED BY SMTT(60), <1>1, <2>3, <2>4, <3>1
  <2> QED BY SMTT(60), <2>1, <2>2, <2>3
<1>7. VirtAt(a) \in Nat /\ VirtAt(a + 1) = VirtAt(a) + n /\ VirtAt(0) = c /\ c <= VirtAt(a)
  BY <1>4
<1>8. \A v : v \notin Span(a, a)
  BY SMTT(60), <1>3, <1>7
<1>9. /\ \A v : v \in Span(0, a + 1) <=> v \in Span(0, a) \/ v \in PageOf(a)
      /\ \A v \in PageOf(a) : v \notin Span(0, a)
  <2>1. Span(0, a + 1) = VirtAt(0)..(VirtAt(a + 1) - 1) /\ Span(0, a) = VirtAt(0)..(VirtAt(a) - 1)
    BY <1>3
  <2>2. PageOf(a) = VirtAt(a)..(VirtAt(a) + n - 1)
    BY <1>2
  <2> QED BY SMTT(60), <1>1, <1>7, <2>1, <2>2
<1>10. ASSUME NEW b \in Nat, a < b
       PROVE  /\ \A v : v \in Span(a, b) <=> v \in Span(a + 1, b) \/ v \in PageOf(a)
              /\ \A v \in PageOf(a) : v \notin Span(a + 1, b)
              /\ \A v \in Span(a, b) : v \in Span(0, b)
  <2>1. VirtAt(a) + n <= VirtAt(b) /\ VirtAt(b) \in Nat
    <3>1. VirtAt(a + 1) <= VirtAt(b) /\ VirtAt(b) \in Nat
      BY <1>4, <1>5, <1>10
    <3> QED BY <1>7, <3>1
  <2>2. /\ Span(a, b) = VirtAt(a)..(VirtAt(b) - 1) /\ Span(a + 1, b) = (VirtAt(a) + n)..(VirtAt(b) - 1)
        /\ PageOf(a) = VirtAt(a)..(VirtAt(a) + n - 1) /\ Span(0, b) = c..(VirtAt(b) - 1)
    BY <1>2, <1>3, <1>7
  <2>3. c <= VirtAt(a) /\ VirtAt(a) \in Nat /\ n \in Nat \ {0} /\ c \in Nat
    BY SMTT(60), <1>1, <1>7
  <2>4. \A v : v \in Span(a, b) <=> v \in Span(a + 1, b) \/ v \in PageOf(a)
    BY SMTT(60), <2>1, <2>2, <2>3
  <2>5. \A v \in PageOf(a) : v \notin Span(a + 1, b)
    BY SMTT(60), <2>1, <2>2, <2>3
  <2>6. \A v \in Span(a, b) : v \in Span(0, b)
    BY SMTT(60), <2>1, <2>2, <2>3
  <2> QED BY <2>4, <2>5, <2>6
<1> QED BY <1>6, <1>7, <1>8, <1>9, <1>10

\* A page is a block of addresses.
LEMMA PageBlock ==
  ASSUME call \in CallSet, NEW k \in Nat, ~misaligned(VirtAt(k)), NEW v \in Nat
  PROVE  /\ Block(v, call.size) = Block(VirtAt(k), call.size) <=> v \in PageOf(k)
         /\ v \in PageOf(k) => v % ENTRIES^call.size = v - VirtAt(k)
<1>1. call.size \in 0..3 /\ VirtAt(k) \in Nat
  BY SMTT(60), StrideNat, Spans
<1>2. VirtAt(k) % ENTRIES^call.size = 0 /\ PageOf(k) = VirtAt(k)..(VirtAt(k) + ENTRIES^call.size - 1)
  BY DEF misaligned, PageOf, Stride
<1>3. /\ Block(v, call.size) = Block(VirtAt(k), call.size) <=> v \in VirtAt(k)..(VirtAt(k) + ENTRIES^call.size - 1)
      /\ Block(v, call.size) = Block(VirtAt(k), call.size) => v % ENTRIES^call.size = v - VirtAt(k)
  BY <1>1, <1>2, InPage
<1> QED BY <1>2, <1>3

\* All of a page is canonical, or none of it.
LEMMA CanonicalPage ==
  ASSUME NEW v \in Nat, NEW w \in Nat, NEW s \in 0..2, Block(v, s) = Block(w, s), is_canonical(w)
  PROVE  is_canonical(v)
<1>1. ASSUME NEW l \in 0..3, Block(v, l) = Block(w, l) PROVE Block(v, l + 1) = Block(w, l + 1)
  BY <1>1, SameBlock
<1>2. Block(v, 3) = Block(w, 3)
  <2>1. CASE s = 0
    BY SMTT(60), <1>1, <2>1
  <2>2. CASE s = 1
    BY SMTT(60), <1>1, <2>2
  <2>3. CASE s = 2
    BY SMTT(60), <1>1, <2>3
  <2> QED BY SMTT(60), <2>1, <2>2, <2>3
<1> QED BY <1>2, CanonicalBlock

\* The page in hand is the i-th.
LEMMA VirtIsAt == virt = VirtAt(i)
  BY DEF virt, VirtAt

\* What is known of the page while its tables are walked.
LEMMA AtPage ==
  ASSUME NEW H, Struct(H), Walking
  PROVE  /\ call \in CallSet /\ i \in Nat /\ call.size \in 0..2 /\ virt \in Nat /\ i < call.pages
         /\ is_canonical(virt) /\ ~misaligned(virt) /\ (pc = "map_walk" => ~misaligned(phys))
<1>1. call \in CallSet /\ i \in 0..call.pages
  BY DEF Struct, Typed
<1>2. call.pages \in Nat /\ call.size \in 0..2
  BY <1>1, StrideNat
<1>3. i \in Nat
  BY SMTT(60), <1>1, <1>2
<1> QED BY <1>1, <1>2, <1>3, VirtNat DEF Struct, OnPath

\* The leaves around an address after the entry of the page is written.
LEMMA LeavesAfter ==
  ASSUME NEW H, Struct(H), Walking, NEW e, Writes(H, e), NEW v \in Canonical, NEW l \in 0..2
  PROVE  IF l = call.size /\ v \in PageOf(i)
         THEN (Leaf(table', v, l) <=> e.kind = "page") /\ LeafAt(table', v, l) = e.at
         ELSE (Leaf(table', v, l) <=> Leaf(table, v, l)) /\ LeafAt(table', v, l) = LeafAt(table, v, l)
<1>1. PICK lv : Tree(table, Tables(H), lv)
  BY DEF Struct, Shaped
<1>2. /\ call \in CallSet /\ i \in Nat /\ call.size \in 0..2 /\ virt \in Nat /\ is_canonical(virt) /\ ~misaligned(VirtAt(i))
      /\ v \in Nat /\ is_canonical(v)
  BY AtPage, VirtIsAt, CanonicalNat
<1>3. Block(v, call.size) = Block(virt, call.size) <=> v \in PageOf(i)
  BY <1>2, PageBlock, VirtIsAt
<1>4. /\ Walk(table, virt, call.size) # Root
      /\ Written(table, table', Tables(H), Walk(table, virt, call.size), index(virt, call.size), e)
  BY DEF Writes
<1>5. IF l = call.size /\ Block(v, call.size) = Block(virt, call.size)
      THEN (Leaf(table', v, l) <=> e.kind = "page") /\ LeafAt(table', v, l) = e.at
      ELSE (Leaf(table', v, l) <=> Leaf(table, v, l)) /\ LeafAt(table', v, l) = LeafAt(table, v, l)
  <2> DEFINE w == virt
             s == call.size
             S == Tables(H)
  <2>1. /\ Tree(table, S, lv) /\ w \in Nat /\ is_canonical(w) /\ s \in 0..2 /\ Walk(table, w, s) # Root
        /\ Written(table, table', S, Walk(table, w, s), index(w, s), e) /\ v \in Nat /\ is_canonical(v)
    BY <1>1, <1>2, <1>4
  <2> HIDE DEF w, s, S
  <2>2. IF l = s /\ Block(v, s) = Block(w, s)
        THEN (Leaf(table', v, l) <=> e.kind = "page") /\ LeafAt(table', v, l) = e.at
        ELSE (Leaf(table', v, l) <=> Leaf(table, v, l)) /\ LeafAt(table', v, l) = LeafAt(table, v, l)
    <3>1. CASE l = s /\ Block(v, s) = Block(w, s)
      BY SMTT(60), <2>1, <3>1, WrittenLeaves
    <3>2. CASE ~(l = s /\ Block(v, s) = Block(w, s))
      BY SMTT(60), <2>1, <3>2, WrittenLeaves
    <3> QED BY <3>1, <3>2
  <2> QED BY <2>2 DEF w, s
<1> QED BY <1>3, <1>5

\* Writing the page in hand leaves the pages of other addresses alone.
LEMMA OutsidePage ==
  ASSUME NEW H, Struct(H), Walking, NEW e, Writes(H, e), NEW v \in Canonical, v \notin PageOf(i)
  PROVE  SameLeaves(table, table', v)
<1>1. \A l \in 0..2 : (Leaf(table', v, l) <=> Leaf(table, v, l)) /\ LeafAt(table', v, l) = LeafAt(table, v, l)
  BY LeavesAfter
<1> QED BY <1>1 DEF SameLeaves

\* Outside of the page the translation stays.
LEMMA OutsideTranslation ==
  ASSUME NEW H, Struct(H), Struct(H)', Walking, NEW e, Writes(H, e), NEW v \in Canonical, v \notin PageOf(i)
  PROVE  translate(table', v) = translate(table, v)
<1>1. PICK lv : Tree(table, Tables(H), lv)
  BY DEF Struct, Shaped
<1>2. PICK lw : Tree(table', Tables(H)', lw)
  BY DEF Struct, Shaped
<1>3. SameLeaves(table, table', v)
  BY OutsidePage
<1> QED BY <1>1, <1>2, <1>3, SameTranslation

\* The pages of the range, but the one in hand.
LEMMA OtherLeaves ==
  ASSUME NEW H, Struct(H), Walking, NEW e, Writes(H, e), NEW k \in Nat, k # i, is_canonical(VirtAt(k))
  PROVE  Leaf(table', VirtAt(k), call.size) <=> Leaf(table, VirtAt(k), call.size)
<1>1. call \in CallSet /\ i \in Nat /\ call.size \in 0..2
  BY AtPage
<1>2. VirtAt(k) \notin PageOf(i) /\ VirtAt(k) \in Nat
  BY <1>1, Spans
<1>3. VirtAt(k) \in Canonical
  BY <1>2, CanonicalNat
<1> QED BY <1>1, <1>2, <1>3, LeavesAfter

\* The page is mapped, and it was not.
LEMMA MapLeafTranslates ==
  ASSUME NEW H, Struct(H), Struct(H)', MapLeaf
  PROVE  /\ \A v \in Canonical : v \in PageOf(i) =>
              translate(table', v) = call.phys + (v - call.virt) /\ translate(table, v) = Unmapped
         /\ Leaf(table', virt, call.size) /\ LeafAt(table', virt, call.size) = phys
         /\ \A v \in Canonical : v \in PageOf(i) => \A l \in 0..2 : ~Leaf(table, v, l)
<1>1. Writes(H, PageAt(phys)) /\ Slot.kind = "none" /\ Walking
  BY MapLeafDoes
<1>2. PICK lv : Tree(table, Tables(H), lv)
  BY DEF Struct, Shaped
<1>3. PICK lw : Tree(table', Tables(H)', lw)
  BY DEF Struct, Shaped
<1>4. /\ call \in CallSet /\ i \in Nat /\ call.size \in 0..2 /\ virt \in Nat /\ is_canonical(virt) /\ ~misaligned(VirtAt(i))
  BY <1>1, AtPage, VirtIsAt
<1>5. PageAt(phys).kind = "page" /\ PageAt(phys).at = phys
  BY EntryTypes
<1>6. ASSUME NEW v \in Canonical, v \in PageOf(i) PROVE Leaf(table', v, call.size) /\ LeafAt(table', v, call.size) = phys
  BY <1>1, <1>4, <1>5, <1>6, LeavesAfter
<1>7. virt \in Canonical /\ virt \in PageOf(i)
  BY <1>4, CanonicalNat, VirtIsAt, Spans
<1>8. ASSUME NEW v \in Canonical, v \in PageOf(i), NEW l \in 0..2 PROVE ~Leaf(table, v, l)
  <2>1. v \in Nat
    BY CanonicalNat
  <2>2. Block(v, call.size) = Block(virt, call.size)
    BY <1>4, <1>8, <2>1, PageBlock, VirtIsAt
  <2>3. Level = call.size /\ Lowest = Walk(table, virt, call.size) /\ Reached(table, virt, call.size)
    BY <1>1 DEF Writes, Reached
  <2>4. table[Walk(table, virt, call.size)][index(virt, call.size)].kind = "none"
    BY <1>1, <2>3 DEF Slot
  <2> QED BY <1>2, <1>4, <2>1, <2>2, <2>3, <2>4, NoLeafThere
<1>9. ASSUME NEW v \in Canonical, v \in PageOf(i) PROVE translate(table', v) = call.phys + (v - call.virt)
  <2>1. v \in Nat
    BY CanonicalNat
  <2>2. translate(table', v) = LeafAt(table', v, call.size) + (v % ENTRIES^call.size)
    BY <1>3, <1>4, <1>6, <1>9, TranslateLeaf
  <2>3. translate(table', v) = phys + (v - VirtAt(i))
    BY <1>4, <1>6, <1>9, <2>1, <2>2, PageBlock
  <2> DEFINE q == i * Stride(call.size)
  <2>4. phys = call.phys + q /\ VirtAt(i) = call.virt + q
    BY DEF phys, VirtAt
  <2>5. q \in Nat /\ call.phys \in Nat /\ call.virt \in Nat
    BY <1>4, StrideNat, Products
  <2> HIDE DEF q
  <2> QED BY SMTT(60), <2>1, <2>3, <2>4, <2>5
<1> QED BY <1>6, <1>7, <1>8, <1>9, TranslateNone

\* The page is gone, and it was there.
LEMMA UnmapLeafTranslates ==
  ASSUME NEW H, Struct(H), Struct(H)', UnmapLeaf
  PROVE  /\ \A v \in Canonical : v \in PageOf(i) => translate(table', v) = Unmapped
         /\ \A v \in PageOf(i) : v \in Canonical /\ translate(table, v) # Unmapped
         /\ \A v \in Canonical : v \in PageOf(i) => \A l \in 0..2 : ~Leaf(table', v, l)
         /\ Leaf(table, virt, call.size)
<1>1. Writes(H, Nothing) /\ Slot.kind = "page" /\ Walking
  BY UnmapLeafDoes
<1>2. PICK lv : Tree(table, Tables(H), lv)
  BY DEF Struct, Shaped
<1>4. /\ call \in CallSet /\ i \in Nat /\ call.size \in 0..2 /\ virt \in Nat /\ is_canonical(virt) /\ ~misaligned(VirtAt(i))
  BY <1>1, AtPage, VirtIsAt
<1>5. Leaf(table, virt, call.size)
  BY <1>1 DEF Writes, Leaf, Slot
<1>6. ASSUME NEW v \in PageOf(i) PROVE v \in Canonical /\ Leaf(table, v, call.size)
  <2>1. VirtAt(i) \in Nat
    BY <1>4, VirtIsAt
  <2>2. v \in Nat
    BY SMTT(60), <2>1 DEF PageOf
  <2>3. Block(v, call.size) = Block(virt, call.size)
    BY <1>4, <1>6, <2>2, PageBlock, VirtIsAt
  <2>4. is_canonical(v)
    BY <1>4, <2>2, <2>3, CanonicalPage
  <2> QED BY <1>4, <1>5, <2>2, <2>3, <2>4, CanonicalNat, LeafSame
<1>7. \A v \in PageOf(i) : v \in Canonical /\ translate(table, v) # Unmapped
  BY <1>2, <1>4, <1>6, TranslateLeaf
<1>8. ASSUME NEW v \in Canonical, v \in PageOf(i), NEW l \in 0..2 PROVE ~Leaf(table', v, l)
  <2>1. CASE l = call.size
    <3>1. Nothing.kind # "page"
      BY DEF Nothing
    <3> QED BY <1>1, <1>8, <2>1, <3>1, LeavesAfter
  <2>2. CASE l # call.size
    <3>1. Leaf(table', v, l) <=> Leaf(table, v, l)
      BY <1>1, <2>2, LeavesAfter
    <3>2. v \in Nat
      BY CanonicalNat
    <3> QED BY <1>2, <1>4, <1>6, <1>8, <2>2, <3>1, <3>2, OneLeaf
  <2> QED BY <2>1, <2>2
<1> QED BY <1>5, <1>7, <1>8, TranslateNone

-----------------------------------------------------------------------------
(* What a call has done. *)

\* The tables map the same pages as before the step.
Quiet == \A v \in Canonical : SameLeaves(table, table', v)

\* A step that writes no table changes no page.
LEMMA Untouched ==
  ASSUME table' = table
  PROVE  Quiet
  BY DEF Quiet, SameLeaves

\* Without pages that come or go every translation stays.
LEMMA QuietTranslation ==
  ASSUME NEW H, Struct(H), Struct(H)', Quiet
  PROVE  \A v \in Canonical : translate(table', v) = translate(table, v)
<1>1. PICK lv : Tree(table, Tables(H), lv)
  BY DEF Struct, Shaped
<1>2. PICK lw : Tree(table', Tables(H)', lw)
  BY DEF Struct, Shaped
<1> QED BY <1>1, <1>2, SameTranslation DEF Quiet

\* Dropping tables without pages changes no page.
LEMMA DropsQuiet ==
  ASSUME NEW H, Struct(H), NEW D, Drops(H, D)
  PROVE  Quiet
<1> DEFINE S == Tables(H) \ D
<1>1. PICK lv : Tree(table, Tables(H), lv)
  BY DEF Struct, Shaped
<1>2. Tables(H) = S \cup D /\ Pruned(table, table', S, D)
  BY DEF Drops
<1>3. Tree(table, S \cup D, lv)
  BY <1>1, <1>2
<1> HIDE DEF S
<1> QED BY <1>2, <1>3, PrunedLeaves, CanonicalNat DEF Quiet

\* Making a table changes no page.
LEMMA MakesQuiet ==
  ASSUME NEW H, Struct(H), NEW f, Makes(H, f)
  PROVE  Quiet
<1> DEFINE S == Tables(H)
           D == {f}
<1>1. PICK lv : Tree(table', S \cup D, lv)
  BY DEF Makes
<1>2. Pruned(table', table, S, D)
  BY DEF Makes
<1> HIDE DEF S, D
<1>3. \A v \in Canonical : SameLeaves(table', table, v)
  BY <1>1, <1>2, PrunedLeaves, CanonicalNat
<1> QED BY <1>3 DEF Quiet, SameLeaves

\* The pages of the range that are mapped stay so.
LEMMA QuietStanding ==
  ASSUME Quiet, call \in CallSet, NEW a \in Nat, NEW b \in Nat, Standing(a, b)
  PROVE  \A k \in a..(b - 1) :
           is_canonical(VirtAt(k)) /\ ~misaligned(VirtAt(k)) /\ Leaf(table', VirtAt(k), call.size)
<1> SUFFICES ASSUME NEW k \in a..(b - 1)
             PROVE  is_canonical(VirtAt(k)) /\ ~misaligned(VirtAt(k)) /\ Leaf(table', VirtAt(k), call.size)
  OBVIOUS
<1>1. k \in Nat
  BY SMTT(60)
<1>2. is_canonical(VirtAt(k)) /\ ~misaligned(VirtAt(k)) /\ Leaf(table, VirtAt(k), call.size)
  BY DEF Standing
<1>3. VirtAt(k) \in Nat /\ call.size \in 0..2
  BY <1>1, Spans, StrideNat
<1>4. SameLeaves(table, table', VirtAt(k))
  BY <1>2, <1>3, CanonicalNat DEF Quiet
<1> QED BY <1>2, <1>3, <1>4 DEF SameLeaves

\* The pages of a range depend on its first address and page size only.
LEMMA SameRange ==
  ASSUME call'.virt = call.virt, call'.size = call.size
  PROVE  /\ \A k : VirtAt(k)' = VirtAt(k) /\ (misaligned(k)' <=> misaligned(k))
         /\ \A a, b : Span(a, b)' = Span(a, b)
  BY DEF VirtAt, Span, Stride, misaligned

\* SoFar is kept by the steps within a page, but for the write of its entry.
LEMMA WithinPage ==
  ASSUME NEW H, Struct(H), Struct(H)', SoFar, Quiet, call' = call, i' = i, result' = result, before' = before,
         Done' = Done, pc # "idle", pc # "done" \/ pc' = pc, pc' # "done" \/ pc' = pc
  PROVE  SoFar'
<1>1. \A v \in Canonical : translate(table', v) = translate(table, v)
  BY QuietTranslation
<1>2. call \in CallSet /\ i \in 0..call.pages
  BY DEF Struct, Typed
<1>3. call.pages \in Nat
  BY <1>2, StrideNat
<1>4. i \in Nat /\ Done \in Nat /\ 0 \in Nat
  BY SMTT(60), <1>2, <1>3 DEF Done
<1>5. /\ \A k : VirtAt(k)' = VirtAt(k) /\ (misaligned(k)' <=> misaligned(k))
      /\ \A a, b : Span(a, b)' = Span(a, b)
  BY SameRange
<1>6. ASSUME NEW a \in Nat, NEW b \in Nat, Standing(a, b) PROVE Standing(a, b)'
  <2>1. \A k \in a..(b - 1) : is_canonical(VirtAt(k)) /\ ~misaligned(VirtAt(k)) /\ Leaf(table', VirtAt(k), call.size)
    BY <1>2, <1>6, QuietStanding
  <2> QED BY <1>5, <2>1 DEF Standing
<1>7. \A a, b : MappedFrom(a, b) => MappedFrom(a, b)'
  BY <1>1, <1>5 DEF MappedFrom
<1>8. PICK n \in Nat, d \in Nat, m \in Nat : n = i /\ d = Done /\ m = call.pages
  BY <1>3, <1>4
<1>9. n = i' /\ d = Done' /\ m = call'.pages /\ call'.op = call.op
  BY <1>8
<1>10. CASE call.op = "map"
  <2>1. /\ result = "Ok" /\ MappedFrom(0, n) /\ Standing(0, n)
        /\ \A v \in Canonical : v \in Span(0, n) => before[v] = Unmapped
        /\ pc = "done" => n = m
    BY <1>8, <1>10 DEF SoFar, MapSoFar
  <2>2. Standing(0, n)' /\ MappedFrom(0, n)'
    BY <1>4, <1>6, <1>7, <2>1
  <2>3. MapSoFar'
    BY <1>5, <1>9, <2>1, <2>2 DEF MapSoFar
  <2>4. call'.op # "unmap" /\ call'.op # "undo"
    BY <1>9, <1>10
  <2> QED BY <2>3, <2>4 DEF SoFar
<1>11. CASE call.op = "undo"
  <2>1. /\ result # "Ok" /\ MappedFrom(d, m) /\ Standing(d, m)
        /\ \A v \in Canonical : v \in Span(0, m) => before[v] = Unmapped
        /\ pc = "done" => n = m
    BY <1>8, <1>11 DEF SoFar, UndoSoFar
  <2>2. Standing(d, m)' /\ MappedFrom(d, m)'
    BY <1>4, <1>6, <1>7, <2>1
  <2>3. UndoSoFar'
    BY <1>5, <1>9, <2>1, <2>2 DEF UndoSoFar
  <2>4. call'.op # "unmap" /\ call'.op # "map"
    BY <1>9, <1>11
  <2> QED BY <2>3, <2>4 DEF SoFar
<1>12. CASE call.op = "unmap"
  <2>1. /\ \A v \in Canonical : translate(table, v) = IF v \in Span(0, d) THEN Unmapped ELSE before[v]
        /\ \A v \in Span(0, d) : v \in Canonical /\ before[v] # Unmapped
        /\ result = "Ok" <=> (pc = "done" => n = m)
    BY <1>8, <1>12 DEF SoFar, UnmapSoFar
  <2>2. pc = "done" <=> pc' = "done"
    OBVIOUS
  <2>3. /\ \A v \in Canonical : translate(table', v) = IF v \in Span(0, d) THEN Unmapped ELSE before'[v]
        /\ \A v \in Span(0, d) : v \in Canonical /\ before'[v] # Unmapped
        /\ result' = "Ok" <=> (pc' = "done" => n = m)
    BY <1>1, <2>1, <2>2
  <2>4. UnmapSoFar'
    BY <1>5, <1>9, <2>3 DEF UnmapSoFar
  <2>5. call'.op # "undo" /\ call'.op # "map"
    BY <1>9, <1>12
  <2> QED BY <2>4, <2>5 DEF SoFar
<1>13. CASE call.op \notin {"map", "undo", "unmap"}
  <2>1. call'.op # "undo" /\ call'.op # "map" /\ call'.op # "unmap"
    BY <1>9, <1>13
  <2> QED BY <2>1 DEF SoFar
<1> QED BY <1>10, <1>11, <1>12, <1>13

\* SoFar holds when a call begins.
LEMMA EnterSoFar ==
  ASSUME NEW H, Struct(H), Struct(H)', SoFar, NEW c \in Calls, NEW op \in {"map", "unmap"}, Enter(op, c)
  PROVE  SoFar'
<1>1. /\ pc' = op /\ i' = 0 /\ result' = "Ok" /\ before' = Translation /\ table' = table
      /\ call' = [op |-> op, virt |-> c.virt, phys |-> c.phys, pages |-> c.pages, size |-> c.size]
  BY DEF Enter
<1>2. call'.op = op /\ pc' \notin {"idle", "done", "reclaim", "flush"} /\ call'.op # "undo" /\ call' \in CallSet
  BY <1>1 DEF Struct, Typed
<1>3. \A v \in Canonical : before'[v] = translate(table', v)
  BY <1>1 DEF Translation
<1>4. before' = [v \in Canonical |-> before'[v]]
  BY <1>1 DEF Translation
<1>5. \A v : v \notin Span(0, 0)'
  <2>1. VirtAt(0)' \in Nat
    <3>1. call'.virt \in Nat /\ call'.size \in 0..4
      BY SMTT(60), <1>2 DEF CallSet
    <3>2. ENTRIES^call'.size \in Nat
      BY <3>1, Powers
    <3> DEFINE n == ENTRIES^call'.size
    <3> HIDE DEF n
    <3>3. n \in Nat /\ VirtAt(0)' = call'.virt + 0 * n
      BY <3>2 DEF n, VirtAt, Stride
    <3> QED BY SMTT(60), <3>1, <3>3
  <2> QED BY SMTT(60), <2>1 DEF Span
<1>6. Done' = 0
  BY <1>1, <1>2 DEF Done
<1>7. CASE op = "map"
  <2>1. MappedFrom(0, 0)'
    BY <1>3, <1>5 DEF MappedFrom
  <2>2. Standing(0, 0)'
    BY SMTT(60) DEF Standing
  <2>3. MapSoFar'
    BY <1>1, <1>2, <1>5, <2>1, <2>2 DEF MapSoFar
  <2>4. call'.op # "unmap"
    BY <1>2, <1>7
  <2> QED BY <1>2, <1>4, <2>3, <2>4 DEF SoFar
<1>8. CASE op = "unmap"
  <2>1. UnmapSoFar'
    BY <1>1, <1>2, <1>3, <1>5, <1>6 DEF UnmapSoFar
  <2>2. call'.op # "map"
    BY <1>2, <1>8
  <2> QED BY <1>2, <1>4, <2>1, <2>2 DEF SoFar
<1> QED BY <1>7, <1>8

\* SoFar is kept when a call has gone through its range.
LEMMA RangeDoneSoFar ==
  ASSUME NEW H, Struct(H), Struct(H)', SoFar, RangeDone
  PROVE  SoFar'
<1>1. /\ pc = call.op /\ i = call.pages /\ pc' = "done" /\ table' = table /\ call' = call /\ i' = i
      /\ result' = result /\ before' = before
  BY DEF RangeDone
<1>2. pc \in {"map", "unmap", "undo"}
  BY RangeDoneStruct
<1>3. Done = i /\ Done' = i /\ pc # "idle" /\ pc # "done"
  BY <1>1, <1>2 DEF Done
<1>4. /\ \A a, b : MappedFrom(a, b)' <=> MappedFrom(a, b)
      /\ \A a, b : Standing(a, b)' <=> Standing(a, b)
      /\ \A a, b : Span(a, b)' = Span(a, b)
  BY <1>1 DEF MappedFrom, Standing, Span, VirtAt, Stride, misaligned
<1>5. MapSoFar => MapSoFar'
  BY <1>1, <1>4 DEF MapSoFar
<1>6. UndoSoFar => UndoSoFar'
  BY <1>1, <1>3, <1>4 DEF UndoSoFar
<1>7. UnmapSoFar => UnmapSoFar'
  BY <1>1, <1>3, <1>4 DEF UnmapSoFar
<1> QED BY <1>1, <1>3, <1>5, <1>6, <1>7 DEF SoFar

\* SoFar says nothing outside of a call.
LEMMA ReturnSoFar ==
  ASSUME Return
  PROVE  SoFar'
<1>1. pc' = "idle" /\ call'.op \notin {"map", "unmap", "undo"}
  BY DEF Return, NoCall
<1> QED BY <1>1 DEF SoFar

\* map_range turns to its rollback: the pages it has mapped are still mapped.
LEMMA GivesUp ==
  ASSUME NEW H, Struct(H), Struct(H)', SoFar, call.op = "map", Quiet, NEW e \in Results \ {"Ok"}, MapFails(e),
         before' = before, pc # "idle"
  PROVE  SoFar'
<1>1. Typed /\ call \in CallSet /\ i \in 0..call.pages /\ e \in Results
  BY DEF Struct, Typed
<1>2. i \in Nat /\ 0 \in Nat
  BY SMTT(60), <1>1, StrideNat
<1>3. /\ call'.op = "undo" /\ call'.pages = i /\ i' = 0 /\ pc' = "undo" /\ result' = e
      /\ call'.virt = call.virt /\ call'.phys = call.phys /\ call'.size = call.size
  BY <1>1, MapFailsDoes
<1>4. PICK n \in Nat : n = i
  BY <1>2
<1>5. /\ \A k : VirtAt(k)' = VirtAt(k) /\ (misaligned(k)' <=> misaligned(k))
      /\ \A a, b : Span(a, b)' = Span(a, b)
  BY <1>3, SameRange
<1>6. /\ MappedFrom(0, n) /\ Standing(0, n)
      /\ \A v \in Canonical : v \in Span(0, n) => before[v] = Unmapped
  BY <1>4 DEF SoFar, MapSoFar
<1>7. MappedFrom(0, n)'
  BY <1>3, <1>5, <1>6, QuietTranslation DEF MappedFrom
<1>8. Standing(0, n)'
  <2>1. \A k \in 0..(n - 1) : is_canonical(VirtAt(k)) /\ ~misaligned(VirtAt(k)) /\ Leaf(table', VirtAt(k), call.size)
    BY <1>1, <1>2, <1>6, QuietStanding
  <2> QED BY <1>3, <1>5, <2>1 DEF Standing
<1>9. Done' = 0 /\ n = call'.pages /\ pc' # "done" /\ result' # "Ok" /\ call'.op # "map" /\ call'.op # "unmap"
  BY <1>3, <1>4 DEF Done
<1>10. UndoSoFar'
  BY <1>5, <1>6, <1>7, <1>8, <1>9 DEF UndoSoFar
<1> QED BY <1>9, <1>10 DEF SoFar

\* SoFar is kept: one more page is mapped.
LEMMA MapLeafSoFar ==
  ASSUME NEW H, Struct(H), Struct(H)', SoFar, MapLeaf
  PROVE  SoFar'
<1>1. /\ Writes(H, PageAt(phys)) /\ pc = "map_walk" /\ Walking /\ NextPage /\ call' = call /\ result' = result
      /\ before' = before
  BY MapLeafDoes
<1>2. call.op = "map"
  BY <1>1, OpsAtPcs DEF Struct, Typed
<1>3. /\ call \in CallSet /\ i \in Nat /\ call.size \in 0..2 /\ virt \in Nat /\ is_canonical(virt) /\ ~misaligned(virt)
  BY <1>1, AtPage
<1>4. pc' = "map" /\ i' = i + 1 /\ pc # "idle" /\ pc' # "done"
  BY <1>1, <1>2 DEF NextPage
<1>5. PICK n \in Nat : n = i
  BY <1>3
<1>6. virt = VirtAt(n) /\ n + 1 = i' /\ n + 1 \in Nat
  BY SMTT(60), <1>4, <1>5, VirtIsAt
<1>7. /\ result = "Ok" /\ MappedFrom(0, n) /\ Standing(0, n)
      /\ \A v \in Canonical : v \in Span(0, n) => before[v] = Unmapped
  BY <1>2, <1>5 DEF SoFar, MapSoFar
<1>8. /\ \A k : VirtAt(k)' = VirtAt(k) /\ (misaligned(k)' <=> misaligned(k))
      /\ \A a, b : Span(a, b)' = Span(a, b)
  BY <1>1, SameRange
<1>9. /\ \A v : v \in Span(0, n + 1) <=> v \in Span(0, n) \/ v \in PageOf(n)
      /\ \A v \in PageOf(n) : v \notin Span(0, n)
  BY <1>3, Spans
<1>10. /\ \A v \in Canonical : v \in PageOf(n) =>
             translate(table', v) = call.phys + (v - call.virt) /\ translate(table, v) = Unmapped
       /\ Leaf(table', VirtAt(n), call.size)
  BY <1>5, <1>6, MapLeafTranslates
<1>11. \A v \in Canonical : v \notin PageOf(n) => translate(table', v) = translate(table, v)
  BY <1>1, <1>5, OutsideTranslation
<1>12. MappedFrom(0, n + 1)'
  <2> SUFFICES ASSUME NEW v \in Canonical
               PROVE  translate(table', v) = IF v \in Span(0, n + 1) THEN call.phys + (v - call.virt) ELSE before[v]
    BY <1>1, <1>8 DEF MappedFrom
  <2>1. translate(table, v) = IF v \in Span(0, n) THEN call.phys + (v - call.virt) ELSE before[v]
    BY <1>7 DEF MappedFrom
  <2>2. CASE v \in PageOf(n)
    BY <1>9, <1>10, <2>2
  <2>3. CASE v \notin PageOf(n)
    BY <1>9, <1>11, <2>1, <2>3
  <2> QED BY <2>2, <2>3
<1>13. \A v \in Canonical : v \in Span(0, n + 1) => before[v] = Unmapped
  <2> SUFFICES ASSUME NEW v \in Canonical, v \in PageOf(n) PROVE before[v] = Unmapped
    BY <1>7, <1>9
  <2>1. translate(table, v) = before[v]
    BY <1>7, <1>9 DEF MappedFrom
  <2> QED BY <1>10, <2>1
<1>14. Standing(0, n + 1)'
  <2> SUFFICES ASSUME NEW k \in 0..((n + 1) - 1)
               PROVE  is_canonical(VirtAt(k)) /\ ~misaligned(VirtAt(k)) /\ Leaf(table', VirtAt(k), call.size)
    BY <1>1, <1>8 DEF Standing
  <2>1. CASE k = n
    BY <1>3, <1>6, <1>10, <2>1
  <2>2. CASE k # n
    <3>1. k \in 0..(n - 1) /\ k \in Nat
      BY SMTT(60), <2>2
    <3>2. is_canonical(VirtAt(k)) /\ ~misaligned(VirtAt(k)) /\ Leaf(table, VirtAt(k), call.size)
      BY <1>7, <3>1 DEF Standing
    <3>3. Leaf(table', VirtAt(k), call.size)
      BY <1>1, <1>5, <2>2, <3>1, <3>2, OtherLeaves
    <3> QED BY <3>2, <3>3
  <2> QED BY <2>1, <2>2
<1>15. MapSoFar'
  BY <1>1, <1>4, <1>6, <1>7, <1>8, <1>12, <1>13, <1>14 DEF MapSoFar
<1>16. call'.op # "unmap" /\ call'.op # "undo"
  BY <1>1, <1>2
<1> QED BY <1>1, <1>4, <1>15, <1>16 DEF SoFar

\* SoFar is kept: one more page is gone, in unmap_range or in the rollback.
LEMMA UnmapLeafSoFar ==
  ASSUME NEW H, Struct(H), Struct(H)', SoFar, UnmapLeaf
  PROVE  SoFar'
<1>1. /\ Writes(H, Nothing) /\ pc = "unmap_walk" /\ Walking /\ pc' = "reclaim" /\ call' = call /\ i' = i /\ result' = result
      /\ before' = before
  BY UnmapLeafDoes
<1>2. call.op \in {"unmap", "undo"}
  BY <1>1, OpsAtPcs DEF Struct, Typed
<1>3. /\ call \in CallSet /\ i \in Nat /\ call.size \in 0..2 /\ virt \in Nat /\ is_canonical(virt) /\ ~misaligned(virt)
      /\ i < call.pages
  BY <1>1, AtPage
<1>4. call.pages \in Nat
  BY <1>3, StrideNat
<1>5. PICK n \in Nat, m \in Nat : n = i /\ m = call.pages
  BY <1>3, <1>4
<1>6. Done = n /\ Done' = n + 1 /\ n + 1 \in Nat /\ pc # "idle" /\ pc # "done" /\ pc' # "done" /\ n < m
  BY SMTT(60), <1>1, <1>3, <1>5 DEF Done
<1>7. virt = VirtAt(n)
  BY <1>5, VirtIsAt
<1>8. /\ \A k : VirtAt(k)' = VirtAt(k) /\ (misaligned(k)' <=> misaligned(k))
      /\ \A a, b : Span(a, b)' = Span(a, b)
  BY <1>1, SameRange
<1>9. /\ \A v : v \in Span(0, n + 1) <=> v \in Span(0, n) \/ v \in PageOf(n)
      /\ \A v \in PageOf(n) : v \notin Span(0, n)
      /\ \A v : v \in Span(n, m) <=> v \in Span(n + 1, m) \/ v \in PageOf(n)
      /\ \A v \in PageOf(n) : v \notin Span(n + 1, m)
      /\ \A v \in Span(n, m) : v \in Span(0, m)
  BY <1>3, <1>6, Spans
<1>10. /\ \A v \in Canonical : v \in PageOf(n) => translate(table', v) = Unmapped
       /\ \A v \in PageOf(n) : v \in Canonical /\ translate(table, v) # Unmapped
  BY <1>5, UnmapLeafTranslates
<1>11. \A v \in Canonical : v \notin PageOf(n) => translate(table', v) = translate(table, v)
  BY <1>1, <1>5, OutsideTranslation
<1>12. CASE call.op = "undo"
  <2>1. /\ result # "Ok" /\ MappedFrom(n, m) /\ Standing(n, m)
        /\ \A v \in Canonical : v \in Span(0, m) => before[v] = Unmapped
    BY <1>5, <1>6, <1>12 DEF SoFar, UndoSoFar
  <2>2. MappedFrom(n + 1, m)'
    <3> SUFFICES ASSUME NEW v \in Canonical
                 PROVE  translate(table', v) = IF v \in Span(n + 1, m) THEN call.phys + (v - call.virt) ELSE before[v]
      BY <1>1, <1>8 DEF MappedFrom
    <3>1. translate(table, v) = IF v \in Span(n, m) THEN call.phys + (v - call.virt) ELSE before[v]
      BY <2>1 DEF MappedFrom
    <3>2. CASE v \in PageOf(n)
      BY <1>9, <1>10, <2>1, <3>2
    <3>3. CASE v \notin PageOf(n)
      BY <1>9, <1>11, <3>1, <3>3
    <3> QED BY <3>2, <3>3
  <2>3. Standing(n + 1, m)'
    <3> SUFFICES ASSUME NEW k \in (n + 1)..(m - 1)
                 PROVE  is_canonical(VirtAt(k)) /\ ~misaligned(VirtAt(k)) /\ Leaf(table', VirtAt(k), call.size)
      BY <1>1, <1>8 DEF Standing
    <3>1. k \in n..(m - 1) /\ k \in Nat /\ k # n
      BY SMTT(60)
    <3>2. is_canonical(VirtAt(k)) /\ ~misaligned(VirtAt(k)) /\ Leaf(table, VirtAt(k), call.size)
      BY <2>1, <3>1 DEF Standing
    <3>3. Leaf(table', VirtAt(k), call.size)
      BY <1>1, <1>5, <3>1, <3>2, OtherLeaves
    <3> QED BY <3>2, <3>3
  <2>4. m = call'.pages
    BY <1>1, <1>5
  <2>5. UndoSoFar'
    BY <1>1, <1>6, <1>8, <2>1, <2>2, <2>3, <2>4 DEF UndoSoFar
  <2>6. call'.op # "unmap" /\ call'.op # "map"
    BY <1>1, <1>12
  <2> QED BY <1>1, <1>6, <2>5, <2>6 DEF SoFar
<1>13. CASE call.op = "unmap"
  <2>1. /\ \A v \in Canonical : translate(table, v) = IF v \in Span(0, n) THEN Unmapped ELSE before[v]
        /\ \A v \in Span(0, n) : v \in Canonical /\ before[v] # Unmapped
        /\ result = "Ok"
    BY <1>6, <1>13 DEF SoFar, UnmapSoFar
  <2>2. ASSUME NEW v \in Canonical PROVE translate(table', v) = IF v \in Span(0, n + 1) THEN Unmapped ELSE before[v]
    <3>1. CASE v \in PageOf(n)
      BY <1>9, <1>10, <3>1
    <3>2. CASE v \notin PageOf(n)
      BY <1>9, <1>11, <2>1, <3>2
    <3> QED BY <3>1, <3>2
  <2>3. ASSUME NEW v \in Span(0, n + 1) PROVE v \in Canonical /\ before[v] # Unmapped
    <3>1. CASE v \in PageOf(n)
      BY <1>9, <1>10, <2>1, <3>1
    <3> QED BY <1>9, <2>1, <3>1
  <2>4. UnmapSoFar'
    BY <1>1, <1>6, <1>8, <2>1, <2>2, <2>3 DEF UnmapSoFar
  <2>5. call'.op # "undo" /\ call'.op # "map"
    BY <1>1, <1>13
  <2> QED BY <1>1, <1>6, <2>4, <2>5 DEF SoFar
<1> QED BY <1>2, <1>12, <1>13

\* SoFar is kept when unmap goes on to the next page.
LEMMA UnmapDoneSoFar ==
  ASSUME NEW H, Struct(H), SoFar, UnmapDone
  PROVE  SoFar'
<1>1. pc = "reclaim" /\ NextPage /\ table' = table /\ call' = call /\ result' = result /\ before' = before
  BY DEF UnmapDone
<1>2. call.op \in {"unmap", "undo"}
  BY <1>1, OpsAtPcs DEF Struct, Typed
<1>3. i' = i + 1 /\ pc' = call.op /\ pc' \notin {"idle", "done", "reclaim", "flush"} /\ pc \notin {"idle", "done"}
  BY <1>1, <1>2 DEF NextPage
<1>4. Done' = Done
  BY <1>1, <1>3 DEF Done
<1>5. PICK d : d = Done
  OBVIOUS
<1>6. /\ \A a, b : MappedFrom(a, b)' <=> MappedFrom(a, b)
      /\ \A a, b : Standing(a, b)' <=> Standing(a, b)
      /\ \A a, b : Span(a, b)' = Span(a, b)
  BY <1>1 DEF MappedFrom, Standing, Span, VirtAt, Stride, misaligned
<1>7. UndoSoFar => UndoSoFar'
  BY <1>1, <1>3, <1>4, <1>6 DEF UndoSoFar
<1>8. UnmapSoFar => UnmapSoFar'
  BY <1>1, <1>3, <1>4, <1>6 DEF UnmapSoFar
<1>9. call'.op # "map" /\ pc # "idle"
  BY <1>1, <1>2
<1> QED BY <1>1, <1>7, <1>8, <1>9 DEF SoFar

\* SoFar is kept when unmap_range stops at a page that it cannot unmap.
LEMMA StopsSoFar ==
  ASSUME NEW H, Struct(H), SoFar, call.op = "unmap", pc \in {"unmap", "unmap_walk"}, i < call.pages,
         NEW e \in Results \ {"Ok"}, UnmapFails(e), table' = table, before' = before
  PROVE  SoFar'
<1>1. call' = call /\ i' = i /\ pc' = "done" /\ result' = e /\ call.op # "undo"
  BY DEF UnmapFails
<1>2. i \in Nat /\ call.pages \in Nat
  BY SMTT(60), StrideNat DEF Struct, Typed
<1>3. i # call.pages /\ result' # "Ok" /\ pc # "idle" /\ call.op # "map"
  BY SMTT(60), <1>1, <1>2
<1>4. Done' = i /\ Done = i
  BY <1>1 DEF Done
<1>5. \A a, b : Span(a, b)' = Span(a, b)
  BY <1>1, SameRange
<1>6. UnmapSoFar
  BY DEF SoFar
<1>7. UnmapSoFar'
  BY <1>1, <1>3, <1>4, <1>5, <1>6 DEF UnmapSoFar
<1> QED BY <1>1, <1>3, <1>7 DEF SoFar

\* The rollback finds each of its pages.
LEMMA RollbackPage ==
  ASSUME NEW H, Struct(H), SoFar, call.op = "undo", pc \in {"undo", "unmap_walk"}, i < call.pages
  PROVE  is_canonical(virt) /\ ~misaligned(virt) /\ Leaf(table, virt, call.size)
<1>1. i \in Nat /\ call.pages \in Nat
  BY SMTT(60), StrideNat DEF Struct, Typed
<1>2. Done = i /\ i \in i..(call.pages - 1)
  BY SMTT(60), <1>1 DEF Done
<1>3. Standing(Done, call.pages)
  BY DEF SoFar, UndoSoFar
<1> QED BY <1>2, <1>3, VirtIsAt DEF Standing

\* SoFar is kept when unmap checks its arguments, which never fails in the rollback.
LEMMA UnmapStartSoFar ==
  ASSUME NEW H, Struct(H), Struct(H)', SoFar, UnmapStart
  PROVE  SoFar'
<1>1. pc \in {"unmap", "undo"} /\ i < call.pages /\ table' = table /\ before' = before
  BY DEF UnmapStart
<1>2. call.op = pc
  BY <1>1, OpsAtPcs DEF Struct, Typed
<1>3. ASSUME NEW e \in Results \ {"Ok"}, UnmapFails(e), ~is_canonical(virt) \/ misaligned(virt) PROVE SoFar'
  <2>1. CASE call.op = "undo"
    <3>1. pc \in {"undo", "unmap_walk"}
      BY <1>2, <2>1
    <3> QED BY <1>1, <1>3, <2>1, <3>1, RollbackPage
  <2>2. CASE call.op = "unmap"
    <3>1. pc \in {"unmap", "unmap_walk"}
      BY <1>2, <2>2
    <3> QED BY <1>1, <1>3, <2>2, <3>1, StopsSoFar
  <2> QED BY <1>1, <1>2, <2>1, <2>2
<1>4. CASE pc' = "unmap_walk" /\ UNCHANGED <<call, i, new, result>>
  <2>1. Done' = Done /\ pc \notin {"idle", "done"} /\ pc' # "done"
    BY <1>1, <1>4 DEF Done
  <2>2. Quiet
    BY <1>1, Untouched
  <2>3. pc # "idle" /\ pc # "done" /\ call' = call /\ i' = i /\ result' = result
    BY <1>4, <2>1
  <2> QED BY <1>1, <2>1, <2>2, <2>3, WithinPage
<1>5. "NonCanonical" \in Results \ {"Ok"} /\ "Misaligned" \in Results \ {"Ok"}
  BY DEF Results
<1> QED BY <1>3, <1>4, <1>5 DEF UnmapStart

\* SoFar is kept when unmap finds no page, which never happens in the rollback.
LEMMA UnmapMissSoFar ==
  ASSUME NEW H, Struct(H), SoFar, UnmapMiss
  PROVE  SoFar'
<1>1. /\ pc = "unmap_walk" /\ UnmapFails("NotMapped") /\ table' = table /\ before' = before
      /\ IF Level > call.size THEN Slot.kind # "table" ELSE Slot.kind # "page"
  BY DEF UnmapMiss
<1>2. call.op \in {"unmap", "undo"} /\ "NotMapped" \in Results \ {"Ok"} /\ Walking
  BY <1>1, OpsAtPcs DEF Struct, Typed, Results, Walking
<1>3. i < call.pages /\ virt \in Nat /\ call.size \in 0..2
  BY <1>2, AtPage
<1>4. CASE call.op = "undo"
  <2>1. pc \in {"undo", "unmap_walk"}
    BY <1>1
  <2>2. Leaf(table, virt, call.size)
    BY <1>3, <1>4, <2>1, RollbackPage
  <2>3. PICK lv : Tree(table, Tables(H), lv)
    BY DEF Struct, Shaped
  <2>4. Level \in 0..3 /\ Level \in call.size..3 /\ Lowest = Walk(table, virt, Level)
    BY <1>2, <2>3, InHand
  <2>5. CASE Level > call.size
    <3>1. Reached(table, virt, call.size) /\ call.size \in 0..3 /\ call.size < Level
      BY SMTT(60), <1>3, <2>2, <2>4, <2>5 DEF Leaf, Reached
    <3>2. table[Walk(table, virt, Level)][index(virt, Level)].kind = "table"
      BY <1>3, <2>3, <2>4, <3>1, ReachedUp
    <3> QED BY <1>1, <2>4, <2>5, <3>2 DEF Slot
  <2>6. CASE Level = call.size
    <3>1. ~(Level > call.size)
      BY SMTT(60), <1>3, <2>4, <2>6
    <3> QED BY <1>1, <2>2, <2>4, <2>6, <3>1 DEF Slot, Leaf
  <2>7. Level > call.size \/ Level = call.size
    BY SMTT(60), <1>3, <2>4
  <2> QED BY <2>5, <2>6, <2>7
<1>5. CASE call.op = "unmap"
  <2>1. pc \in {"unmap", "unmap_walk"}
    BY <1>1
  <2> QED BY <1>1, <1>2, <1>3, <1>5, <2>1, StopsSoFar
<1> QED BY <1>2, <1>4, <1>5

\* Only the writes of page entries change what is mapped.
LEMMA QuietSteps ==
  ASSUME NEW H, Struct(H), [Next]_vars, ~MapLeaf, ~UnmapLeaf
  PROVE  Quiet
<1>1. CASE MapNewTable
  BY <1>1, MapNewTableDoes, MakesQuiet
<1>2. CASE MapOutOfMemory
  BY <1>2, MapOutOfMemoryDoes, DropsQuiet
<1>3. CASE Reclaim
  <2>1. CASE is_empty(Lowest)
    BY <1>3, <2>1, ReclaimDoes, DropsQuiet
  <2>2. CASE ~is_empty(Lowest)
    BY <1>3, <2>2, Untouched DEF Reclaim
  <2> QED BY <2>1, <2>2
<1>4. ASSUME NEW c \in Calls, MapRange(c) \/ UnmapRange(c) PROVE Quiet
  BY <1>4, Untouched DEF MapRange, UnmapRange, Enter
<1>5. CASE UNCHANGED vars
  BY <1>5, Untouched DEF vars
<1>6. CASE RangeDone \/ Return \/ MapStart \/ MapDescend \/ MapBlocked \/ UnmapStart \/ UnmapDescend \/ UnmapMiss
           \/ FlushAll \/ UnmapDone
  <2>1. table' = table
    BY <1>6 DEF RangeDone, Return, MapStart, MapDescend, MapBlocked, UnmapStart, UnmapDescend, UnmapMiss,
       FlushAll, UnmapDone
  <2> QED BY <2>1, Untouched
<1> QED BY <1>1, <1>2, <1>3, <1>4, <1>5, <1>6 DEF Next, Step

\* SoFar is kept when map_range turns to its rollback.
LEMMA MapGivesUpSoFar ==
  ASSUME NEW H, Struct(H), Struct(H)', SoFar, Quiet, pc \in {"map", "map_walk"}, NEW e \in Results \ {"Ok"}, MapFails(e),
         before' = before
  PROVE  SoFar'
<1>1. call.op = "map" /\ pc # "idle"
  BY OpsAtPcs DEF Struct, Typed
<1> QED BY <1>1, GivesUp

\* Every step keeps SoFar.
LEMMA StepSoFar ==
  ASSUME NEW H, Struct(H), Struct(H)', SoFar, [Next]_vars
  PROVE  SoFar'
<1>1. ASSUME NEW c \in Calls, MapRange(c) \/ UnmapRange(c) PROVE SoFar'
  <2>1. "map" \in {"map", "unmap"} /\ "unmap" \in {"map", "unmap"}
    OBVIOUS
  <2> QED BY <1>1, <2>1, EnterSoFar DEF MapRange, UnmapRange
<1>2. CASE MapLeaf \/ UnmapLeaf
  BY <1>2, MapLeafSoFar, UnmapLeafSoFar
<1>3. ASSUME ~MapLeaf, ~UnmapLeaf PROVE Quiet
  BY <1>3, QuietSteps
<1>4. /\ "NonCanonical" \in Results \ {"Ok"} /\ "Misaligned" \in Results \ {"Ok"}
      /\ "AlreadyMapped" \in Results \ {"Ok"} /\ "OutOfMemory" \in Results \ {"Ok"}
  BY DEF Results
<1>5. ASSUME Quiet, MapStart PROVE SoFar'
  <2>1. pc = "map" /\ before' = before
    BY <1>5 DEF MapStart
  <2>2. pc \in {"map", "map_walk"}
    BY <2>1
  <2>3. CASE pc' = "map_walk" /\ UNCHANGED <<call, i, new, result>>
    <3>1. Done' = Done /\ pc # "idle" /\ pc # "done" /\ pc' # "done" /\ call' = call /\ i' = i /\ result' = result
      BY <2>1, <2>3 DEF Done
    <3> QED BY <1>5, <2>1, <3>1, WithinPage
  <2> QED BY <1>4, <1>5, <2>1, <2>2, <2>3, MapGivesUpSoFar DEF MapStart
<1>6. ASSUME Quiet, MapBlocked \/ MapOutOfMemory PROVE SoFar'
  <2>1. pc = "map_walk" /\ before' = before
    BY <1>6 DEF MapBlocked, MapOutOfMemory
  <2>2. pc \in {"map", "map_walk"}
    BY <2>1
  <2> QED BY <1>4, <1>6, <2>1, <2>2, MapGivesUpSoFar DEF MapBlocked, MapOutOfMemory
<1>7. ASSUME Quiet, MapDescend \/ MapNewTable \/ UnmapDescend PROVE SoFar'
  <2>1. /\ pc \in {"map_walk", "unmap_walk"} /\ pc' = pc
        /\ call' = call /\ i' = i /\ result' = result /\ before' = before
    BY <1>7 DEF MapDescend, MapNewTable, UnmapDescend
  <2>2. Done' = Done /\ pc # "idle" /\ pc # "done"
    BY <2>1 DEF Done
  <2> QED BY <1>7, <2>1, <2>2, WithinPage
<1>8. ASSUME Quiet, Reclaim \/ FlushAll PROVE SoFar'
  <2>1. call' = call /\ i' = i /\ result' = result /\ before' = before
    BY <1>8 DEF Reclaim, FlushAll
  <2>2. pc \in {"reclaim", "flush"} /\ pc' \in {"reclaim", "flush"}
    BY <1>8 DEF Reclaim, FlushAll
  <2>3. Done' = Done /\ pc # "idle" /\ pc # "done" /\ pc' # "done"
    BY <2>1, <2>2 DEF Done
  <2> QED BY <1>8, <2>1, <2>3, WithinPage
<1>9. CASE UNCHANGED vars
  <2>1. /\ table' = table /\ pc' = pc /\ call' = call /\ i' = i /\ result' = result /\ before' = before
    BY <1>9 DEF vars
  <2>2. CASE pc = "idle"
    <3>1. pc' = "idle" /\ call'.op \notin {"map", "unmap", "undo"}
      BY <2>1, <2>2, OpsAtPcs DEF Struct, Typed
    <3> QED BY <3>1 DEF SoFar
  <2>3. CASE pc # "idle"
    <3>1. Done' = Done
      BY <2>1 DEF Done
    <3> QED BY <2>1, <2>3, <3>1, Untouched, WithinPage
  <2> QED BY <2>2, <2>3
<1> QED BY <1>1, <1>2, <1>3, <1>5, <1>6, <1>7, <1>8, <1>9, RangeDoneSoFar, ReturnSoFar, UnmapStartSoFar,
        UnmapMissSoFar, UnmapDoneSoFar DEF Next, Step

\* Every step keeps the invariant.
LEMMA StepInv ==
  ASSUME NEW H, Inv(H), [Next]_vars
  PROVE  Inv(H)'
<1>1. Struct(H)'
  BY StepStruct DEF Inv
<1> QED BY <1>1, StepUsed, StepSoFar DEF Inv

\* The tables as they are at first.
LEMMA BootShape ==
  ASSUME Init
  PROVE  /\ Tables({}) = DOMAIN BootTable
         /\ table \in [Frames -> [Indexes -> Entries]]
         /\ \A f \in DOMAIN BootTable : table[f] = BootTable[f]
         /\ \A f \in Frames \ DOMAIN BootTable : table[f] = Junk
<1>1. /\ table = [f \in Frames |-> IF f \in DOMAIN BootTable THEN BootTable[f] ELSE Junk]
      /\ free = Frames \ DOMAIN BootTable
  BY DEF Init
<1>2. DOMAIN BootTable \subseteq Frames
  BY VmmAssumption
<1>3. Tables({}) = DOMAIN BootTable
  BY <1>1, <1>2 DEF Tables
<1>4. \A f \in DOMAIN BootTable : BootTable[f] \in [Indexes -> Entries]
  BY BootTree
<1>5. Junk \in [Indexes -> Entries]
  BY EntryTypes
<1> DEFINE E == [Indexes -> Entries]
           D == DOMAIN BootTable
<1> HIDE DEF E, D
<1>6. \A f \in Frames : (IF f \in D THEN BootTable[f] ELSE Junk) \in E
  BY <1>4, <1>5 DEF D, E
<1>7. table = [f \in Frames |-> IF f \in D THEN BootTable[f] ELSE Junk] /\ D \subseteq Frames
  BY <1>1, <1>2 DEF D
<1>8. /\ table \in [Frames -> E] /\ \A f \in D : table[f] = BootTable[f]
      /\ \A f \in Frames \ D : table[f] = Junk
  BY <1>6, <1>7
<1> QED BY <1>3, <1>8 DEF D, E

\* They are the loader's, with nothing pruned.
LEMMA BootPruned ==
  ASSUME Init
  PROVE  Pruned(BootTable, table, DOMAIN BootTable, {}) /\ DOMAIN BootTable = DOMAIN BootTable \cup {}
<1> DEFINE D == DOMAIN BootTable
<1>1. \A f \in D : table[f] = BootTable[f]
  BY BootShape
<1> HIDE DEF D
<1>2. Pruned(BootTable, table, D, {}) /\ D = D \cup {}
  BY <1>1 DEF Pruned
<1> QED BY <1>2 DEF D

\* The invariant holds for the loader's tables.
LEMMA InitInv ==
  ASSUME Init
  PROVE  Inv({})
<1> DEFINE D == DOMAIN BootTable
<1>1. PICK lv : Tree(BootTable, D, lv)
  BY BootTree
<1>2. Tree(table, D, lv)
  <2>1. Tree(BootTable, D \cup {}, lv) /\ Pruned(BootTable, table, D, {})
    BY <1>1, BootPruned
  <2> HIDE DEF D
  <2> QED BY <2>1, PrunedTree
<1>3. /\ free = Frames \ D /\ pc = "idle" /\ call = NoCall /\ i = 0 /\ path = <<>> /\ new = {} /\ result = "Ok"
  BY DEF Init
<1>4. Typed
  <2>1. table \in [Frames -> [Indexes -> Entries]] /\ free \subseteq Frames /\ new \subseteq Frames
    BY <1>3, BootShape
  <2>2. pc \in Pcs /\ call \in CallSet /\ call.op \in OpsAt(pc) /\ i \in 0..call.pages /\ path \in Seq(Frames) /\ result \in Results
    BY SMTT(60), <1>3 DEF Pcs, CallSet, OpsAt, Results, NoCall
  <2> QED BY <2>1, <2>2 DEF Typed
<1>5. Shaped({})
  <2>1. {} \subseteq Frames \ free
    OBVIOUS
  <2> QED BY <1>2, <2>1, BootShape DEF Shaped
<1>6. OnPath /\ OnlyNew({})
  BY <1>3 DEF OnPath, OnlyNew, Walking
<1>7. AllUsed({})
  <2> SUFFICES ASSUME NEW f \in D \ {Root} PROVE ~is_empty(f)
    BY BootShape DEF AllUsed
  <2>1. PICK x \in Indexes : BootTable[f][x] # Nothing
    BY BootTablesUsed
  <2>2. table[f][x] # Nothing
    BY <2>1, BootShape
  <2>3. table[f][x].kind # "none"
    BY <1>2, <2>2, EntryKinds
  <2> QED BY <2>3 DEF is_empty, Present
<1>8. Used({})
  <2>1. pc # "map_walk"
    BY <1>3
  <2> QED BY <1>7, <2>1 DEF Used, AllUsed
<1>9. SoFar
  BY <1>3 DEF SoFar, NoCall
<1> QED BY <1>4, <1>5, <1>6, <1>8, <1>9 DEF Inv, Struct

\* The inductive invariant holds.
LEMMA Invariance == Spec => []Inv({})
<1>1. Init => Inv({})
  BY InitInv
<1>2. Inv({}) /\ [Next]_vars => Inv({})'
  BY StepInv
<1> QED BY <1>1, <1>2, PTL DEF Spec

=============================================================================
