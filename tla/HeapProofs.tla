----------------------------- MODULE HeapProofs -----------------------------
(***************************************************************************)
(* Proofs about Heap: for any sizes, layouts and order of calls, what the  *)
(* callers of the heap hold is apart and aligned, no object of a slab gets *)
(* lost, and every slab with a free object can be found again.             *)
(***************************************************************************)
EXTENDS Heap, WellFoundedInduction, TLAPS

\* Zenon proves the leaves that name no prover.
USE ZenonT(60)

(***************************************************************************)
(* Powers of two, quotients and remainders.                                *)
(***************************************************************************)
Divides(d, n) == \E m \in Nat : n = m * d

\* Every set of numbers has a smallest one.
LEMMA Least ==
  ASSUME NEW T \in SUBSET Nat, T # {}
  PROVE  \E x \in T : \A y \in T : x <= y
<1> DEFINE R == OpToRel(<, Nat)
<1>1. PICK x \in T : \A y \in T : ~(<<y, x>> \in R)
  BY NatLessThanWellFounded, WFMin
<1>2. ASSUME NEW y \in T PROVE x <= y
  <2>1. x \in Nat /\ y \in Nat /\ ~(y < x)
    BY <1>1 DEF OpToRel
  <2> QED BY SMTT(60), <2>1
<1> QED BY <1>2

\* Powers of two multiply as their exponents add.
LEMMA PowAdd ==
  ASSUME NEW a \in Nat, NEW b \in Nat, a + b <= MAX_SHIFT
  PROVE  2^(a + b) = 2^a * 2^b
<1> DEFINE T == {c \in Nat : a + c <= MAX_SHIFT /\ 2^(a + c) # 2^a * 2^c}
<1>a. MAX_SHIFT \in Nat
  BY HeapAssumption
<1>1. SUFFICES ASSUME T # {} PROVE FALSE
  OBVIOUS
<1>2. T \in SUBSET Nat
  OBVIOUS
<1>3. PICK c \in T : \A d \in T : c <= d
  BY <1>1, <1>2, Least
<1>4. c \in Nat /\ a + c <= MAX_SHIFT /\ 2^(a + c) # 2^a * 2^c
  BY <1>3
<1>5. 2^a \in Nat
  BY SMTT(60), <1>a, <1>4, PowersOfTwo
<1>6. c # 0
  <2> SUFFICES ASSUME c = 0 PROVE FALSE
    OBVIOUS
  <2>1. a + c = a /\ 2^c = 1
    BY SMTT(60), PowersOfTwo
  <2> QED BY SMTT(60), <1>4, <1>5, <2>1
<1>7. PICK d \in Nat : c = d + 1
  <2>1. c - 1 \in Nat /\ c = (c - 1) + 1
    BY SMTT(60), <1>4, <1>6
  <2> QED BY <2>1
<1>8. 2^(a + d) = 2^a * 2^d
  <2>1. a + d <= MAX_SHIFT /\ ~(c <= d)
    BY SMTT(60), <1>a, <1>4, <1>7
  <2>2. d \notin T
    BY <1>3, <2>1
  <2> QED BY <2>1, <2>2
<1>9. a + d \in 0..MAX_SHIFT /\ d \in 0..MAX_SHIFT /\ a + c = (a + d) + 1
  BY SMTT(60), <1>a, <1>4, <1>7
<1>10. 2^(a + c) = 2 * 2^(a + d) /\ 2^c = 2 * 2^d /\ 2^d \in Nat
  BY <1>7, <1>9, PowersOfTwo
<1>11. 2 * (2^a * 2^d) = 2^a * (2 * 2^d)
  BY SMTT(60), <1>5, <1>10
<1> QED BY <1>4, <1>8, <1>10, <1>11

\* A power of two is a positive number.
LEMMA Powers ==
  ASSUME NEW k \in 0..MAX_SHIFT
  PROVE  2^k \in Nat \ {0}
  BY PowersOfTwo

\* Of two powers of two the smaller divides the larger.
LEMMA PowDivides ==
  ASSUME NEW j \in 0..MAX_SHIFT, NEW k \in 0..MAX_SHIFT, 2^j <= 2^k
  PROVE  j <= k /\ Divides(2^j, 2^k)
<1>a. MAX_SHIFT \in Nat /\ 2^j \in Nat \ {0} /\ 2^k \in Nat \ {0}
  BY HeapAssumption, Powers
<1>1. j <= k
  <2> SUFFICES ASSUME k < j PROVE FALSE
    BY SMTT(60)
  <2>1. PICK d \in Nat : j = k + (d + 1)
    <3>1. j - k - 1 \in Nat /\ j = k + ((j - k - 1) + 1)
      BY SMTT(60)
    <3> QED BY <3>1
  <2>2. 2^j = 2^k * 2^(d + 1)
    <3>1. k \in Nat /\ d + 1 \in Nat /\ k + (d + 1) <= MAX_SHIFT
      BY SMTT(60), <1>a, <2>1
    <3> QED BY <2>1, <3>1, PowAdd
  <2>3. d \in 0..MAX_SHIFT
    BY SMTT(60), <1>a, <2>1
  <2>4. 2^(d + 1) = 2 * 2^d /\ 2^d \in Nat \ {0}
    BY <2>3, PowersOfTwo
  <2>5. PICK p \in Nat \ {0}, q \in Nat \ {0} : p = 2^k /\ q = 2^d
    BY <1>a, <2>4
  <2>6. p * (2 * q) > p
    <3>1. p * (2 * q) = p + p * (2 * q - 1) /\ 2 * q - 1 >= 1
      BY SMTT(60)
    <3>2. p * (2 * q - 1) >= p
      BY SMTT(60)
    <3> QED BY SMTT(60), <3>1, <3>2
  <2> QED BY SMTT(60), <1>a, <2>2, <2>4, <2>5, <2>6
<1>2. PICK d \in Nat : k = j + d
  <2>1. k - j \in Nat /\ k = j + (k - j)
    BY SMTT(60), <1>1
  <2> QED BY <2>1
<1>3. 2^k = 2^j * 2^d /\ 2^d \in Nat
  <2>1. j \in Nat /\ j + d <= MAX_SHIFT /\ d \in 0..MAX_SHIFT
    BY SMTT(60), <1>a, <1>2
  <2> QED BY <1>2, <2>1, PowAdd, Powers
<1>4. 2^j * 2^d = 2^d * 2^j
  BY SMTT(60), <1>a, <1>3
<1> QED BY <1>1, <1>3, <1>4 DEF Divides

\* Quotient and remainder of a number put together from them.
LEMMA PutTogether ==
  ASSUME NEW L \in Nat \ {0}, NEW f \in Nat, NEW r \in Nat, r < L
  PROVE  (f * L + r) \div L = f /\ (f * L + r) % L = r
<1>1. PICK n \in Nat : n = f * L + r
  BY SMTT(60)
<1>2. n \div L \in Int /\ n = L * (n \div L) + (n % L) /\ n % L \in 0..(L - 1)
  BY SMTT(60)
<1>3. PICK d \in Int : d = n \div L
  BY <1>2
<1>4. PICK m \in Int : m = n % L /\ 0 <= m /\ m < L
  BY SMTT(60), <1>2
<1>5. f * L + r = L * d + m
  BY <1>1, <1>2, <1>3, <1>4
<1>6. ASSUME f < d PROVE FALSE
  <2>1. (f + 1) * L <= d * L /\ (f + 1) * L = f * L + L
    BY SMTT(60), <1>6
  <2> QED BY SMTT(60), <1>4, <1>5, <2>1
<1>7. ASSUME d < f PROVE FALSE
  <2>1. (d + 1) * L <= f * L /\ (d + 1) * L = d * L + L
    BY SMTT(60), <1>7
  <2> QED BY SMTT(60), <1>4, <1>5, <2>1
<1>8. d = f
  BY SMTT(60), <1>6, <1>7
<1>9. m = r
  BY SMTT(60), <1>4, <1>5, <1>8
<1> QED BY <1>1, <1>3, <1>4, <1>8, <1>9

\* Every number has a quotient and a remainder.
LEMMA Split ==
  ASSUME NEW L \in Nat \ {0}, NEW n \in Nat
  PROVE  \E q \in Nat, r \in Nat : n = q * L + r /\ r < L /\ q = n \div L /\ r = n % L
<1>1. n \div L \in Nat /\ n % L \in Nat /\ n = L * (n \div L) + (n % L) /\ n % L < L
  BY SMTT(60)
<1>2. PICK q \in Nat : q = n \div L
  BY <1>1
<1>3. L * q = q * L
  BY SMTT(60)
<1> QED BY <1>1, <1>2, <1>3

\* Dividing is leaving no remainder.
LEMMA DividesMod ==
  ASSUME NEW d \in Nat \ {0}, NEW n \in Nat
  PROVE  Divides(d, n) <=> n % d = 0
<1>1. ASSUME Divides(d, n) PROVE n % d = 0
  <2>1. PICK m \in Nat : n = m * d
    BY <1>1 DEF Divides
  <2>2. m * d \in Nat /\ m * d + 0 = m * d
    BY SMTT(60)
  <2>3. (m * d + 0) % d = 0
    BY SMTT(60), PutTogether
  <2> QED BY <2>1, <2>2, <2>3
<1>2. ASSUME n % d = 0 PROVE Divides(d, n)
  <2>1. PICK q \in Nat : n = q * d + 0
    BY <1>2, Split
  <2>2. q * d \in Nat
    BY SMTT(60)
  <2> QED BY SMTT(60), <2>1, <2>2 DEF Divides
<1> QED BY <1>1, <1>2

\* Dividing is transitive.
LEMMA DividesTrans ==
  ASSUME NEW a \in Nat, NEW b \in Nat, NEW c \in Nat, Divides(a, b), Divides(b, c)
  PROVE  Divides(a, c)
<1>1. PICK m \in Nat, n \in Nat : b = m * a /\ c = n * b
  BY DEF Divides
<1>2. n * (m * a) = (n * m) * a /\ n * m \in Nat
  BY SMTT(60)
<1> QED BY <1>1, <1>2 DEF Divides

\* What divides two numbers divides their sum.
LEMMA DividesSum ==
  ASSUME NEW a \in Nat, NEW b \in Nat, NEW c \in Nat, Divides(a, b), Divides(a, c)
  PROVE  Divides(a, b + c)
<1>1. PICK m \in Nat, n \in Nat : b = m * a /\ c = n * a
  BY DEF Divides
<1>2. m * a + n * a = (m + n) * a /\ m + n \in Nat
  BY SMTT(60)
<1> QED BY <1>1, <1>2 DEF Divides

\* Multiples compare as what they are multiples of.
LEMMA Scales ==
  ASSUME NEW F_ \in Nat \ {0}, NEW a \in Int, NEW b \in Int
  PROVE  /\ a * F_ <= b * F_ <=> a <= b
         /\ a * F_ < b * F_ <=> a < b
         /\ a * F_ \in Int
  BY SMTT(60)

\* The sizes: an object divides a frame, a frame the place memory is mapped at.
LEMMA Sizes ==
  /\ FRAME_SIZE \in Nat \ {0} /\ HHDM_OFFSET \in Nat /\ TotalFrames \in Nat /\ HEADER_SIZE \in Nat \ {0}
  /\ \A b \in Buckets : OBJ_SIZE(b) \in Nat \ {0} /\ Divides(OBJ_SIZE(b), FRAME_SIZE)
  /\ \A k \in F!Orders : 2^k \in Nat \ {0} /\ k \in Nat /\ Divides(2^k * FRAME_SIZE, HHDM_OFFSET)
  /\ Divides(FRAME_SIZE, HHDM_OFFSET)
  /\ 2^0 = 1 /\ 0 \in F!Orders
<1>1. /\ MAX_SHIFT \in Nat /\ MAX_ORDER \in Nat /\ MIN_BUCKET_SHIFT \in Nat /\ MAX_BUCKET_SHIFT \in Nat
      /\ MIN_BUCKET_SHIFT <= MAX_BUCKET_SHIFT /\ HHDM_OFFSET \in Nat /\ TotalFrames \in Nat
      /\ HEADER_SIZE \in Nat \ {0} /\ 2^0 = 1
  BY HeapAssumption, PowersOfTwo
<1>2. PICK s \in MAX_BUCKET_SHIFT..(MAX_SHIFT - MAX_ORDER) : FRAME_SIZE = 2^s
  BY HeapAssumption
<1>3. s \in 0..MAX_SHIFT /\ MAX_ORDER \in 0..MAX_SHIFT /\ \A k \in F!Orders : k \in 0..MAX_SHIFT /\ k \in Nat
  BY SMTT(60), <1>1, <1>2 DEF F!Orders
<1>4. FRAME_SIZE \in Nat \ {0} /\ 2^MAX_ORDER \in Nat \ {0} /\ \A k \in F!Orders : 2^k \in Nat \ {0}
  BY <1>2, <1>3, Powers
<1>5. ASSUME NEW b \in Buckets PROVE OBJ_SIZE(b) \in Nat \ {0} /\ Divides(OBJ_SIZE(b), FRAME_SIZE)
  <2>1. PICK e \in Nat : e = MIN_BUCKET_SHIFT + b /\ e <= s /\ e \in 0..MAX_SHIFT
    BY SMTT(60), <1>1, <1>2, <1>3 DEF Buckets
  <2>2. PICK d \in Nat : s = e + d
    <3>1. s - e \in Nat /\ s = e + (s - e)
      BY SMTT(60), <1>2, <1>3, <2>1
    <3> QED BY <3>1
  <2>3. 2^s = 2^e * 2^d /\ 2^d \in Nat /\ 2^e \in Nat \ {0}
    <3>1. e + d <= MAX_SHIFT /\ d \in 0..MAX_SHIFT
      BY SMTT(60), <1>1, <1>3, <2>1, <2>2
    <3> QED BY <2>1, <2>2, <3>1, PowAdd, Powers
  <2>4. 2^e * 2^d = 2^d * 2^e
    BY SMTT(60), <2>3
  <2> QED BY <1>2, <2>1, <2>3, <2>4 DEF Divides, OBJ_SIZE
<1>6. Divides(FRAME_SIZE * 2^MAX_ORDER, HHDM_OFFSET)
  <2>1. FRAME_SIZE * 2^MAX_ORDER \in Nat \ {0}
    BY SMTT(60), <1>4
  <2> QED BY <1>1, <2>1, DividesMod, HeapAssumption
<1>7. ASSUME NEW k \in F!Orders PROVE Divides(2^k * FRAME_SIZE, HHDM_OFFSET)
  <2>1. PICK d \in Nat : MAX_ORDER = k + d
    <3>1. MAX_ORDER - k \in Nat /\ MAX_ORDER = k + (MAX_ORDER - k)
      BY SMTT(60), <1>1 DEF F!Orders
    <3> QED BY <3>1
  <2>2. 2^MAX_ORDER = 2^k * 2^d /\ 2^d \in Nat
    <3>1. k \in Nat /\ k + d <= MAX_SHIFT /\ d \in 0..MAX_SHIFT
      BY SMTT(60), <1>1, <1>3, <2>1
    <3> QED BY <2>1, <3>1, PowAdd, Powers
  <2>3. FRAME_SIZE * (2^k * 2^d) = 2^d * (2^k * FRAME_SIZE) /\ 2^k * FRAME_SIZE \in Nat
    BY SMTT(60), <1>4, <2>2
  <2>4. Divides(2^k * FRAME_SIZE, FRAME_SIZE * 2^MAX_ORDER)
    BY <2>2, <2>3 DEF Divides
  <2>5. FRAME_SIZE * 2^MAX_ORDER \in Nat
    BY SMTT(60), <1>4
  <2> QED BY <1>1, <1>6, <2>3, <2>4, <2>5, DividesTrans
<1>8. 0 \in F!Orders
  BY SMTT(60), <1>1 DEF F!Orders
<1>9. Divides(FRAME_SIZE, HHDM_OFFSET)
  <2>1. 2^0 * FRAME_SIZE = FRAME_SIZE
    BY SMTT(60), <1>1, <1>4
  <2> QED BY <1>7, <1>8, <2>1
<1> QED BY <1>1, <1>3, <1>4, <1>5, <1>7, <1>8, <1>9

\* What the two ways to choose a number do.
LEMMA Largest ==
  ASSUME NEW a \in Nat, NEW b \in Nat, NEW c \in Nat
  PROVE  /\ Maximum({a, b, c}) \in Nat /\ a <= Maximum({a, b, c}) /\ b <= Maximum({a, b, c})
         /\ Maximum({a, b}) \in Nat /\ a <= Maximum({a, b}) /\ b <= Maximum({a, b})
<1>1. \E n \in {a, b, c} : \A m \in {a, b, c} : m <= n
  <2>1. CASE a <= b /\ b <= c
    BY SMTT(60), <2>1
  <2>2. CASE a <= c /\ c <= b
    BY SMTT(60), <2>2
  <2>3. CASE b <= a /\ a <= c
    BY SMTT(60), <2>3
  <2>4. CASE b <= c /\ c <= a
    BY SMTT(60), <2>4
  <2>5. CASE c <= a /\ a <= b
    BY SMTT(60), <2>5
  <2>6. CASE c <= b /\ b <= a
    BY SMTT(60), <2>6
  <2> QED BY SMTT(60), <2>1, <2>2, <2>3, <2>4, <2>5, <2>6
<1>2. \E n \in {a, b} : \A m \in {a, b} : m <= n
  BY SMTT(60)
<1>3. Maximum({a, b, c}) \in {a, b, c} /\ \A m \in {a, b, c} : m <= Maximum({a, b, c})
  BY <1>1 DEF Maximum
<1>4. Maximum({a, b}) \in {a, b} /\ \A m \in {a, b} : m <= Maximum({a, b})
  BY <1>2 DEF Maximum
<1> QED BY <1>3, <1>4

\* A set of numbers that is not empty has a least one, and Minimum is it.
LEMMA Smallest ==
  ASSUME NEW T \in SUBSET Nat, T # {}
  PROVE  Minimum(T) \in T
<1>1. \E x \in T : \A y \in T : x <= y
  BY Least
<1> QED BY <1>1 DEF Minimum

\* An object of the bucket of a layout holds it, at its alignment.
LEMMA SmallFits ==
  ASSUME NEW L \in Layouts, bucket_for(L) # None
  PROVE  /\ bucket_for(L) \in Buckets /\ L[1] \in Nat \ {0} /\ L[2] \in Nat \ {0}
         /\ L[1] <= OBJ_SIZE(bucket_for(L)) /\ Divides(L[2], OBJ_SIZE(bucket_for(L)))
<1> DEFINE P == 2^MIN_BUCKET_SHIFT
           need == Maximum({L[1], L[2], P})
           T == {b \in Buckets : OBJ_SIZE(b) >= need}
<1>1. /\ MAX_SHIFT \in Nat /\ MAX_ORDER \in Nat /\ MIN_BUCKET_SHIFT \in Nat /\ MAX_BUCKET_SHIFT \in Nat
      /\ MIN_BUCKET_SHIFT <= MAX_BUCKET_SHIFT /\ MAX_BUCKET_SHIFT <= MAX_SHIFT
  BY SMTT(60), HeapAssumption
<1>2. PICK j \in 0..MAX_SHIFT : L[2] = 2^j
  BY LayoutAssumption
<1>3. L[1] \in Nat \ {0} /\ L[2] \in Nat \ {0} /\ P \in Nat
  BY SMTT(60), <1>1, <1>2, LayoutAssumption, Powers
<1>4. need \in Nat /\ L[1] <= need /\ L[2] <= need
  BY <1>3, Largest
<1> HIDE DEF need
<1>5. ~(need > 2^MAX_BUCKET_SHIFT) /\ bucket_for(L) = Minimum(T)
  BY DEF bucket_for, need
<1>6. PICK m \in Nat : m = MAX_BUCKET_SHIFT - MIN_BUCKET_SHIFT /\ m \in Buckets /\ MIN_BUCKET_SHIFT + m = MAX_BUCKET_SHIFT
  BY SMTT(60), <1>1 DEF Buckets
<1>7. OBJ_SIZE(m) >= need
  <2>1. OBJ_SIZE(m) = 2^MAX_BUCKET_SHIFT
    BY <1>6 DEF OBJ_SIZE
  <2>2. 2^MAX_BUCKET_SHIFT \in Nat
    BY SMTT(60), <1>1, Powers
  <2> QED BY SMTT(60), <1>4, <1>5, <2>1, <2>2
<1>8. T \in SUBSET Nat /\ T # {}
  <2>1. Buckets \subseteq Nat
    BY SMTT(60), <1>1 DEF Buckets
  <2> QED BY <1>6, <1>7, <2>1
<1>9. PICK b \in Buckets : b = bucket_for(L) /\ OBJ_SIZE(b) >= need
  BY <1>5, <1>8, Smallest
<1>10. OBJ_SIZE(b) \in Nat
  BY <1>9, Sizes
<1>11. L[1] <= OBJ_SIZE(b) /\ L[2] <= OBJ_SIZE(b)
  BY SMTT(60), <1>3, <1>4, <1>9, <1>10
<1>12. PICK e \in 0..MAX_SHIFT : e = MIN_BUCKET_SHIFT + b
  BY SMTT(60), <1>1, <1>9 DEF Buckets
<1>13. Divides(L[2], OBJ_SIZE(b))
  BY <1>2, <1>11, <1>12, PowDivides DEF OBJ_SIZE
<1> QED BY <1>3, <1>9, <1>11, <1>13

\* A block of the order of a large layout holds it, at its alignment.
LEMMA LargeFits ==
  ASSUME NEW L \in Layouts, order_for_large(L) # None
  PROVE  /\ order_for_large(L) \in F!Orders /\ L[1] \in Nat \ {0} /\ L[2] \in Nat \ {0}
         /\ L[1] <= 2^order_for_large(L) * FRAME_SIZE
         /\ Divides(L[2], 2^order_for_large(L) * FRAME_SIZE)
<1> DEFINE need == Maximum({L[1], L[2]})
           fits == {k \in 0..MAX_ORDER : 2^k * FRAME_SIZE >= need}
<1>1. MAX_SHIFT \in Nat /\ MAX_ORDER \in Nat /\ MAX_BUCKET_SHIFT \in Nat
  BY HeapAssumption
<1>2. PICK j \in 0..MAX_SHIFT : L[2] = 2^j
  BY LayoutAssumption
<1>3. L[1] \in Nat \ {0} /\ L[2] \in Nat \ {0}
  BY <1>2, LayoutAssumption, Powers
<1>4. need \in Nat /\ L[1] <= need /\ L[2] <= need
  BY <1>3, Largest
<1> HIDE DEF need
<1>5. fits # {} /\ order_for_large(L) = Minimum(fits)
  BY DEF order_for_large, need
<1>6. fits \in SUBSET Nat
  BY SMTT(60), <1>1
<1>7. PICK k \in 0..MAX_ORDER : k = order_for_large(L) /\ 2^k * FRAME_SIZE >= need
  BY <1>5, <1>6, Smallest
<1>8. PICK s \in MAX_BUCKET_SHIFT..(MAX_SHIFT - MAX_ORDER) : FRAME_SIZE = 2^s
  BY HeapAssumption
<1>9. k \in F!Orders /\ 2^k \in Nat \ {0} /\ FRAME_SIZE \in Nat \ {0}
  BY <1>7, Sizes DEF F!Orders
<1>10. PICK e \in 0..MAX_SHIFT : e = k + s /\ k \in Nat /\ s \in Nat /\ k + s <= MAX_SHIFT
  BY SMTT(60), <1>1, <1>7, <1>8
<1>11. 2^e = 2^k * FRAME_SIZE /\ 2^e \in Nat
  BY <1>8, <1>10, PowAdd, Powers
<1>12. L[1] <= 2^e /\ L[2] <= 2^e
  BY SMTT(60), <1>3, <1>4, <1>7, <1>11
<1>13. Divides(L[2], 2^e)
  BY <1>2, <1>12, PowDivides
<1> QED BY <1>3, <1>7, <1>9, <1>11, <1>12, <1>13

\* Where a frame is mapped.
LEMMA FrameAt ==
  ASSUME NEW f \in Nat
  PROVE  /\ phys_to_virt(f) \in Nat /\ phys_to_virt(f) = f * FRAME_SIZE + HHDM_OFFSET
         /\ virt_to_phys(phys_to_virt(f)) \div FRAME_SIZE = f
<1>1. FRAME_SIZE \in Nat \ {0} /\ HHDM_OFFSET \in Nat
  BY Sizes
<1>2. PICK n \in Nat : n = f * FRAME_SIZE
  BY SMTT(60), <1>1
<1>3. phys_to_virt(f) = n + HHDM_OFFSET /\ virt_to_phys(phys_to_virt(f)) = n
  BY SMTT(60), <1>1, <1>2 DEF phys_to_virt, virt_to_phys
<1>4. n \div FRAME_SIZE = f
  <2>1. (f * FRAME_SIZE + 0) \div FRAME_SIZE = f
    BY SMTT(60), <1>1, PutTogether
  <2>2. f * FRAME_SIZE + 0 = n
    BY SMTT(60), <1>2
  <2> QED BY <2>1, <2>2
<1> QED BY SMTT(60), <1>1, <1>2, <1>3, <1>4

\* SLAB_MASK leads from any byte of a frame to the frame.
LEMMA InFrame ==
  ASSUME NEW f \in Nat, NEW x \in FrameBytes(f)
  PROVE  SlabOf(x) = f /\ x \in Nat
<1>1. FRAME_SIZE \in Nat \ {0} /\ HHDM_OFFSET \in Nat /\ phys_to_virt(f) \in Nat
      /\ phys_to_virt(f) = f * FRAME_SIZE + HHDM_OFFSET
  BY Sizes, FrameAt
<1>2. PICK H \in Nat : HHDM_OFFSET = H * FRAME_SIZE
  BY Sizes DEF Divides
<1>3. x \in phys_to_virt(f)..(phys_to_virt(f) + FRAME_SIZE - 1)
  BY DEF FrameBytes, Bytes
<1>4. PICK r \in Nat : x = phys_to_virt(f) + r /\ r < FRAME_SIZE
  <2>1. x - phys_to_virt(f) \in Nat /\ x = phys_to_virt(f) + (x - phys_to_virt(f)) /\ x - phys_to_virt(f) < FRAME_SIZE
    BY SMTT(60), <1>1, <1>3
  <2> QED BY <2>1
<1>5. PICK n \in Nat : n = f * FRAME_SIZE
  BY SMTT(60), <1>1
<1>6. PICK g \in Nat : g = f + H
  BY SMTT(60)
<1>7. g * FRAME_SIZE = n + HHDM_OFFSET /\ g * FRAME_SIZE \in Nat
  BY SMTT(60), <1>1, <1>2, <1>5, <1>6
<1>8. x = g * FRAME_SIZE + r
  BY <1>1, <1>4, <1>5, <1>7
<1>9. x \div FRAME_SIZE = g
  BY <1>1, <1>4, <1>8, PutTogether
<1>10. virt_to_phys((x \div FRAME_SIZE) * FRAME_SIZE) = n
  BY SMTT(60), <1>1, <1>7, <1>9 DEF virt_to_phys
<1>11. n \div FRAME_SIZE = f
  <2>1. (f * FRAME_SIZE + 0) \div FRAME_SIZE = f
    BY SMTT(60), <1>1, PutTogether
  <2>2. f * FRAME_SIZE + 0 = n
    BY SMTT(60), <1>5
  <2> QED BY <2>1, <2>2
<1>12. x \in Nat
  BY SMTT(60), <1>1, <1>4
<1> QED BY <1>10, <1>11, <1>12 DEF SlabOf

\* A frame begins with its first byte.
LEMMA FirstByte ==
  ASSUME NEW f \in Nat
  PROVE  phys_to_virt(f) \in FrameBytes(f) /\ SlabOf(phys_to_virt(f)) = f
<1>1. FRAME_SIZE \in Nat \ {0} /\ phys_to_virt(f) \in Nat
  BY Sizes, FrameAt
<1>2. phys_to_virt(f) \in FrameBytes(f)
  BY SMTT(60), <1>1 DEF FrameBytes, Bytes
<1> QED BY <1>2, InFrame

\* The bytes of a block are those of its frames.
LEMMA InBlock ==
  ASSUME NEW f \in Nat, NEW k \in F!Orders, NEW x \in Bytes(phys_to_virt(f), 2^k * FRAME_SIZE)
  PROVE  SlabOf(x) \in F!Block(f, k) /\ x \in FrameBytes(SlabOf(x)) /\ SlabOf(x) \in Nat
<1>1. FRAME_SIZE \in Nat \ {0} /\ HHDM_OFFSET \in Nat /\ phys_to_virt(f) \in Nat
      /\ phys_to_virt(f) = f * FRAME_SIZE + HHDM_OFFSET
  BY Sizes, FrameAt
<1>2. PICK p \in Nat \ {0} : p = 2^k
  BY Sizes
<1>3. PICK z \in Nat : z = p * FRAME_SIZE
  BY SMTT(60), <1>1
<1>4. PICK y \in Nat : x = phys_to_virt(f) + y /\ y < z
  <2>1. x \in phys_to_virt(f)..(phys_to_virt(f) + z - 1)
    BY <1>2, <1>3 DEF Bytes
  <2>2. x - phys_to_virt(f) \in Nat /\ x = phys_to_virt(f) + (x - phys_to_virt(f)) /\ x - phys_to_virt(f) < z
    BY SMTT(60), <1>1, <2>1
  <2> QED BY <2>2
<1>5. PICK q \in Nat, r \in Nat : y = q * FRAME_SIZE + r /\ r < FRAME_SIZE
  BY <1>1, Split
<1>6. q < p
  <2>1. q * FRAME_SIZE \in Nat
    BY SMTT(60), <1>1
  <2>2. q * FRAME_SIZE < p * FRAME_SIZE
    BY SMTT(60), <1>1, <1>3, <1>4, <1>5, <2>1
  <2> QED BY SMTT(60), <1>1, <2>2, Scales
<1>7. PICK g \in Nat : g = f + q
  BY SMTT(60)
<1>8. phys_to_virt(g) = phys_to_virt(f) + q * FRAME_SIZE /\ phys_to_virt(g) \in Nat
  <2>1. (f + q) * FRAME_SIZE = f * FRAME_SIZE + q * FRAME_SIZE /\ f * FRAME_SIZE \in Nat /\ q * FRAME_SIZE \in Nat
    BY SMTT(60), <1>1
  <2> QED BY SMTT(60), <1>1, <1>7, <2>1, FrameAt
<1>9. x = phys_to_virt(g) + r
  <2>1. q * FRAME_SIZE \in Nat
    BY SMTT(60), <1>1
  <2> QED BY SMTT(60), <1>1, <1>4, <1>5, <1>8, <2>1
<1>10. x \in FrameBytes(g)
  BY SMTT(60), <1>1, <1>5, <1>8, <1>9 DEF FrameBytes, Bytes
<1>11. g \in F!Block(f, k)
  BY SMTT(60), <1>2, <1>6, <1>7 DEF F!Block
<1> QED BY <1>10, <1>11, InFrame

\* An object of a slab: behind the header, aligned, and with room to the end of the frame.
LEMMA ObjectAt ==
  ASSUME NEW f \in Nat, NEW b \in Buckets
  PROVE  \E D, n \in Nat :
           /\ n > 0 /\ HEADER_SIZE <= D * OBJ_SIZE(b) /\ (D + n) * OBJ_SIZE(b) <= FRAME_SIZE
           /\ DOMAIN ObjectsOf(f, b) = 1..n
           /\ \A i \in 1..n : ObjectsOf(f, b)[i] = phys_to_virt(f) + (D + (i - 1)) * OBJ_SIZE(b)
<1>1. FRAME_SIZE \in Nat \ {0} /\ HEADER_SIZE \in Nat \ {0} /\ phys_to_virt(f) \in Nat
  BY Sizes, FrameAt
<1>2. PICK s \in Nat \ {0} : s = OBJ_SIZE(b)
  BY Sizes
<1>3. PICK h \in Nat : h = HEADER_SIZE + s - 1
  BY SMTT(60), <1>1
<1>4. PICK D \in Nat, r \in Nat : h = D * s + r /\ r < s /\ D = h \div s
  BY Split
<1>5. PICK off \in Nat : off = D * s
  BY SMTT(60)
<1>6. off >= HEADER_SIZE
  BY SMTT(60), <1>1, <1>3, <1>4, <1>5
<1>7. data_off(b) = off
  BY <1>2, <1>3, <1>4, <1>5 DEF data_off, next_multiple_of
<1>8. (FRAME_SIZE - off) \div s > 0
  BY <1>2, <1>7, SlabAssumption
<1>9. FRAME_SIZE - off \in Nat
  <2> SUFFICES ASSUME FRAME_SIZE - off < 0 PROVE FALSE
    BY SMTT(60), <1>1
  <2>1. PICK d \in Int : d = FRAME_SIZE - off /\ d < 0
    BY SMTT(60), <1>1
  <2>2. d \div s > 0
    BY <1>8, <2>1
  <2>3. d = s * (d \div s) + (d % s) /\ d % s >= 0 /\ d \div s \in Int
    BY SMTT(60)
  <2>4. PICK q \in Int : q = d \div s /\ q > 0
    BY <2>2, <2>3
  <2>5. PICK v \in Int : v = s * q /\ v > 0
    BY SMTT(60), <2>4
  <2>6. PICK u \in Int : u = d % s /\ u >= 0
    BY SMTT(60), <2>3
  <2>7. d = v + u
    BY <2>3, <2>4, <2>5, <2>6
  <2> QED BY SMTT(60), <2>1, <2>5, <2>6, <2>7
<1>10. PICK n \in Nat, t \in Nat : FRAME_SIZE - off = n * s + t /\ n = (FRAME_SIZE - off) \div s
  BY <1>9, Split
<1>11. n > 0
  BY <1>8, <1>10
<1>12. (D + n) * s <= FRAME_SIZE
  <2>1. (D + n) * s = D * s + n * s /\ n * s \in Nat
    BY SMTT(60)
  <2> QED BY SMTT(60), <1>1, <1>5, <1>10, <2>1
<1>13. DOMAIN ObjectsOf(f, b) = 1..n
  BY <1>2, <1>7, <1>10 DEF ObjectsOf
<1>14. ASSUME NEW i \in 1..n PROVE ObjectsOf(f, b)[i] = phys_to_virt(f) + (D + (i - 1)) * s
  <2>1. ObjectsOf(f, b)[i] = phys_to_virt(f) + off + (i - 1) * s
    BY <1>2, <1>7, <1>10 DEF ObjectsOf
  <2>2. PICK j \in Nat : j = i - 1
    BY SMTT(60)
  <2>3. (D + j) * s = off + j * s /\ j * s \in Nat
    BY SMTT(60), <1>5
  <2> QED BY SMTT(60), <1>1, <2>1, <2>2, <2>3
<1> QED BY <1>2, <1>5, <1>6, <1>11, <1>12, <1>13, <1>14

\* The objects of a fresh slab: apart from each other and from the header, in
\* the frame, and aligned to their size.
LEMMA Objects ==
  ASSUME NEW f \in Nat, NEW b \in Buckets
  PROVE  /\ ObjectsOf(f, b) \in Seq(Nat) /\ ObjectsOf(f, b) # <<>> /\ IsInjective(ObjectsOf(f, b))
         /\ Bytes(phys_to_virt(f), HEADER_SIZE) \subseteq FrameBytes(f)
         /\ \A x \in Range(ObjectsOf(f, b)) :
              /\ x \in Nat /\ SlabOf(x) = f /\ Divides(OBJ_SIZE(b), x)
              /\ Bytes(x, OBJ_SIZE(b)) \subseteq FrameBytes(f)
              /\ Bytes(x, OBJ_SIZE(b)) \cap Bytes(phys_to_virt(f), HEADER_SIZE) = {}
         /\ \A x, y \in Range(ObjectsOf(f, b)) : x # y => Bytes(x, OBJ_SIZE(b)) \cap Bytes(y, OBJ_SIZE(b)) = {}
<1>1. /\ FRAME_SIZE \in Nat \ {0} /\ HEADER_SIZE \in Nat \ {0} /\ phys_to_virt(f) \in Nat /\ HHDM_OFFSET \in Nat
      /\ phys_to_virt(f) = f * FRAME_SIZE + HHDM_OFFSET
  BY Sizes, FrameAt
<1>2. PICK s \in Nat \ {0} : s = OBJ_SIZE(b)
  BY Sizes
<1>3. PICK D, n \in Nat :
        /\ n > 0 /\ HEADER_SIZE <= D * s /\ (D + n) * s <= FRAME_SIZE
        /\ DOMAIN ObjectsOf(f, b) = 1..n
        /\ \A i \in 1..n : ObjectsOf(f, b)[i] = phys_to_virt(f) + (D + (i - 1)) * s
  <2>1. PICK D, n \in Nat :
          /\ n > 0 /\ HEADER_SIZE <= D * OBJ_SIZE(b) /\ (D + n) * OBJ_SIZE(b) <= FRAME_SIZE
          /\ DOMAIN ObjectsOf(f, b) = 1..n
          /\ \A i \in 1..n : ObjectsOf(f, b)[i] = phys_to_virt(f) + (D + (i - 1)) * OBJ_SIZE(b)
    BY ObjectAt
  <2> QED BY <1>2, <2>1
<1>4. PICK o : o = ObjectsOf(f, b)
  OBVIOUS
<1>5. PICK p \in Nat : p = phys_to_virt(f)
  BY <1>1
<1>6. DOMAIN o = 1..n /\ \A i \in 1..n : o[i] = p + (D + (i - 1)) * s
  BY <1>3, <1>4, <1>5
<1>7. ASSUME NEW i \in 1..n
      PROVE  \E j \in Nat : /\ j = D + (i - 1) /\ D <= j /\ o[i] = p + j * s /\ j * s \in Nat
                            /\ D * s <= j * s /\ j * s + s <= FRAME_SIZE
  <2>1. PICK j \in Nat : j = D + (i - 1) /\ D <= j /\ j + 1 <= D + n
    BY SMTT(60), <1>3
  <2>2. o[i] = p + j * s
    BY <1>6, <2>1
  <2>3. (j + 1) * s <= (D + n) * s /\ D * s <= j * s
    BY SMTT(60), <2>1, Scales
  <2>4. (j + 1) * s = j * s + s /\ j * s \in Nat /\ (D + n) * s \in Nat
    BY SMTT(60)
  <2> QED BY SMTT(60), <1>1, <1>3, <2>1, <2>2, <2>3, <2>4
<1>8. ASSUME NEW i \in DOMAIN o PROVE o[i] \in Nat
  <2>1. PICK j \in Nat : o[i] = p + j * s /\ j * s \in Nat
    BY <1>6, <1>7
  <2> QED BY SMTT(60), <2>1
<1>9. o \in Seq(Nat) /\ o # <<>>
  <2>1. o \in [1..n -> Nat]
    BY <1>4, <1>6, <1>8 DEF ObjectsOf
  <2>2. 1 \in DOMAIN o
    BY SMTT(60), <1>3, <1>6
  <2> QED BY SMTT(60), <2>1, <2>2
<1>10. ASSUME NEW i \in 1..n, NEW k \in 1..n, i < k PROVE o[i] + s <= o[k]
  <2>1. PICK j \in Nat : j = D + (i - 1) /\ o[i] = p + j * s /\ j * s \in Nat
    BY <1>7
  <2>2. PICK l \in Nat : l = D + (k - 1) /\ o[k] = p + l * s /\ l * s \in Nat
    BY <1>7
  <2>3. j + 1 <= l
    BY SMTT(60), <1>10, <2>1, <2>2
  <2>4. (j + 1) * s <= l * s /\ (j + 1) * s = j * s + s
    BY SMTT(60), <2>3, Scales
  <2> QED BY SMTT(60), <2>1, <2>2, <2>4
<1>11. IsInjective(o)
  <2>1. ASSUME NEW i \in 1..n, NEW k \in 1..n, o[i] = o[k] PROVE i = k
    <3>1. o[i] \in Nat
      BY <1>6, <1>8
    <3>2. ~(i < k) /\ ~(k < i)
      BY SMTT(60), <1>10, <2>1, <3>1
    <3> QED BY SMTT(60), <3>2
  <2> QED BY <1>6, <2>1 DEF IsInjective
<1>12. ASSUME NEW i \in 1..n
       PROVE  /\ Bytes(o[i], s) \subseteq FrameBytes(f)
              /\ Bytes(o[i], s) \cap Bytes(p, HEADER_SIZE) = {}
              /\ Divides(s, o[i]) /\ o[i] \in Bytes(o[i], s) /\ o[i] \in Nat
  <2>1. PICK j \in Nat : /\ o[i] = p + j * s /\ j * s \in Nat
                         /\ D * s <= j * s /\ j * s + s <= FRAME_SIZE
    BY <1>7
  <2>2. PICK m \in Nat : m = j * s /\ o[i] = p + m /\ HEADER_SIZE <= m /\ m + s <= FRAME_SIZE
    <3>1. D * s \in Nat
      BY SMTT(60)
    <3>2. PICK m \in Nat : m = j * s
      BY <2>1
    <3>3. HEADER_SIZE \in Nat /\ HEADER_SIZE <= D * s /\ D * s <= m
      BY <1>1, <1>3, <2>1, <3>2
    <3>4. HEADER_SIZE <= m
      BY SMTT(60), <3>1, <3>3
    <3> QED BY <2>1, <3>2, <3>4
  <2>3. Bytes(o[i], s) \subseteq FrameBytes(f)
    BY SMTT(60), <1>1, <1>5, <2>2 DEF Bytes, FrameBytes
  <2>4. Bytes(o[i], s) \cap Bytes(p, HEADER_SIZE) = {}
    BY SMTT(60), <1>1, <2>2 DEF Bytes
  <2>5. Divides(s, p)
    <3>1. Divides(s, FRAME_SIZE) /\ Divides(FRAME_SIZE, HHDM_OFFSET)
      BY <1>2, Sizes
    <3>2. PICK x \in Nat : x = f * FRAME_SIZE
      BY SMTT(60), <1>1
    <3>3. Divides(FRAME_SIZE, x)
      BY <3>2 DEF Divides
    <3>4. Divides(s, x) /\ Divides(s, HHDM_OFFSET)
      BY <1>1, <3>1, <3>3, DividesTrans
    <3> QED BY <1>1, <1>5, <3>2, <3>4, DividesSum
  <2>6. Divides(s, m)
    BY <2>2 DEF Divides
  <2>7. Divides(s, o[i])
    BY <2>2, <2>5, <2>6, DividesSum
  <2>8. o[i] \in Bytes(o[i], s) /\ o[i] \in Nat
    BY SMTT(60), <2>2 DEF Bytes
  <2> QED BY <2>3, <2>4, <2>7, <2>8
<1>13. ASSUME NEW x \in Range(o)
       PROVE  /\ x \in Nat /\ SlabOf(x) = f /\ Divides(s, x) /\ Bytes(x, s) \subseteq FrameBytes(f)
              /\ Bytes(x, s) \cap Bytes(p, HEADER_SIZE) = {}
  <2>1. PICK i \in 1..n : x = o[i]
    BY <1>6 DEF Range
  <2>2. x \in FrameBytes(f)
    BY <1>12, <2>1
  <2> QED BY <1>12, <2>1, <2>2, InFrame
<1>14. ASSUME NEW x \in Range(o), NEW y \in Range(o), x # y PROVE Bytes(x, s) \cap Bytes(y, s) = {}
  <2>1. PICK i \in 1..n, k \in 1..n : x = o[i] /\ y = o[k]
    BY <1>6 DEF Range
  <2>2. x \in Nat /\ y \in Nat
    BY <1>12, <2>1
  <2>3. i < k \/ k < i
    BY SMTT(60), <1>14, <2>1
  <2>4. x + s <= y \/ y + s <= x
    BY <1>10, <2>1, <2>3
  <2> QED BY SMTT(60), <2>2, <2>4 DEF Bytes
<1>15. Bytes(p, HEADER_SIZE) \subseteq FrameBytes(f)
  <2>1. D * s <= (D + n) * s /\ D * s \in Nat /\ (D + n) * s \in Nat
    <3>1. (D + n) * s = D * s + n * s /\ D * s \in Nat /\ n * s \in Nat
      BY SMTT(60)
    <3> QED BY SMTT(60), <3>1
  <2>2. HEADER_SIZE <= FRAME_SIZE
    BY SMTT(60), <1>1, <1>3, <2>1
  <2> QED BY SMTT(60), <1>1, <1>5, <2>2 DEF Bytes, FrameBytes
<1> QED BY <1>2, <1>4, <1>5, <1>9, <1>11, <1>13, <1>14, <1>15

(***************************************************************************)
(* Stacks threaded through memory: what is taken from the head, what is    *)
(* put there.                                                              *)
(***************************************************************************)
LEMMA Popped ==
  ASSUME NEW S, NEW s \in Seq(S), s # <<>>
  PROVE  /\ Tail(s) \in Seq(S) /\ Head(s) \in Range(s) /\ Head(s) \in S
         /\ Range(s) = Range(Tail(s)) \cup {Head(s)}
         /\ IsInjective(s) => IsInjective(Tail(s)) /\ Head(s) \notin Range(Tail(s))
<1>1. Tail(s) \in Seq(S)
  BY SMTT(60)
<1>2. PICK t \in Seq(S) : t = Tail(s)
  BY <1>1
<1>3. PICK n \in Nat : n = Len(t) /\ Len(s) = n + 1 /\ DOMAIN t = 1..n /\ DOMAIN s = 1..(n + 1)
  BY SMTT(60), <1>2
<1>4. \A i \in 1..n : t[i] = s[i + 1] /\ i + 1 \in 1..(n + 1)
  BY SMTT(60), <1>2, <1>3
<1>5. Head(s) = s[1] /\ 1 \in DOMAIN s /\ s[1] \in S
  BY SMTT(60), <1>3
<1>6. \A i \in 1..(n + 1) : i # 1 => i - 1 \in 1..n /\ s[i] = t[i - 1]
  <2> SUFFICES ASSUME NEW i \in 1..(n + 1), i # 1 PROVE i - 1 \in 1..n /\ s[i] = t[i - 1]
    OBVIOUS
  <2>1. PICK j \in 1..n : i = j + 1 /\ i - 1 = j
    <3>1. i - 1 \in 1..n /\ i = (i - 1) + 1
      BY SMTT(60), <1>3
    <3> QED BY <3>1
  <2> QED BY <1>4, <2>1
<1>7. Range(s) = Range(t) \cup {s[1]}
  <2>1. \A x \in Range(s) : x \in Range(t) \cup {s[1]}
    BY <1>3, <1>6 DEF Range
  <2>2. \A x \in Range(t) : x \in Range(s)
    BY <1>3, <1>4 DEF Range
  <2>3. s[1] \in Range(s)
    BY <1>5 DEF Range
  <2> QED BY <2>1, <2>2, <2>3
<1>8. ASSUME IsInjective(s) PROVE IsInjective(t) /\ s[1] \notin Range(t)
  <2>1. ASSUME NEW i \in 1..n, NEW j \in 1..n, t[i] = t[j] PROVE i = j
    <3>1. i + 1 = j + 1
      BY <1>3, <1>4, <1>8, <2>1 DEF IsInjective
    <3> QED BY SMTT(60), <3>1
  <2>2. ASSUME NEW i \in 1..n, t[i] = s[1] PROVE FALSE
    <3>1. i + 1 = 1
      BY <1>3, <1>4, <1>5, <1>8, <2>2 DEF IsInjective
    <3> QED BY SMTT(60), <3>1
  <2> QED BY <1>3, <2>1, <2>2 DEF IsInjective, Range
<1>9. s[1] \in Range(s)
  BY <1>7
<1> QED BY <1>1, <1>2, <1>5, <1>7, <1>8, <1>9

\* What is put at the head of a stack.
LEMMA Pushed ==
  ASSUME NEW S, NEW s \in Seq(S), NEW x \in S
  PROVE  /\ <<x>> \o s \in Seq(S) /\ <<x>> \o s # <<>>
         /\ Range(<<x>> \o s) = Range(s) \cup {x}
         /\ IsInjective(s) /\ x \notin Range(s) => IsInjective(<<x>> \o s)
<1>1. <<x>> \o s \in Seq(S)
  BY SMTT(60)
<1>2. PICK t \in Seq(S) : t = <<x>> \o s
  BY <1>1
<1>3. PICK n \in Nat : n = Len(s) /\ DOMAIN s = 1..n /\ DOMAIN t = 1..(n + 1) /\ Len(t) = n + 1
  BY SMTT(60), <1>2
<1>4. t[1] = x /\ 1 \in DOMAIN t /\ t # <<>>
  BY SMTT(60), <1>2, <1>3
<1>5. \A i \in 1..n : i + 1 \in 1..(n + 1) /\ t[i + 1] = s[i] /\ i + 1 # 1
  BY SMTT(60), <1>2, <1>3
<1>6. \A i \in 1..(n + 1) : i = 1 \/ \E j \in 1..n : i = j + 1
  <2> SUFFICES ASSUME NEW i \in 1..(n + 1), i # 1 PROVE \E j \in 1..n : i = j + 1
    OBVIOUS
  <2>1. i - 1 \in 1..n /\ i = (i - 1) + 1
    BY SMTT(60), <1>3
  <2> QED BY <2>1
<1>7. Range(t) = Range(s) \cup {x}
  <2>1. \A y \in Range(t) : y \in Range(s) \cup {x}
    <3> SUFFICES ASSUME NEW i \in 1..(n + 1) PROVE t[i] \in Range(s) \cup {x}
      BY <1>3 DEF Range
    <3>1. CASE i = 1
      BY <1>4, <3>1
    <3>2. ASSUME NEW j \in 1..n, i = j + 1 PROVE t[i] \in Range(s)
      BY <1>3, <1>5, <3>2 DEF Range
    <3> QED BY <1>6, <3>1, <3>2
  <2>2. \A y \in Range(s) : y \in Range(t)
    BY <1>3, <1>5 DEF Range
  <2>3. x \in Range(t)
    BY <1>4 DEF Range
  <2> QED BY <2>1, <2>2, <2>3
<1>8. ASSUME IsInjective(s), x \notin Range(s) PROVE IsInjective(t)
  <2> SUFFICES ASSUME NEW i \in 1..(n + 1), NEW k \in 1..(n + 1), t[i] = t[k] PROVE i = k
    BY <1>3 DEF IsInjective
  <2>1. \A j \in 1..n : s[j] # x
    BY <1>3, <1>8 DEF Range
  <2>2. CASE i = 1 \/ k = 1
    <3>1. \A l \in 1..(n + 1) : l # 1 => t[l] # x
      <4> SUFFICES ASSUME NEW l \in 1..(n + 1), l # 1 PROVE t[l] # x
        OBVIOUS
      <4>1. PICK j \in 1..n : l = j + 1
        BY <1>6
      <4> QED BY <1>5, <2>1, <4>1
    <3> QED BY <1>4, <2>2, <3>1
  <2>3. CASE i # 1 /\ k # 1
    <3>1. PICK j \in 1..n, l \in 1..n : i = j + 1 /\ k = l + 1
      BY <1>6, <2>3
    <3>2. s[j] = s[l]
      BY <1>5, <3>1
    <3> QED BY <1>3, <1>8, <3>1, <3>2 DEF IsInjective
  <2> QED BY <2>2, <2>3
<1> QED BY <1>1, <1>2, <1>4, <1>7, <1>8

-----------------------------------------------------------------------------
(***************************************************************************)
(* The inductive invariant, of the heap's variables as parameters: a step  *)
(* may take a slab from the frame allocator and an object from the slab.   *)
(***************************************************************************)
Small(a) == bucket_for(a.layout) # None
Home(a) == SlabOf(a.ptr)
LargeBlock(a) == <<Home(a), order_for_large(a.layout)>>
BlockOf(b) == F!Block(b[1], b[2])

Allocations == [ptr : Nat, layout : Layouts]
SlabsIn(sb) == {f \in Frames : sb[f] # None}
HeldIn(lv, f) == {a.ptr : a \in {c \in lv : Home(c) = f}}

\* The blocks handed out by the frame allocator are apart, and not free.
BlocksApart(fr, ow) ==
  /\ fr \subseteq Frames /\ ow \subseteq Frames \X F!Orders
  /\ \A b \in ow : BlockOf(b) \subseteq Frames /\ BlockOf(b) \cap fr = {}
  /\ \A b, c \in ow : b # c => BlockOf(b) \cap BlockOf(c) = {}

\* Slabs and other users hold their frames.
FramesHeld(sb, ow, ot) ==
  /\ \A f \in SlabsIn(sb) : <<f, 0>> \in ow
  /\ \A f \in ot : <<f, 0>> \in ow /\ f \notin SlabsIn(sb)

\* A small allocation is in a slab of its bucket, a large one is a block of its own.
LiveHeld(lv, sb, ow, ot) ==
  /\ \A a \in lv : Small(a) => Home(a) \in SlabsIn(sb) /\ sb[Home(a)] = bucket_for(a.layout)
  /\ \A a \in lv : ~Small(a) =>
       /\ order_for_large(a.layout) # None /\ LargeBlock(a) \in ow
       /\ Home(a) % 2^order_for_large(a.layout) = 0
       /\ Home(a) \notin SlabsIn(sb) /\ Home(a) \notin ot
       /\ a.ptr = phys_to_virt(Home(a))
  /\ \A a, c \in lv : a.ptr = c.ptr => a = c

\* The objects of a slab are its free ones and the live ones.
Conserved(fo, lv, sb) ==
  \A f \in SlabsIn(sb) :
    /\ IsInjective(fo[f]) /\ Range(fo[f]) \cap HeldIn(lv, f) = {}
    /\ Range(fo[f]) \cup HeldIn(lv, f) = Range(ObjectsOf(f, sb[f]))

\* What a slab has been made of is either free or in the hands of a caller.
Apportioned(fo, lv, sb, ow, ot) ==
  /\ fo \in [Frames -> Seq(Nat)] /\ lv \subseteq Allocations /\ sb \in [Frames -> Buckets \cup {None}]
  /\ LiveHeld(lv, sb, ow, ot) /\ Conserved(fo, lv, sb)

\* Where the slabs are listed.
Listed(ac, pa, fo, sb) ==
  /\ ac \in [Buckets -> Frames \cup {None}] /\ pa \in [Buckets -> Seq(Frames)]
  /\ fo \in [Frames -> Seq(Nat)] /\ sb \in [Frames -> Buckets \cup {None}]
  /\ \A b \in Buckets : ac[b] # None =>
       ac[b] \in SlabsIn(sb) /\ sb[ac[b]] = b /\ ac[b] \notin Range(pa[b])
  /\ \A b \in Buckets : IsInjective(pa[b]) /\ \A f \in Range(pa[b]) :
       f \in SlabsIn(sb) /\ sb[f] = b /\ fo[f] # <<>>
  /\ \A f \in SlabsIn(sb) : fo[f] # <<>> => ac[sb[f]] = f \/ f \in Range(pa[sb[f]])

\* The slab in frame f is one of bucket b and has a free object.
HasRoom(fo, sb, f, b) == f \in SlabsIn(sb) /\ sb[f] = b /\ fo[f] # <<>>

\* Bucket b has no active slab, or a full one.
Exhausted(ac, fo, b) == ac[b] = None \/ fo[ac[b]] = <<>>

\* Nothing a caller holds is in frame f.
Vacant(lv, f) == \A a \in lv : Home(a) # f

\* dealloc_small: the free lists, and the lists of slabs, once `ptr' is back.
Linked(fo, f, ptr) == [fo EXCEPT ![f] = <<ptr>> \o fo[f]]
Relisted(ac, pa, fo, f, b) ==
  IF ac[b] # f /\ fo[f] = <<>> THEN [pa EXCEPT ![b] = <<f>> \o pa[b]] ELSE pa

IInv ==
  /\ BlocksApart(free, owned) /\ others \subseteq Frames /\ FramesHeld(slab_bucket, owned, others)
  /\ Apportioned(free_objs, live, slab_bucket, owned, others)
  /\ Listed(active, partial, free_objs, slab_bucket)
  /\ ub = FALSE

-----------------------------------------------------------------------------
\* Frames and blocks are no null values, and a block begins with its own frame.
LEMMA FrameTypes ==
  /\ \A f \in Frames : f \in Nat /\ f # None
  /\ \A b \in Buckets : b # None
  /\ \A b \in Frames \X F!Orders : b[1] \in BlockOf(b) /\ b[1] \in Nat /\ b[2] \in F!Orders /\ b = <<b[1], b[2]>>
<1>1. TotalFrames \in Nat /\ \A k \in F!Orders : 2^k \in Nat \ {0} /\ k \in Nat
  BY Sizes
<1>2. \A f \in Frames : f \in Nat /\ f # None
  BY SMTT(60), <1>1 DEF Frames, F!Frames, None
<1>3. \A b \in Buckets : b # None
  BY SMTT(60), HeapAssumption DEF Buckets, None
<1>4. ASSUME NEW b \in Frames \X F!Orders
      PROVE  b[1] \in BlockOf(b) /\ b[1] \in Nat /\ b[2] \in F!Orders /\ b = <<b[1], b[2]>>
  <2>1. PICK f \in Frames, k \in F!Orders : b = <<f, k>>
    BY SMTT(60)
  <2>2. b[1] = f /\ b[2] = k
    BY <2>1
  <2>3. f \in Nat /\ 2^k \in Nat \ {0}
    BY <1>1, <1>2
  <2>4. f \in F!Block(f, k)
    BY SMTT(60), <2>3 DEF F!Block
  <2> QED BY <2>1, <2>2, <2>3, <2>4 DEF BlockOf
<1> QED BY <1>2, <1>3, <1>4

\* An object of a slab goes to a caller.
LEMMA PopObject ==
  ASSUME NEW fo, NEW lv, NEW sb, NEW ow, NEW ot, Apportioned(fo, lv, sb, ow, ot),
         NEW f \in SlabsIn(sb), fo[f] # <<>>, NEW L \in Layouts, bucket_for(L) = sb[f],
         NEW a, a = [ptr |-> Head(fo[f]), layout |-> L],
         NEW g, g = [fo EXCEPT ![f] = Tail(fo[f])]
  PROVE  Apportioned(g, lv \cup {a}, sb, ow, ot)
<1>a. /\ fo \in [Frames -> Seq(Nat)] /\ lv \subseteq Allocations /\ sb \in [Frames -> Buckets \cup {None}]
      /\ LiveHeld(lv, sb, ow, ot) /\ Conserved(fo, lv, sb)
  BY DEF Apportioned
<1> USE <1>a
<1>1. f \in Frames /\ f \in Nat /\ sb[f] \in Buckets /\ fo[f] \in Seq(Nat) /\ sb[f] # None
  BY FrameTypes DEF SlabsIn
<1>2. PICK x : x = Head(fo[f])
  OBVIOUS
<1>3. PICK t : t = Tail(fo[f])
  OBVIOUS
<1>4. /\ t \in Seq(Nat) /\ x \in Range(fo[f]) /\ x \in Nat /\ Range(fo[f]) = Range(t) \cup {x}
      /\ IsInjective(fo[f]) => IsInjective(t) /\ x \notin Range(t)
  BY <1>1, <1>2, <1>3, Popped
<1>5. a.ptr = x /\ a.layout = L /\ a \in Allocations
  BY <1>2, <1>4 DEF Allocations
<1>6. /\ IsInjective(fo[f]) /\ Range(fo[f]) \cap HeldIn(lv, f) = {}
      /\ Range(fo[f]) \cup HeldIn(lv, f) = Range(ObjectsOf(f, sb[f]))
  BY DEF Conserved
<1>7. SlabOf(x) = f
  BY <1>1, <1>4, <1>6, Objects
<1>8. Home(a) = f /\ Small(a) /\ bucket_for(a.layout) = sb[f]
  BY <1>1, <1>5, <1>7 DEF Home, Small
<1>9. g \in [Frames -> Seq(Nat)] /\ g[f] = t /\ \A h \in Frames : h # f => g[h] = fo[h]
  BY <1>1, <1>3, <1>4
<1>10. HeldIn(lv \cup {a}, f) = HeldIn(lv, f) \cup {x}
  BY <1>5, <1>8 DEF HeldIn
<1>11. \A h \in Frames : h # f => HeldIn(lv \cup {a}, h) = HeldIn(lv, h)
  BY <1>8 DEF HeldIn
<1>12. Conserved(g, lv \cup {a}, sb)
  <2> SUFFICES ASSUME NEW h \in SlabsIn(sb)
               PROVE  /\ IsInjective(g[h]) /\ Range(g[h]) \cap HeldIn(lv \cup {a}, h) = {}
                      /\ Range(g[h]) \cup HeldIn(lv \cup {a}, h) = Range(ObjectsOf(h, sb[h]))
    BY DEF Conserved
  <2>1. h \in Frames
    BY DEF SlabsIn
  <2>2. CASE h = f
    <3>1. IsInjective(t) /\ Range(t) \cap (HeldIn(lv, f) \cup {x}) = {}
      BY <1>4, <1>6
    <3>2. Range(t) \cup (HeldIn(lv, f) \cup {x}) = Range(ObjectsOf(f, sb[f]))
      BY <1>4, <1>6
    <3> QED BY <1>9, <1>10, <2>2, <3>1, <3>2
  <2>3. CASE h # f
    <3>1. g[h] = fo[h] /\ HeldIn(lv \cup {a}, h) = HeldIn(lv, h)
      BY <1>9, <1>11, <2>1, <2>3
    <3> QED BY <3>1 DEF Conserved
  <2> QED BY <2>2, <2>3
<1>13. \A c \in lv : c.ptr # x
  <2> SUFFICES ASSUME NEW c \in lv, c.ptr = x PROVE FALSE
    OBVIOUS
  <2>1. Home(c) = f
    BY <1>7 DEF Home
  <2>2. x \in HeldIn(lv, f)
    BY <2>1 DEF HeldIn
  <2> QED BY <1>4, <1>6, <2>2
<1>14. LiveHeld(lv \cup {a}, sb, ow, ot)
  BY <1>5, <1>8, <1>13 DEF LiveHeld
<1> QED BY <1>5, <1>9, <1>12, <1>14 DEF Apportioned

\* A caller gives an object back.
LEMMA PushObject ==
  ASSUME NEW fo, NEW lv, NEW sb, NEW ow, NEW ot, Apportioned(fo, lv, sb, ow, ot),
         NEW a \in lv, Small(a), NEW f, f = Home(a),
         NEW g, g = Linked(fo, f, a.ptr)
  PROVE  Apportioned(g, lv \ {a}, sb, ow, ot) /\ HasRoom(g, sb, f, bucket_for(a.layout))
<1>a. /\ fo \in [Frames -> Seq(Nat)] /\ lv \subseteq Allocations /\ sb \in [Frames -> Buckets \cup {None}]
      /\ LiveHeld(lv, sb, ow, ot) /\ Conserved(fo, lv, sb)
  BY DEF Apportioned
<1> USE <1>a
<1>1. f \in SlabsIn(sb) /\ sb[f] = bucket_for(a.layout)
  BY DEF LiveHeld
<1>2. f \in Frames /\ fo[f] \in Seq(Nat)
  BY <1>1 DEF SlabsIn
<1>3. PICK x : x = a.ptr /\ x \in Nat
  BY DEF Allocations
<1>4. PICK t : t = <<x>> \o fo[f]
  OBVIOUS
<1>5. /\ t \in Seq(Nat) /\ t # <<>> /\ Range(t) = Range(fo[f]) \cup {x}
      /\ IsInjective(fo[f]) /\ x \notin Range(fo[f]) => IsInjective(t)
  <2>1. PICK s \in Seq(Nat) : s = fo[f]
    BY <1>2
  <2>2. /\ <<x>> \o s \in Seq(Nat) /\ <<x>> \o s # <<>>
        /\ Range(<<x>> \o s) = Range(s) \cup {x}
        /\ IsInjective(s) /\ x \notin Range(s) => IsInjective(<<x>> \o s)
    <3>1. x \in Nat
      BY <1>3
    
    <3> QED BY <3>1, Pushed
  <2> QED BY <1>4, <2>1, <2>2
<1>6. g \in [Frames -> Seq(Nat)] /\ g[f] = t /\ \A h \in Frames : h # f => g[h] = fo[h]
  BY <1>2, <1>3, <1>4, <1>5 DEF Linked
<1>7. /\ IsInjective(fo[f]) /\ Range(fo[f]) \cap HeldIn(lv, f) = {}
      /\ Range(fo[f]) \cup HeldIn(lv, f) = Range(ObjectsOf(f, sb[f]))
  BY <1>1 DEF Conserved
<1>8. x \in HeldIn(lv, f)
  BY <1>3 DEF HeldIn
<1>9. \A c \in lv : c.ptr = x => c = a
  BY <1>3 DEF LiveHeld
<1>10. HeldIn(lv \ {a}, f) = HeldIn(lv, f) \ {x}
  <2>1. \A y \in HeldIn(lv \ {a}, f) : y \in HeldIn(lv, f) /\ y # x
    BY <1>9 DEF HeldIn
  <2>2. \A y \in HeldIn(lv, f) : y # x => y \in HeldIn(lv \ {a}, f)
    BY <1>3 DEF HeldIn
  <2> QED BY <2>1, <2>2
<1>11. \A h \in Frames : h # f => HeldIn(lv \ {a}, h) = HeldIn(lv, h)
  BY DEF HeldIn
<1>12. Conserved(g, lv \ {a}, sb)
  <2> SUFFICES ASSUME NEW h \in SlabsIn(sb)
               PROVE  /\ IsInjective(g[h]) /\ Range(g[h]) \cap HeldIn(lv \ {a}, h) = {}
                      /\ Range(g[h]) \cup HeldIn(lv \ {a}, h) = Range(ObjectsOf(h, sb[h]))
    BY DEF Conserved
  <2>1. h \in Frames
    BY DEF SlabsIn
  <2>2. CASE h = f
    <3>1. IsInjective(t) /\ Range(t) \cap (HeldIn(lv, f) \ {x}) = {}
      BY <1>5, <1>7, <1>8
    <3>2. Range(t) \cup (HeldIn(lv, f) \ {x}) = Range(ObjectsOf(f, sb[f]))
      BY <1>5, <1>7, <1>8
    <3> QED BY <1>6, <1>10, <2>2, <3>1, <3>2
  <2>3. CASE h # f
    <3>1. g[h] = fo[h] /\ HeldIn(lv \ {a}, h) = HeldIn(lv, h)
      BY <1>6, <1>11, <2>1, <2>3
    <3> QED BY <3>1 DEF Conserved
  <2> QED BY <2>2, <2>3
<1>13. LiveHeld(lv \ {a}, sb, ow, ot)
  BY DEF LiveHeld
<1>14. lv \ {a} \subseteq Allocations
  OBVIOUS
<1> QED BY <1>1, <1>5, <1>6, <1>12, <1>13, <1>14 DEF Apportioned, HasRoom

\* alloc_pages hands out a block that nobody holds.
LEMMA TakeBlock ==
  ASSUME BlocksApart(free, owned), NEW f \in Frames, NEW k \in F!Orders, F!Alloc(f, k)
  PROVE  BlocksApart(free', owned') /\ \A b \in owned : b[1] # f
<1>1. PICK n : n = <<f, k>>
  OBVIOUS
<1>2. n \in Frames \X F!Orders /\ n[1] = f /\ n[2] = k
  BY <1>1
<1>3. BlockOf(n) = F!Block(f, k) /\ f \in F!Block(f, k)
  BY <1>2, FrameTypes DEF BlockOf
<1>4. BlockOf(n) \subseteq free /\ free' = free \ BlockOf(n) /\ owned' = owned \cup {n}
  BY <1>1, <1>3 DEF F!Alloc, F!Fits
<1>5. free \subseteq Frames /\ owned \subseteq Frames \X F!Orders
  BY DEF BlocksApart
<1>6. \A b \in owned : BlockOf(b) \cap BlockOf(n) = {} /\ b[1] \in BlockOf(b)
  <2>1. \A b \in owned : b[1] \in BlockOf(b)
    BY <1>5, FrameTypes
  <2>2. \A b \in owned : BlockOf(b) \cap free = {}
    BY DEF BlocksApart
  <2> QED BY <1>4, <2>1, <2>2
<1>7. \A b \in owned : b[1] # f
  BY <1>3, <1>6
<1>8. BlocksApart(free \ BlockOf(n), owned \cup {n})
  <2>1. \A b \in owned \cup {n} : BlockOf(b) \subseteq Frames /\ BlockOf(b) \cap (free \ BlockOf(n)) = {}
    BY <1>4, <1>5 DEF BlocksApart
  <2>2. \A b, c \in owned \cup {n} : b # c => BlockOf(b) \cap BlockOf(c) = {}
    <3> SUFFICES ASSUME NEW b \in owned \cup {n}, NEW c \in owned \cup {n}, b # c
                 PROVE  BlockOf(b) \cap BlockOf(c) = {}
      OBVIOUS
    <3>1. CASE b \in owned /\ c \in owned
      BY <3>1 DEF BlocksApart
    <3>2. CASE b = n
      BY <1>6, <3>2
    <3>3. CASE c = n
      BY <1>6, <3>3
    <3> QED BY <3>1, <3>2, <3>3
  <2>3. free \ BlockOf(n) \subseteq Frames /\ owned \cup {n} \subseteq Frames \X F!Orders
    BY <1>2, <1>5
  <2> QED BY <2>1, <2>2, <2>3 DEF BlocksApart
<1> QED BY <1>4, <1>7, <1>8

\* free_pages makes the frames of a block free again, and no other.
LEMMA GiveBlock ==
  ASSUME BlocksApart(free, owned), NEW f, NEW k, F!Free(f, k)
  PROVE  BlocksApart(free', owned')
<1>1. PICK n \in owned : n = <<f, k>>
  BY DEF F!Free
<1>2. BlockOf(n) = F!Block(f, k)
  BY <1>1 DEF BlockOf
<1>3. free' = free \cup BlockOf(n) /\ owned' = owned \ {n}
  BY <1>1, <1>2 DEF F!Free
<1>4. \A b \in owned \ {n} : BlockOf(b) \subseteq Frames /\ BlockOf(b) \cap (free \cup BlockOf(n)) = {}
  BY DEF BlocksApart
<1>5. free \cup BlockOf(n) \subseteq Frames /\ owned \ {n} \subseteq Frames \X F!Orders
  BY DEF BlocksApart
<1>6. BlocksApart(free \cup BlockOf(n), owned \ {n})
  BY <1>4, <1>5 DEF BlocksApart
<1> QED BY <1>3, <1>6

-----------------------------------------------------------------------------
\* The free list of an active slab may change.
LEMMA ActiveChanges ==
  ASSUME NEW ac, NEW pa, NEW fo, NEW sb, Listed(ac, pa, fo, sb), NEW f \in SlabsIn(sb), ac[sb[f]] = f,
         NEW g, g \in [Frames -> Seq(Nat)], \A h \in Frames : h # f => g[h] = fo[h]
  PROVE  Listed(ac, pa, g, sb)
<1>a. /\ ac \in [Buckets -> Frames \cup {None}] /\ pa \in [Buckets -> Seq(Frames)]
      /\ fo \in [Frames -> Seq(Nat)] /\ sb \in [Frames -> Buckets \cup {None}]
  BY DEF Listed
<1> USE <1>a
<1>1. f \in Frames /\ sb[f] \in Buckets /\ f # None
  BY FrameTypes DEF SlabsIn
<1>2. f \notin Range(pa[sb[f]])
  <2>1. ac[sb[f]] # None => ac[sb[f]] \notin Range(pa[sb[f]])
    BY <1>1 DEF Listed
  <2> QED BY <1>1, <2>1
<1>3. \A b \in Buckets : \A h \in Range(pa[b]) : h \in SlabsIn(sb) /\ sb[h] = b /\ fo[h] # <<>> /\ h # f
  <2> SUFFICES ASSUME NEW b \in Buckets, NEW h \in Range(pa[b])
               PROVE  h \in SlabsIn(sb) /\ sb[h] = b /\ fo[h] # <<>> /\ h # f
    OBVIOUS
  <2>1. h \in SlabsIn(sb) /\ sb[h] = b /\ fo[h] # <<>>
    BY DEF Listed
  <2>2. h # f
    BY <1>2, <2>1
  <2> QED BY <2>1, <2>2
<1>4. \A h \in SlabsIn(sb) : h \in Frames
  BY DEF SlabsIn
<1>5. \A b \in Buckets : \A h \in Range(pa[b]) : h \in SlabsIn(sb) /\ sb[h] = b /\ g[h] # <<>>
  <2> SUFFICES ASSUME NEW b \in Buckets, NEW h \in Range(pa[b])
               PROVE  h \in SlabsIn(sb) /\ sb[h] = b /\ g[h] # <<>>
    OBVIOUS
  <2>1. g[h] = fo[h]
    BY <1>3, <1>4
  <2> QED BY <1>3, <2>1
<1>6. \A h \in SlabsIn(sb) : g[h] # <<>> => ac[sb[h]] = h \/ h \in Range(pa[sb[h]])
  <2> SUFFICES ASSUME NEW h \in SlabsIn(sb), g[h] # <<>>
               PROVE  ac[sb[h]] = h \/ h \in Range(pa[sb[h]])
    OBVIOUS
  <2>1. CASE h = f
    BY <2>1
  <2>2. CASE h # f
    <3>1. g[h] = fo[h]
      BY <1>4, <2>2
    <3> QED BY <3>1 DEF Listed
  <2> QED BY <2>1, <2>2
<1> QED BY <1>5, <1>6 DEF Listed

\* take_partial: the first listed slab becomes the active one.
LEMMA TakePartial ==
  ASSUME NEW ac, NEW pa, NEW fo, NEW sb, Listed(ac, pa, fo, sb), NEW b \in Buckets, Exhausted(ac, fo, b), pa[b] # <<>>,
         NEW ac2, ac2 = [ac EXCEPT ![b] = Head(pa[b])], NEW pa2, pa2 = [pa EXCEPT ![b] = Tail(pa[b])]
  PROVE  Listed(ac2, pa2, fo, sb) /\ HasRoom(fo, sb, Head(pa[b]), b)
<1>a. /\ ac \in [Buckets -> Frames \cup {None}] /\ pa \in [Buckets -> Seq(Frames)]
      /\ fo \in [Frames -> Seq(Nat)] /\ sb \in [Frames -> Buckets \cup {None}]
  BY DEF Listed
<1> USE <1>a
<1>1. PICK f : f = Head(pa[b])
  OBVIOUS
<1>2. PICK t : t = Tail(pa[b])
  OBVIOUS
<1>3. pa[b] \in Seq(Frames)
  OBVIOUS
<1>4. /\ t \in Seq(Frames) /\ f \in Range(pa[b]) /\ f \in Frames /\ Range(pa[b]) = Range(t) \cup {f}
      /\ IsInjective(pa[b]) => IsInjective(t) /\ f \notin Range(t)
  BY <1>1, <1>2, <1>3, Popped
<1>5. f \in SlabsIn(sb) /\ sb[f] = b /\ fo[f] # <<>> /\ IsInjective(t) /\ f \notin Range(t)
  BY <1>4 DEF Listed
<1>6. ac2 \in [Buckets -> Frames \cup {None}] /\ ac2[b] = f /\ \A c \in Buckets : c # b => ac2[c] = ac[c]
  BY <1>1, <1>4
<1>7. pa2 \in [Buckets -> Seq(Frames)] /\ pa2[b] = t /\ \A c \in Buckets : c # b => pa2[c] = pa[c]
  BY <1>2, <1>4
<1>8. \A c \in Buckets : ac2[c] # None =>
        ac2[c] \in SlabsIn(sb) /\ sb[ac2[c]] = c /\ ac2[c] \notin Range(pa2[c])
  <2> SUFFICES ASSUME NEW c \in Buckets, ac2[c] # None
               PROVE  ac2[c] \in SlabsIn(sb) /\ sb[ac2[c]] = c /\ ac2[c] \notin Range(pa2[c])
    OBVIOUS
  <2>1. CASE c = b
    BY <1>5, <1>6, <1>7, <2>1
  <2>2. CASE c # b
    <3>1. ac2[c] = ac[c] /\ pa2[c] = pa[c]
      BY <1>6, <1>7, <2>2
    <3> QED BY <3>1 DEF Listed
  <2> QED BY <2>1, <2>2
<1>9. \A c \in Buckets : IsInjective(pa2[c]) /\ \A h \in Range(pa2[c]) :
        h \in SlabsIn(sb) /\ sb[h] = c /\ fo[h] # <<>>
  <2> SUFFICES ASSUME NEW c \in Buckets
               PROVE  IsInjective(pa2[c]) /\ \A h \in Range(pa2[c]) :
                        h \in SlabsIn(sb) /\ sb[h] = c /\ fo[h] # <<>>
    OBVIOUS
  <2>1. IsInjective(pa[c]) /\ \A h \in Range(pa[c]) : h \in SlabsIn(sb) /\ sb[h] = c /\ fo[h] # <<>>
    BY DEF Listed
  <2>2. CASE c = b
    BY <1>4, <1>5, <1>7, <2>1, <2>2
  <2>3. CASE c # b
    BY <1>7, <2>1, <2>3
  <2> QED BY <2>2, <2>3
<1>10. \A h \in SlabsIn(sb) : fo[h] # <<>> => ac2[sb[h]] = h \/ h \in Range(pa2[sb[h]])
  <2> SUFFICES ASSUME NEW h \in SlabsIn(sb), fo[h] # <<>>
               PROVE  ac2[sb[h]] = h \/ h \in Range(pa2[sb[h]])
    OBVIOUS
  <2>1. ac[sb[h]] = h \/ h \in Range(pa[sb[h]])
    BY DEF Listed
  <2>2. sb[h] \in Buckets /\ h \in Frames /\ h # None
    BY FrameTypes DEF SlabsIn
  <2>3. CASE sb[h] = b
    <3>1. h \in Range(pa[b])
      BY <2>1, <2>2, <2>3 DEF Exhausted
    <3>2. h \in Range(t) \/ h = f
      BY <1>4, <3>1
    <3> QED BY <1>6, <1>7, <2>3, <3>2
  <2>4. CASE sb[h] # b
    <3>1. ac2[sb[h]] = ac[sb[h]] /\ pa2[sb[h]] = pa[sb[h]]
      BY <1>6, <1>7, <2>2, <2>4
    <3> QED BY <2>1, <3>1
  <2> QED BY <2>3, <2>4
<1>11. Listed(ac2, pa2, fo, sb)
  BY <1>6, <1>7, <1>8, <1>9, <1>10 DEF Listed
<1> QED BY <1>1, <1>5, <1>11 DEF HasRoom

\* A bucket without a free object gives up its active slab.
LEMMA NoActive ==
  ASSUME NEW ac, NEW pa, NEW fo, NEW sb, Listed(ac, pa, fo, sb), NEW b \in Buckets, Exhausted(ac, fo, b),
         NEW ac2, ac2 = [ac EXCEPT ![b] = None]
  PROVE  Listed(ac2, pa, fo, sb)
<1>a. /\ ac \in [Buckets -> Frames \cup {None}] /\ pa \in [Buckets -> Seq(Frames)]
      /\ fo \in [Frames -> Seq(Nat)] /\ sb \in [Frames -> Buckets \cup {None}]
  BY DEF Listed
<1> USE <1>a
<1>1. ac2 \in [Buckets -> Frames \cup {None}] /\ ac2[b] = None /\ \A c \in Buckets : c # b => ac2[c] = ac[c]
  OBVIOUS
<1>2. \A c \in Buckets : ac2[c] # None =>
        ac2[c] \in SlabsIn(sb) /\ sb[ac2[c]] = c /\ ac2[c] \notin Range(pa[c])
  <2> SUFFICES ASSUME NEW c \in Buckets, ac2[c] # None
               PROVE  ac2[c] \in SlabsIn(sb) /\ sb[ac2[c]] = c /\ ac2[c] \notin Range(pa[c])
    OBVIOUS
  <2>1. ac2[c] = ac[c]
    BY <1>1
  <2> QED BY <2>1 DEF Listed
<1>3. \A h \in SlabsIn(sb) : fo[h] # <<>> => ac2[sb[h]] = h \/ h \in Range(pa[sb[h]])
  <2> SUFFICES ASSUME NEW h \in SlabsIn(sb), fo[h] # <<>>
               PROVE  ac2[sb[h]] = h \/ h \in Range(pa[sb[h]])
    OBVIOUS
  <2>1. ac[sb[h]] = h \/ h \in Range(pa[sb[h]])
    BY DEF Listed
  <2>2. sb[h] \in Buckets /\ h \in Frames /\ h # None
    BY FrameTypes DEF SlabsIn
  <2> QED BY <1>1, <2>1, <2>2 DEF Exhausted
<1> QED BY <1>1, <1>2, <1>3 DEF Listed

\* After refill: slab f of bucket b is listed, and has all its objects.
Refilled(ac, pa, fo, sb, lv, ow, ot, f, b) ==
  Listed(ac, pa, fo, sb) /\ Apportioned(fo, lv, sb, ow, ot) /\ HasRoom(fo, sb, f, b)

\* refill: a new slab becomes the active one.
LEMMA NewSlab ==
  ASSUME NEW ac, NEW pa, NEW fo, NEW sb, NEW lv, NEW ow, NEW ot,
         Listed(ac, pa, fo, sb), Apportioned(fo, lv, sb, ow, ot),
         NEW b \in Buckets, Exhausted(ac, fo, b), pa[b] = <<>>,
         NEW f \in Frames, sb[f] = None, Vacant(lv, f),
         NEW ac2, ac2 = [ac EXCEPT ![b] = f], NEW sb2, sb2 = [sb EXCEPT ![f] = b],
         NEW fo2, fo2 = [fo EXCEPT ![f] = ObjectsOf(f, b)]
  PROVE  Refilled(ac2, pa, fo2, sb2, lv, ow, ot, f, b)
<1>a. /\ ac \in [Buckets -> Frames \cup {None}] /\ pa \in [Buckets -> Seq(Frames)]
      /\ fo \in [Frames -> Seq(Nat)] /\ sb \in [Frames -> Buckets \cup {None}]
      /\ lv \subseteq Allocations /\ LiveHeld(lv, sb, ow, ot) /\ Conserved(fo, lv, sb)
  BY DEF Listed, Apportioned
<1> USE <1>a
<1>1. f \in Nat /\ f # None /\ b # None
  BY FrameTypes
<1>2. PICK t : t = ObjectsOf(f, b)
  OBVIOUS
<1>3. t \in Seq(Nat) /\ t # <<>> /\ IsInjective(t)
  BY <1>1, <1>2, Objects
<1>4. ac2 \in [Buckets -> Frames \cup {None}] /\ ac2[b] = f /\ \A c \in Buckets : c # b => ac2[c] = ac[c]
  OBVIOUS
<1>5. sb2 \in [Frames -> Buckets \cup {None}] /\ sb2[f] = b /\ \A h \in Frames : h # f => sb2[h] = sb[h]
  OBVIOUS
<1>6. fo2 \in [Frames -> Seq(Nat)] /\ fo2[f] = t /\ \A h \in Frames : h # f => fo2[h] = fo[h]
  BY <1>2, <1>3
<1>7. /\ SlabsIn(sb2) = SlabsIn(sb) \cup {f} /\ f \notin SlabsIn(sb)
      /\ \A h \in SlabsIn(sb) : h \in Frames /\ h # f /\ sb2[h] = sb[h] /\ fo2[h] = fo[h]
  <2>1. f \notin SlabsIn(sb) /\ \A h \in SlabsIn(sb) : h \in Frames
    BY DEF SlabsIn
  <2>2. \A h \in SlabsIn(sb) : h # f /\ sb2[h] = sb[h] /\ fo2[h] = fo[h]
    BY <1>5, <1>6, <2>1
  <2>3. SlabsIn(sb2) = SlabsIn(sb) \cup {f}
    <3>1. \A h \in SlabsIn(sb2) : h \in SlabsIn(sb) \cup {f}
      <4> SUFFICES ASSUME NEW h \in SlabsIn(sb2), h # f PROVE h \in SlabsIn(sb)
        OBVIOUS
      <4>1. h \in Frames /\ sb2[h] # None
        BY DEF SlabsIn
      <4>2. sb[h] # None
        BY <1>5, <4>1
      <4> QED BY <4>1, <4>2 DEF SlabsIn
    <3>2. f \in SlabsIn(sb2)
      BY <1>1, <1>5 DEF SlabsIn
    <3>3. \A h \in SlabsIn(sb) : h \in SlabsIn(sb2)
      <4> SUFFICES ASSUME NEW h \in SlabsIn(sb) PROVE h \in SlabsIn(sb2)
        OBVIOUS
      <4>1. h \in Frames /\ sb[h] # None /\ sb2[h] = sb[h]
        BY <2>2 DEF SlabsIn
      <4>2. sb2[h] # None
        BY <4>1
      <4> QED BY <4>1, <4>2 DEF SlabsIn
    <3> QED BY <3>1, <3>2, <3>3
  <2> QED BY <2>1, <2>2, <2>3
<1>8. Listed(ac2, pa, fo2, sb2)
  <2>1. \A c \in Buckets : ac2[c] # None =>
          ac2[c] \in SlabsIn(sb2) /\ sb2[ac2[c]] = c /\ ac2[c] \notin Range(pa[c])
    <3> SUFFICES ASSUME NEW c \in Buckets, ac2[c] # None
                 PROVE  ac2[c] \in SlabsIn(sb2) /\ sb2[ac2[c]] = c /\ ac2[c] \notin Range(pa[c])
      OBVIOUS
    <3>1. CASE c = b
      <4>1. Range(pa[b]) = {}
        BY SMTT(60) DEF Range
      <4> QED BY <1>4, <1>5, <1>7, <3>1, <4>1
    <3>2. CASE c # b
      <4>1. ac2[c] = ac[c]
        BY <1>4, <3>2
      <4>2. ac[c] \in SlabsIn(sb) /\ sb[ac[c]] = c /\ ac[c] \notin Range(pa[c])
        BY <4>1 DEF Listed
      <4> QED BY <1>7, <4>1, <4>2
    <3> QED BY <3>1, <3>2
  <2>2. \A c \in Buckets : IsInjective(pa[c]) /\ \A h \in Range(pa[c]) :
          h \in SlabsIn(sb2) /\ sb2[h] = c /\ fo2[h] # <<>>
    <3> SUFFICES ASSUME NEW c \in Buckets
                 PROVE  IsInjective(pa[c]) /\ \A h \in Range(pa[c]) :
                          h \in SlabsIn(sb2) /\ sb2[h] = c /\ fo2[h] # <<>>
      OBVIOUS
    <3>1. IsInjective(pa[c]) /\ \A h \in Range(pa[c]) : h \in SlabsIn(sb) /\ sb[h] = c /\ fo[h] # <<>>
      BY DEF Listed
    <3> QED BY <1>7, <3>1
  <2>3. \A h \in SlabsIn(sb2) : fo2[h] # <<>> => ac2[sb2[h]] = h \/ h \in Range(pa[sb2[h]])
    <3> SUFFICES ASSUME NEW h \in SlabsIn(sb2), fo2[h] # <<>>
                 PROVE  ac2[sb2[h]] = h \/ h \in Range(pa[sb2[h]])
      OBVIOUS
    <3>1. CASE h = f
      BY <1>4, <1>5, <3>1
    <3>2. CASE h # f
      <4>1. h \in SlabsIn(sb) /\ sb2[h] = sb[h] /\ fo2[h] = fo[h]
        BY <1>7, <3>2
      <4>2. ac[sb[h]] = h \/ h \in Range(pa[sb[h]])
        BY <4>1 DEF Listed
      <4>3. sb[h] \in Buckets /\ h \in Frames /\ h # None
        BY <4>1, FrameTypes DEF SlabsIn
      <4>4. sb[h] # b
        <5> SUFFICES ASSUME sb[h] = b PROVE FALSE
          OBVIOUS
        <5>1. Range(pa[b]) = {}
          BY SMTT(60) DEF Range
        <5>2. ac[b] = h
          BY <4>2, <5>1
        <5> QED BY <4>1, <4>3, <5>2 DEF Exhausted
      <4>5. ac2[sb[h]] = ac[sb[h]]
        BY <1>4, <4>3, <4>4
      <4> QED BY <4>1, <4>2, <4>5
    <3> QED BY <3>1, <3>2
  <2> QED BY <1>4, <1>5, <1>6, <2>1, <2>2, <2>3 DEF Listed
<1>9. Conserved(fo2, lv, sb2)
  <2> SUFFICES ASSUME NEW h \in SlabsIn(sb2)
               PROVE  /\ IsInjective(fo2[h]) /\ Range(fo2[h]) \cap HeldIn(lv, h) = {}
                      /\ Range(fo2[h]) \cup HeldIn(lv, h) = Range(ObjectsOf(h, sb2[h]))
    BY DEF Conserved
  <2>1. CASE h = f
    <3>1. HeldIn(lv, f) = {}
      BY DEF HeldIn, Vacant
    <3> QED BY <1>2, <1>3, <1>5, <1>6, <2>1, <3>1
  <2>2. CASE h # f
    <3>1. h \in SlabsIn(sb) /\ sb2[h] = sb[h] /\ fo2[h] = fo[h]
      BY <1>7, <2>2
    <3> QED BY <3>1 DEF Conserved
  <2> QED BY <2>1, <2>2
<1>10. LiveHeld(lv, sb2, ow, ot)
  <2>1. \A a \in lv : Small(a) => Home(a) \in SlabsIn(sb2) /\ sb2[Home(a)] = bucket_for(a.layout)
    BY <1>7 DEF LiveHeld, Vacant
  <2>2. \A a \in lv : Home(a) \notin SlabsIn(sb) => Home(a) \notin SlabsIn(sb2)
    BY <1>7 DEF Vacant
  <2> QED BY <2>1, <2>2 DEF LiveHeld
<1>11. Apportioned(fo2, lv, sb2, ow, ot)
  BY <1>5, <1>6, <1>9, <1>10 DEF Apportioned
<1> QED BY <1>3, <1>5, <1>6, <1>7, <1>8, <1>11 DEF Refilled, HasRoom

\* dealloc_small: a slab that was full and is not active is listed again.
LEMMA ListAgain ==
  ASSUME NEW ac, NEW pa, NEW fo, NEW sb, Listed(ac, pa, fo, sb), NEW f \in SlabsIn(sb), NEW b, b = sb[f],
         NEW g, g \in [Frames -> Seq(Nat)], g[f] # <<>>, \A h \in Frames : h # f => g[h] = fo[h],
         NEW pa2, pa2 = Relisted(ac, pa, fo, f, b)
  PROVE  Listed(ac, pa2, g, sb)
<1>a. /\ ac \in [Buckets -> Frames \cup {None}] /\ pa \in [Buckets -> Seq(Frames)]
      /\ fo \in [Frames -> Seq(Nat)] /\ sb \in [Frames -> Buckets \cup {None}]
  BY DEF Listed
<1> USE <1>a
<1>1. f \in Frames /\ b \in Buckets
  BY FrameTypes DEF SlabsIn
<1>2. \A h \in SlabsIn(sb) : h \in Frames /\ sb[h] \in Buckets
  BY DEF SlabsIn
<1>3. \A h \in Frames : fo[h] # <<>> => g[h] # <<>>
  OBVIOUS
<1>4. CASE ac[b] = f \/ fo[f] # <<>>
  <2>1. pa2 = pa
    BY <1>4 DEF Relisted
  <2>2. \A h \in SlabsIn(sb) : g[h] # <<>> => ac[sb[h]] = h \/ h \in Range(pa[sb[h]])
    <3> SUFFICES ASSUME NEW h \in SlabsIn(sb), g[h] # <<>>
                 PROVE  ac[sb[h]] = h \/ h \in Range(pa[sb[h]])
      OBVIOUS
    <3>1. CASE fo[h] # <<>>
      BY <3>1 DEF Listed
    <3>2. CASE fo[h] = <<>>
      <4>1. h = f
        BY <1>2, <3>2
      <4> QED BY <1>4, <3>2, <4>1
    <3> QED BY <3>1, <3>2
  <2>3. \A c \in Buckets : \A h \in Range(pa[c]) : g[h] # <<>>
    BY <1>2, <1>3 DEF Listed
  <2>4. Listed(ac, pa, g, sb)
    BY <2>2, <2>3 DEF Listed
  <2> QED BY <2>1, <2>4
<1>5. CASE ac[b] # f /\ fo[f] = <<>>
  <2>1. PICK t : t = <<f>> \o pa[b]
    OBVIOUS
  <2>2. f \notin Range(pa[b]) /\ IsInjective(pa[b])
    BY <1>1, <1>5 DEF Listed
  <2>3. t \in Seq(Frames) /\ Range(t) = Range(pa[b]) \cup {f} /\ IsInjective(t)
    <3>1. PICK s \in Seq(Frames) : s = pa[b]
      BY <1>1
    <3>2. /\ <<f>> \o s \in Seq(Frames) /\ <<f>> \o s # <<>>
          /\ Range(<<f>> \o s) = Range(s) \cup {f}
          /\ IsInjective(s) /\ f \notin Range(s) => IsInjective(<<f>> \o s)
      BY <1>1, Pushed
    <3> QED BY <2>1, <2>2, <3>1, <3>2
  <2>4. pa2 \in [Buckets -> Seq(Frames)] /\ pa2[b] = t /\ \A c \in Buckets : c # b => pa2[c] = pa[c]
    BY <1>1, <1>5, <2>1, <2>3 DEF Relisted
  <2>5. \A c \in Buckets : ac[c] # None =>
          ac[c] \in SlabsIn(sb) /\ sb[ac[c]] = c /\ ac[c] \notin Range(pa2[c])
    <3> SUFFICES ASSUME NEW c \in Buckets, ac[c] # None
                 PROVE  ac[c] \in SlabsIn(sb) /\ sb[ac[c]] = c /\ ac[c] \notin Range(pa2[c])
      OBVIOUS
    <3>1. ac[c] \in SlabsIn(sb) /\ sb[ac[c]] = c /\ ac[c] \notin Range(pa[c])
      BY DEF Listed
    <3>2. CASE c = b
      BY <1>5, <2>3, <2>4, <3>1, <3>2
    <3>3. CASE c # b
      BY <2>4, <3>1, <3>3
    <3> QED BY <3>2, <3>3
  <2>6. \A c \in Buckets : IsInjective(pa2[c]) /\ \A h \in Range(pa2[c]) :
          h \in SlabsIn(sb) /\ sb[h] = c /\ g[h] # <<>>
    <3> SUFFICES ASSUME NEW c \in Buckets
                 PROVE  IsInjective(pa2[c]) /\ \A h \in Range(pa2[c]) :
                          h \in SlabsIn(sb) /\ sb[h] = c /\ g[h] # <<>>
      OBVIOUS
    <3>1. IsInjective(pa[c]) /\ \A h \in Range(pa[c]) : h \in SlabsIn(sb) /\ sb[h] = c /\ g[h] # <<>>
      BY <1>2, <1>3 DEF Listed
    <3>2. CASE c = b
      BY <2>3, <2>4, <3>1, <3>2
    <3>3. CASE c # b
      BY <2>4, <3>1, <3>3
    <3> QED BY <3>2, <3>3
  <2>7. \A h \in SlabsIn(sb) : g[h] # <<>> => ac[sb[h]] = h \/ h \in Range(pa2[sb[h]])
    <3> SUFFICES ASSUME NEW h \in SlabsIn(sb), g[h] # <<>>
                 PROVE  ac[sb[h]] = h \/ h \in Range(pa2[sb[h]])
      OBVIOUS
    <3>1. CASE h = f
      BY <2>3, <2>4, <3>1
    <3>2. CASE h # f
      <4>1. ac[sb[h]] = h \/ h \in Range(pa[sb[h]])
        BY <1>2, <3>2 DEF Listed
      <4>2. \A c \in Buckets : Range(pa[c]) \subseteq Range(pa2[c])
        BY <2>3, <2>4
      <4> QED BY <1>2, <4>1, <4>2
    <3> QED BY <3>1, <3>2
  <2> QED BY <2>4, <2>5, <2>6, <2>7 DEF Listed
<1> QED BY <1>4, <1>5

\* A frame that is free holds no slab and nothing of a caller.
LEMMA FreshFrame ==
  ASSUME IInv, NEW f \in Frames, \A b \in owned : b[1] # f
  PROVE  /\ slab_bucket[f] = None /\ f \notin SlabsIn(slab_bucket) /\ f \notin others
         /\ \A a \in live : Home(a) # f
<1>1. \A k : <<f, k>> \notin owned
  <2> SUFFICES ASSUME NEW k, <<f, k>> \in owned PROVE FALSE
    OBVIOUS
  <2>1. <<f, k>>[1] = f
    OBVIOUS
  <2> QED BY <2>1
<1>2. f \notin SlabsIn(slab_bucket) /\ f \notin others
  BY <1>1 DEF IInv, FramesHeld
<1>3. ASSUME NEW a \in live, Home(a) = f PROVE FALSE
  <2>1. CASE Small(a)
    BY <1>2, <1>3, <2>1 DEF IInv, Apportioned, LiveHeld
  <2>2. CASE ~Small(a)
    BY <1>1, <1>3, <2>2 DEF IInv, Apportioned, LiveHeld, LargeBlock
  <2> QED BY <2>1, <2>2
<1> QED BY <1>2, <1>3 DEF SlabsIn

\* What is held stays held while the frame allocator serves others.
LEMMA Undisturbed ==
  ASSUME NEW fo, NEW lv, NEW sb, NEW ow, NEW ot, NEW ow2, NEW ot2, Apportioned(fo, lv, sb, ow, ot),
         \A a \in lv : ~Small(a) => LargeBlock(a) \in ow2 /\ Home(a) \notin ot2
  PROVE  Apportioned(fo, lv, sb, ow2, ot2)
  BY DEF Apportioned, LiveHeld

\* Before the first allocation nothing is held.
LEMMA InitIInv ==
  ASSUME Init PROVE IInv
<1>1. SlabsIn(slab_bucket) = {}
  BY DEF Init, SlabsIn
<1>2. TotalFrames \in Nat /\ Donated \subseteq Frames
  BY SMTT(60), HeapAssumption DEF Frames, F!Frames
<1>3. /\ BlocksApart(free, owned) /\ FramesHeld(slab_bucket, owned, others)
      /\ others \subseteq Frames /\ ub = FALSE
  BY <1>1, <1>2 DEF Init, BlocksApart, FramesHeld
<1>4. Apportioned(free_objs, live, slab_bucket, owned, others)
  BY SMTT(60), <1>1 DEF Init, Apportioned, LiveHeld, Conserved
<1>5. Listed(active, partial, free_objs, slab_bucket)
  <2>1. \A b \in Buckets : active[b] = None /\ Range(partial[b]) = {} /\ IsInjective(partial[b])
    BY SMTT(60) DEF Init, Range, IsInjective
  <2>2. /\ active \in [Buckets -> Frames \cup {None}] /\ partial \in [Buckets -> Seq(Frames)]
        /\ free_objs \in [Frames -> Seq(Nat)] /\ slab_bucket \in [Frames -> Buckets \cup {None}]
    BY SMTT(60) DEF Init
  <2> QED BY <1>1, <2>1, <2>2 DEF Listed
<1> QED BY <1>3, <1>4, <1>5 DEF IInv

\* alloc_small, from the active slab.
LEMMA KeptByActive ==
  ASSUME IInv, NEW L \in Layouts, AllocFromActive(L)
  PROVE  IInv'
<1>1. PICK b \in Buckets : b = bucket_for(L)
  BY SmallFits DEF AllocFromActive
<1>2. PICK f : f = active[b] /\ f # None /\ free_objs[f] # <<>>
  BY <1>1 DEF AllocFromActive, ActiveHasFree
<1>3. /\ Apportioned(free_objs, live, slab_bucket, owned, others)
      /\ Listed(active, partial, free_objs, slab_bucket)
  BY DEF IInv
<1>4. /\ f \in SlabsIn(slab_bucket) /\ slab_bucket[f] = b /\ bucket_for(L) = slab_bucket[f]
      /\ active[slab_bucket[f]] = f /\ free_objs \in [Frames -> Seq(Nat)]
  BY <1>1, <1>2, <1>3 DEF Listed
<1>5. PICK a : a = [ptr |-> Head(free_objs[f]), layout |-> L]
  OBVIOUS
<1>6. /\ free_objs' = [free_objs EXCEPT ![f] = Tail(free_objs[f])] /\ live' = live \cup {a} /\ ub' = ub
      /\ UNCHANGED <<free, owned, active, partial, slab_bucket, others>>
  BY <1>1, <1>2, <1>5 DEF AllocFromActive, Pop
<1>7. Apportioned(free_objs', live \cup {a}, slab_bucket, owned, others)
  BY <1>2, <1>3, <1>4, <1>5, <1>6, PopObject
<1>8. Listed(active, partial, free_objs', slab_bucket)
  <2>1. \A h \in Frames : h # f => free_objs'[h] = free_objs[h]
    BY <1>4, <1>6
  <2>2. free_objs' \in [Frames -> Seq(Nat)]
    BY <1>7 DEF Apportioned
  <2> QED BY <1>3, <1>4, <2>1, <2>2, ActiveChanges
<1> QED BY <1>6, <1>7, <1>8 DEF IInv

\* alloc_small, from the first slab of the partial list.
LEMMA KeptByPartial ==
  ASSUME IInv, NEW L \in Layouts, AllocFromPartial(L)
  PROVE  IInv'
<1>1. PICK b \in Buckets : b = bucket_for(L)
  BY SmallFits DEF AllocFromPartial
<1>2. PICK f : f = Head(partial[b])
  OBVIOUS
<1>3. Exhausted(active, free_objs, b) /\ partial[b] # <<>>
  BY <1>1 DEF AllocFromPartial, ActiveHasFree, Exhausted
<1>4. /\ active' = [active EXCEPT ![b] = Head(partial[b])]
      /\ partial' = [partial EXCEPT ![b] = Tail(partial[b])]
      /\ UNCHANGED <<free, owned, slab_bucket, others>>
  BY <1>1 DEF AllocFromPartial
<1>5. /\ Apportioned(free_objs, live, slab_bucket, owned, others)
      /\ Listed(active, partial, free_objs, slab_bucket)
  BY DEF IInv
<1>6. Listed(active', partial', free_objs, slab_bucket) /\ HasRoom(free_objs, slab_bucket, Head(partial[b]), b)
  BY <1>3, <1>4, <1>5, TakePartial
<1>7. /\ f \in SlabsIn(slab_bucket) /\ bucket_for(L) = slab_bucket[f] /\ free_objs[f] # <<>>
      /\ active'[slab_bucket[f]] = f /\ free_objs \in [Frames -> Seq(Nat)]
  <2>1. f \in SlabsIn(slab_bucket) /\ slab_bucket[f] = b /\ free_objs[f] # <<>>
    BY <1>2, <1>6 DEF HasRoom
  <2>2. active \in [Buckets -> Frames \cup {None}] /\ free_objs \in [Frames -> Seq(Nat)]
    BY <1>5 DEF Listed
  <2>3. active'[b] = f
    BY <1>2, <1>4, <2>2
  <2> QED BY <1>1, <2>1, <2>2, <2>3
<1>8. PICK a : a = [ptr |-> Head(free_objs[f]), layout |-> L]
  OBVIOUS
<1>9. free_objs' = [free_objs EXCEPT ![f] = Tail(free_objs[f])] /\ live' = live \cup {a} /\ ub' = ub
  BY <1>1, <1>2, <1>7, <1>8 DEF AllocFromPartial, Pop
<1>10. Apportioned(free_objs', live \cup {a}, slab_bucket, owned, others)
  BY <1>5, <1>7, <1>8, <1>9, PopObject
<1>11. Listed(active', partial', free_objs', slab_bucket)
  <2>1. \A h \in Frames : h # f => free_objs'[h] = free_objs[h]
    BY <1>7, <1>9
  <2>2. free_objs' \in [Frames -> Seq(Nat)]
    BY <1>10 DEF Apportioned
  <2> QED BY <1>6, <1>7, <2>1, <2>2, ActiveChanges
<1> QED BY <1>4, <1>9, <1>10, <1>11 DEF IInv

\* alloc_small, from a new slab: refill takes the frame, and the slab has an object to give.
LEMMA KeptByRefill ==
  ASSUME IInv, NEW L \in Layouts, AllocFromRefill(L)
  PROVE  IInv'
<1>1. PICK b \in Buckets : b = bucket_for(L)
  BY SmallFits DEF AllocFromRefill
<1>2. Exhausted(active, free_objs, b) /\ partial[b] = <<>>
  BY <1>1 DEF AllocFromRefill, ActiveHasFree, Exhausted
<1>3. PICK f \in Frames :
        /\ F!Alloc(f, 0) /\ slab_bucket' = [slab_bucket EXCEPT ![f] = b]
        /\ active' = [active EXCEPT ![b] = f] /\ Pop(f, ObjectsOf(f, b), L)
        /\ UNCHANGED <<partial, others>>
  BY <1>1 DEF AllocFromRefill
<1>4. /\ Apportioned(free_objs, live, slab_bucket, owned, others) /\ others \subseteq Frames
      /\ Listed(active, partial, free_objs, slab_bucket) /\ BlocksApart(free, owned)
      /\ FramesHeld(slab_bucket, owned, others)
  BY DEF IInv
<1>5. owned' = owned \cup {<<f, 0>>} /\ 0 \in F!Orders
  BY <1>3, Sizes DEF F!Alloc
<1>6. BlocksApart(free', owned') /\ \A c \in owned : c[1] # f
  BY <1>3, <1>4, <1>5, TakeBlock
<1>7. slab_bucket[f] = None /\ f \notin others /\ Vacant(live, f)
  BY <1>6, FreshFrame DEF Vacant
<1>8. PICK fo : fo = [free_objs EXCEPT ![f] = ObjectsOf(f, b)]
  OBVIOUS
<1>9. /\ Listed(active', partial, fo, slab_bucket') /\ Apportioned(fo, live, slab_bucket', owned, others)
      /\ HasRoom(fo, slab_bucket', f, b)
  <2>1. /\ active' = [active EXCEPT ![b] = f] /\ slab_bucket' = [slab_bucket EXCEPT ![f] = b]
        /\ Listed(active, partial, free_objs, slab_bucket)
        /\ Apportioned(free_objs, live, slab_bucket, owned, others)
    BY <1>3, <1>4
  <2>2. Refilled(active', partial, fo, slab_bucket', live, owned, others, f, b)
    BY <1>2, <1>7, <1>8, <2>1, NewSlab
  <2> QED BY <2>2 DEF Refilled
<1>10. PICK a : a = [ptr |-> Head(fo[f]), layout |-> L]
  OBVIOUS
<1>11. /\ free_objs \in [Frames -> Seq(Nat)] /\ fo \in [Frames -> Seq(Nat)] /\ fo[f] = ObjectsOf(f, b)
       /\ active \in [Buckets -> Frames \cup {None}] /\ slab_bucket \in [Frames -> Buckets \cup {None}]
  <2>1. /\ free_objs \in [Frames -> Seq(Nat)] /\ fo \in [Frames -> Seq(Nat)]
        /\ active \in [Buckets -> Frames \cup {None}] /\ slab_bucket \in [Frames -> Buckets \cup {None}]
    BY <1>4, <1>9 DEF Listed
  <2> QED BY <1>8, <2>1
<1>12. free_objs' = [free_objs EXCEPT ![f] = Tail(ObjectsOf(f, b))] /\ live' = live \cup {a} /\ ub' = ub
  BY <1>3, <1>9, <1>10, <1>11 DEF Pop, HasRoom
<1>13. free_objs' = [fo EXCEPT ![f] = Tail(fo[f])]
  BY <1>8, <1>11, <1>12
<1>14. /\ f \in SlabsIn(slab_bucket') /\ bucket_for(L) = slab_bucket'[f] /\ active'[slab_bucket'[f]] = f
       /\ fo[f] # <<>> /\ SlabsIn(slab_bucket') \subseteq SlabsIn(slab_bucket) \cup {f}
  <2>1. f \in SlabsIn(slab_bucket') /\ slab_bucket'[f] = b /\ fo[f] # <<>>
    BY <1>9 DEF HasRoom
  <2>2. active'[b] = f
    BY <1>3, <1>11
  <2>3. \A h \in SlabsIn(slab_bucket') : h \in SlabsIn(slab_bucket) \cup {f}
    BY <1>3, <1>11 DEF SlabsIn
  <2> QED BY <1>1, <2>1, <2>2, <2>3
<1>15. Apportioned(free_objs', live \cup {a}, slab_bucket', owned, others)
  BY <1>9, <1>10, <1>13, <1>14, PopObject
<1>16. Apportioned(free_objs', live \cup {a}, slab_bucket', owned', others)
  <2>1. \A c \in live \cup {a} : ~Small(c) => LargeBlock(c) \in owned' /\ Home(c) \notin others
    BY <1>5, <1>15 DEF Apportioned, LiveHeld
  <2> QED BY <1>15, <2>1, Undisturbed
<1>17. Listed(active', partial, free_objs', slab_bucket')
  <2>1. \A h \in Frames : h # f => free_objs'[h] = fo[h]
    BY <1>11, <1>13
  <2>2. free_objs' \in [Frames -> Seq(Nat)]
    BY <1>15 DEF Apportioned
  <2> QED BY <1>9, <1>14, <2>1, <2>2, ActiveChanges
<1>18. FramesHeld(slab_bucket', owned', others)
  BY <1>4, <1>5, <1>7, <1>14 DEF FramesHeld
<1> QED BY <1>3, <1>4, <1>6, <1>12, <1>16, <1>17, <1>18 DEF IInv

\* alloc_small, with no object and no frame left.
LEMMA KeptByNull ==
  ASSUME IInv, NEW L \in Layouts, AllocSmallNull(L)
  PROVE  IInv'
<1>1. PICK b \in Buckets : b = bucket_for(L)
  BY SmallFits DEF AllocSmallNull
<1>2. /\ Exhausted(active, free_objs, b)
      /\ active' = [active EXCEPT ![b] = None]
      /\ UNCHANGED <<free, owned, partial, free_objs, slab_bucket, live, others, ub>>
  BY <1>1 DEF AllocSmallNull, ActiveHasFree, Exhausted
<1>3. Listed(active, partial, free_objs, slab_bucket)
  BY DEF IInv
<1>4. Listed(active', partial, free_objs, slab_bucket)
  BY <1>2, <1>3, NoActive
<1> QED BY <1>2, <1>4 DEF IInv

\* alloc_large: a block of its own.
LEMMA KeptByLarge ==
  ASSUME IInv, NEW L \in Layouts, AllocLarge(L)
  PROVE  IInv'
<1>1. PICK k \in F!Orders : k = order_for_large(L) /\ k # None /\ bucket_for(L) = None
  BY LargeFits DEF AllocLarge
<1>2. PICK f \in Frames :
        /\ F!Alloc(f, k) /\ live' = live \cup {[ptr |-> phys_to_virt(f), layout |-> L]}
        /\ UNCHANGED <<slab_vars, others>>
  BY <1>1 DEF AllocLarge
<1>3. /\ live \subseteq Allocations /\ BlocksApart(free, owned)
      /\ LiveHeld(live, slab_bucket, owned, others) /\ Conserved(free_objs, live, slab_bucket)
      /\ FramesHeld(slab_bucket, owned, others)
  BY DEF IInv, Apportioned
<1>4. UNCHANGED <<active, partial, free_objs, slab_bucket, ub, others>>
  BY <1>2 DEF slab_vars
<1>5. owned' = owned \cup {<<f, k>>} /\ f % 2^k = 0
  BY <1>2 DEF F!Alloc, F!Fits
<1>6. BlocksApart(free', owned') /\ \A c \in owned : c[1] # f
  BY <1>2, <1>3, TakeBlock
<1>7. f \notin SlabsIn(slab_bucket) /\ f \notin others /\ \A a \in live : Home(a) # f
  BY <1>6, FreshFrame
<1>8. f \in Nat /\ phys_to_virt(f) \in Nat /\ SlabOf(phys_to_virt(f)) = f
  BY FrameTypes, FirstByte, FrameAt
<1>9. PICK a : a = [ptr |-> phys_to_virt(f), layout |-> L]
  OBVIOUS
<1>10. a.ptr = phys_to_virt(f) /\ a.layout = L /\ a \in Allocations
  BY <1>8, <1>9 DEF Allocations
<1>11. Home(a) = f /\ ~Small(a) /\ LargeBlock(a) = <<f, k>>
  BY <1>1, <1>8, <1>10 DEF Home, Small, LargeBlock
<1>12. live' = live \cup {a}
  BY <1>2, <1>9
<1>13. LiveHeld(live \cup {a}, slab_bucket, owned', others)
  <2>1. \A c \in live : c.ptr # a.ptr
    BY <1>7, <1>8, <1>10 DEF Home
  <2>2. LiveHeld(live, slab_bucket, owned', others)
    BY <1>3, <1>5 DEF LiveHeld
  <2>3. /\ order_for_large(a.layout) # None /\ LargeBlock(a) \in owned'
        /\ Home(a) % 2^order_for_large(a.layout) = 0
        /\ Home(a) \notin SlabsIn(slab_bucket) /\ Home(a) \notin others
        /\ a.ptr = phys_to_virt(Home(a))
    BY <1>1, <1>5, <1>7, <1>10, <1>11
  <2> QED BY <1>11, <2>1, <2>2, <2>3 DEF LiveHeld
<1>14. Conserved(free_objs, live \cup {a}, slab_bucket)
  <2>1. \A h \in SlabsIn(slab_bucket) : HeldIn(live \cup {a}, h) = HeldIn(live, h)
    BY <1>7, <1>11 DEF HeldIn
  <2> QED BY <1>3, <2>1 DEF Conserved
<1>15. FramesHeld(slab_bucket, owned', others)
  BY <1>3, <1>5 DEF FramesHeld
<1>16. Apportioned(free_objs, live \cup {a}, slab_bucket, owned', others)
  BY <1>3, <1>10, <1>13, <1>14 DEF IInv, Apportioned
<1> QED BY <1>4, <1>6, <1>12, <1>15, <1>16 DEF IInv

\* dealloc_small: the object goes back to the slab that SLAB_MASK leads to.
LEMMA KeptByDeallocSmall ==
  ASSUME IInv, NEW a \in live, DeallocSmall(a)
  PROVE  IInv'
<1>1. PICK f : f = Home(a)
  OBVIOUS
<1>2. PICK b : b = bucket_for(a.layout)
  OBVIOUS
<1>3. /\ Apportioned(free_objs, live, slab_bucket, owned, others)
      /\ Listed(active, partial, free_objs, slab_bucket)
  BY DEF IInv
<1>4. /\ b # None /\ live' = live \ {a}
      /\ free_objs' = Linked(free_objs, f, a.ptr)
      /\ partial' = Relisted(active, partial, free_objs, f, b)
      /\ UNCHANGED <<free, owned, active, slab_bucket, others, ub>>
  BY <1>1, <1>2 DEF DeallocSmall, Home, Linked, Relisted
<1>5. Small(a)
  BY <1>2, <1>4 DEF Small
<1>6. /\ Apportioned(free_objs', live \ {a}, slab_bucket, owned, others) /\ free_objs'[f] # <<>>
      /\ f \in SlabsIn(slab_bucket) /\ slab_bucket[f] = bucket_for(a.layout)
  <2>1. /\ Apportioned(free_objs', live \ {a}, slab_bucket, owned, others)
        /\ HasRoom(free_objs', slab_bucket, f, bucket_for(a.layout))
    BY <1>1, <1>3, <1>4, <1>5, PushObject
  <2> QED BY <2>1 DEF HasRoom
<1>7. free_objs \in [Frames -> Seq(Nat)] /\ free_objs' \in [Frames -> Seq(Nat)]
  BY <1>3, <1>6 DEF Apportioned
<1>8. \A h \in Frames : h # f => free_objs'[h] = free_objs[h]
  BY <1>4, <1>7 DEF Linked
<1>9. Listed(active, partial', free_objs', slab_bucket)
  <2>1. b = slab_bucket[f]
    BY <1>2, <1>6
  <2> QED BY <1>3, <1>4, <1>6, <1>7, <1>8, <2>1, ListAgain
<1> QED BY <1>4, <1>6, <1>9 DEF IInv

\* dealloc_large: the block goes back as it was handed out.
LEMMA KeptByDeallocLarge ==
  ASSUME IInv, NEW a \in live, DeallocLarge(a)
  PROVE  IInv'
<1>1. PICK k : k = order_for_large(a.layout)
  OBVIOUS
<1>2. /\ owned \subseteq Frames \X F!Orders /\ live \subseteq Allocations
      /\ LiveHeld(live, slab_bucket, owned, others) /\ Conserved(free_objs, live, slab_bucket)
      /\ BlocksApart(free, owned) /\ FramesHeld(slab_bucket, owned, others)
  BY DEF IInv, BlocksApart, Apportioned
<1>3. ~Small(a)
  BY DEF DeallocLarge, Small
<1>4. PICK f : /\ f = Home(a) /\ LargeBlock(a) = <<f, k>> /\ <<f, k>> \in owned
               /\ a.ptr = phys_to_virt(f) /\ f \notin SlabsIn(slab_bucket) /\ f \notin others
  BY <1>1, <1>2, <1>3 DEF LiveHeld, LargeBlock
<1>5. f \in Nat
  <2>1. f \in Frames
    BY <1>2, <1>4
  <2> QED BY <2>1, FrameTypes
<1>6. virt_to_phys(a.ptr) \div FRAME_SIZE = f
  BY <1>4, <1>5, FrameAt
<1>7. F!Free(f, k) /\ live' = live \ {a} /\ UNCHANGED <<active, partial, free_objs, slab_bucket, ub, others>>
  BY <1>1, <1>6 DEF DeallocLarge, slab_vars
<1>8. owned' = owned \ {<<f, k>>}
  BY <1>7 DEF F!Free
<1>9. BlocksApart(free', owned')
  BY <1>2, <1>7, GiveBlock
<1>10. FramesHeld(slab_bucket, owned', others)
  <2>1. \A h : h # f => <<h, 0>> # <<f, k>>
    OBVIOUS
  <2> QED BY <1>2, <1>4, <1>8, <2>1 DEF FramesHeld
<1>11. LiveHeld(live \ {a}, slab_bucket, owned, others)
  BY <1>2 DEF LiveHeld
<1>12. Conserved(free_objs, live \ {a}, slab_bucket)
  <2>1. \A h \in SlabsIn(slab_bucket) : HeldIn(live \ {a}, h) = HeldIn(live, h)
    BY <1>4 DEF HeldIn
  <2> QED BY <1>2, <2>1 DEF Conserved
<1>13. Apportioned(free_objs, live \ {a}, slab_bucket, owned, others)
  BY <1>2, <1>11, <1>12 DEF IInv, Apportioned
<1>14. \A c \in live \ {a} : ~Small(c) => LargeBlock(c) \in owned' /\ Home(c) \notin others
  <2> SUFFICES ASSUME NEW c \in live \ {a}, ~Small(c)
               PROVE  LargeBlock(c) \in owned' /\ Home(c) \notin others
    OBVIOUS
  <2>1. LargeBlock(c) \in owned /\ c.ptr = phys_to_virt(Home(c)) /\ Home(c) \notin others
    BY <1>2 DEF LiveHeld
  <2>2. Home(c) # f
    BY <1>2, <1>4, <2>1 DEF LiveHeld
  <2>3. LargeBlock(c) # <<f, k>>
    BY <2>2 DEF LargeBlock
  <2> QED BY <1>8, <2>1, <2>3
<1>15. Apportioned(free_objs, live \ {a}, slab_bucket, owned', others)
  BY <1>13, <1>14, Undisturbed
<1> QED BY <1>7, <1>9, <1>10, <1>15 DEF IInv

\* The other users of the frame allocator.
LEMMA KeptByOthers ==
  ASSUME IInv, OtherAlloc \/ OtherFree
  PROVE  IInv'
<1>1. /\ others \subseteq Frames /\ BlocksApart(free, owned) /\ FramesHeld(slab_bucket, owned, others)
      /\ Apportioned(free_objs, live, slab_bucket, owned, others)
      /\ LiveHeld(live, slab_bucket, owned, others)
  BY DEF IInv, Apportioned
<1>2. UNCHANGED <<active, partial, free_objs, slab_bucket, ub, live>>
  BY DEF OtherAlloc, OtherFree, slab_vars
<1>3. CASE OtherAlloc
  <2>1. PICK f \in Frames : F!Alloc(f, 0) /\ others' = others \cup {f}
    BY <1>3 DEF OtherAlloc
  <2>2. owned' = owned \cup {<<f, 0>>} /\ 0 \in F!Orders
    BY <2>1, Sizes DEF F!Alloc
  <2>3. BlocksApart(free', owned') /\ \A c \in owned : c[1] # f
    BY <1>1, <2>1, <2>2, TakeBlock
  <2>4. f \notin SlabsIn(slab_bucket) /\ f \notin others /\ \A a \in live : Home(a) # f
    BY <2>3, FreshFrame
  <2>5. Apportioned(free_objs, live, slab_bucket, owned', others')
    <3>1. \A c \in live : ~Small(c) => LargeBlock(c) \in owned' /\ Home(c) \notin others'
      BY <1>1, <2>1, <2>2, <2>4 DEF LiveHeld
    <3> QED BY <1>1, <3>1, Undisturbed
  <2>6. FramesHeld(slab_bucket, owned', others')
    BY <1>1, <2>1, <2>2, <2>4 DEF FramesHeld
  <2>7. others' \subseteq Frames
    BY <1>1, <2>1
  <2> QED BY <1>2, <2>3, <2>5, <2>6, <2>7 DEF IInv
<1>4. CASE OtherFree
  <2>1. PICK f \in others : F!Free(f, 0) /\ others' = others \ {f}
    BY <1>4 DEF OtherFree
  <2>2. owned' = owned \ {<<f, 0>>}
    BY <2>1 DEF F!Free
  <2>3. BlocksApart(free', owned')
    BY <1>1, <2>1, GiveBlock
  <2>4. \A h, k : h # f => <<h, k>> # <<f, 0>>
    OBVIOUS
  <2>5. FramesHeld(slab_bucket, owned', others')
    BY <1>1, <2>1, <2>2, <2>4 DEF FramesHeld
  <2>6. Apportioned(free_objs, live, slab_bucket, owned', others')
    <3>1. \A c \in live : ~Small(c) => LargeBlock(c) \in owned' /\ Home(c) \notin others'
      <4> SUFFICES ASSUME NEW c \in live, ~Small(c)
                   PROVE  LargeBlock(c) \in owned' /\ Home(c) \notin others'
        OBVIOUS
      <4>1. LargeBlock(c) \in owned /\ Home(c) \notin others
        BY <1>1 DEF LiveHeld
      <4>2. LargeBlock(c) # <<f, 0>>
        BY <2>1, <2>4, <4>1 DEF LargeBlock
      <4> QED BY <2>1, <2>2, <4>1, <4>2
    <3> QED BY <1>1, <3>1, Undisturbed
  <2>7. others' \subseteq Frames
    BY <1>1, <2>1
  <2> QED BY <1>2, <2>3, <2>5, <2>6, <2>7 DEF IInv
<1> QED BY <1>3, <1>4

\* The invariant holds in every reachable state.
LEMMA Invariant == Spec => []IInv
<1>1. ASSUME IInv, [Next]_vars PROVE IInv'
  <2>1. CASE UNCHANGED vars
    BY <1>1, <2>1 DEF vars, IInv
  <2>2. ASSUME NEW L \in Layouts, AllocLargeNull(L) PROVE IInv'
    BY <1>1, <2>2 DEF AllocLargeNull, vars, IInv
  <2> QED BY <1>1, <2>1, <2>2, KeptByActive, KeptByPartial, KeptByRefill, KeptByNull, KeptByLarge,
             KeptByDeallocSmall, KeptByDeallocLarge, KeptByOthers DEF Next
<1> QED BY <1>1, InitIInv, PTL DEF Spec

\* Where a live allocation lies: in frames of a block that is its own or its slab's.
LEMMA WhereLive ==
  ASSUME IInv, NEW a \in live
  PROVE  /\ Home(a) \in Nat
         /\ \A x \in Extent(a) :
              /\ SlabOf(x) \in Nat /\ x \in FrameBytes(SlabOf(x))
              /\ \E b \in owned : b[1] = Home(a) /\ SlabOf(x) \in BlockOf(b)
         /\ a.ptr \in Nat /\ a.layout[2] \in Nat \ {0} /\ Divides(a.layout[2], a.ptr)
         /\ Small(a) =>
              /\ Home(a) \in SlabsIn(slab_bucket) /\ slab_bucket[Home(a)] \in Buckets
              /\ a.ptr \in Range(ObjectsOf(Home(a), slab_bucket[Home(a)]))
              /\ Extent(a) \subseteq Bytes(a.ptr, OBJ_SIZE(slab_bucket[Home(a)]))
<1>1. /\ owned \subseteq Frames \X F!Orders /\ live \subseteq Allocations
      /\ LiveHeld(live, slab_bucket, owned, others) /\ Conserved(free_objs, live, slab_bucket)
      /\ FramesHeld(slab_bucket, owned, others) /\ slab_bucket \in [Frames -> Buckets \cup {None}]
  BY DEF IInv, BlocksApart, Apportioned
<1>2. PICK L \in Layouts : L = a.layout
  BY <1>1 DEF Allocations
<1>3. PICK p \in Nat : p = a.ptr
  BY <1>1 DEF Allocations
<1>4. PICK f : f = Home(a)
  OBVIOUS
<1>5. CASE Small(a)
  <2>1. PICK b \in Buckets : b = bucket_for(L) /\ b = slab_bucket[f] /\ b # None
    BY <1>1, <1>2, <1>4, <1>5, SmallFits DEF LiveHeld, Small
  <2>2. f \in SlabsIn(slab_bucket) /\ f \in Nat
    <3>1. f \in SlabsIn(slab_bucket)
      BY <1>1, <1>4, <1>5 DEF LiveHeld
    <3> QED BY <3>1, FrameTypes DEF SlabsIn
  <2>3. p \in Range(ObjectsOf(f, b))
    <3>1. p \in HeldIn(live, f)
      BY <1>3, <1>4 DEF HeldIn
    <3>2. Range(free_objs[f]) \cup HeldIn(live, f) = Range(ObjectsOf(f, slab_bucket[f]))
      BY <1>1, <2>2 DEF Conserved
    <3> QED BY <2>1, <3>1, <3>2
  <2>4. /\ L[1] \in Nat \ {0} /\ L[2] \in Nat \ {0} /\ L[1] <= OBJ_SIZE(b)
        /\ Divides(L[2], OBJ_SIZE(b)) /\ OBJ_SIZE(b) \in Nat
    BY <2>1, SmallFits, Sizes
  <2>5. Divides(OBJ_SIZE(b), p) /\ Bytes(p, OBJ_SIZE(b)) \subseteq FrameBytes(f)
    BY <2>2, <2>3, Objects
  <2>6. Divides(L[2], p)
    <3>1. L[2] \in Nat
      BY <2>4
    <3> QED BY <2>4, <2>5, <3>1, DividesTrans
  <2>7. Extent(a) \subseteq Bytes(p, OBJ_SIZE(b))
    BY SMTT(60), <1>2, <1>3, <2>4 DEF Extent, Bytes
  <2>8. \A x \in Extent(a) : SlabOf(x) = f /\ x \in FrameBytes(f)
    BY <2>2, <2>5, <2>7, InFrame
  <2>9. PICK c \in owned : c = <<f, 0>>
    BY <1>1, <2>2 DEF FramesHeld
  <2>10. c[1] = f /\ f \in BlockOf(c)
    <3>1. c[1] = f
      BY <2>9
    <3>2. c \in Frames \X F!Orders
      BY <1>1
    <3> QED BY <3>1, <3>2, FrameTypes
  <2>11. \A x \in Extent(a) : /\ SlabOf(x) \in Nat /\ x \in FrameBytes(SlabOf(x))
                             /\ \E d \in owned : d[1] = f /\ SlabOf(x) \in BlockOf(d)
    <3> SUFFICES ASSUME NEW x \in Extent(a)
                 PROVE  /\ SlabOf(x) \in Nat /\ x \in FrameBytes(SlabOf(x))
                        /\ \E d \in owned : d[1] = f /\ SlabOf(x) \in BlockOf(d)
      OBVIOUS
    <3>1. SlabOf(x) = f /\ x \in FrameBytes(f)
      BY <2>8
    <3> QED BY <2>2, <2>10, <3>1
  <2> QED BY <1>2, <1>3, <1>4, <2>1, <2>2, <2>3, <2>4, <2>6, <2>7, <2>11
<1>6. CASE ~Small(a)
  <2>1. PICK k \in F!Orders : k = order_for_large(L)
    BY <1>1, <1>2, <1>6, LargeFits DEF LiveHeld
  <2>2. PICK c \in owned : c = <<f, k>> /\ f % 2^k = 0 /\ p = phys_to_virt(f)
    BY <1>1, <1>2, <1>3, <1>4, <1>6, <2>1 DEF LiveHeld, LargeBlock
  <2>3. c[1] = f /\ c[2] = k
    BY <2>2
  <2>4. f \in Nat /\ BlockOf(c) = F!Block(f, k)
    <3>1. c \in Frames \X F!Orders
      BY <1>1
    <3> QED BY <2>3, <3>1, FrameTypes DEF BlockOf
  <2>5. /\ L[1] \in Nat \ {0} /\ L[2] \in Nat \ {0} /\ L[1] <= 2^k * FRAME_SIZE
        /\ Divides(L[2], 2^k * FRAME_SIZE)
    <3>1. order_for_large(L) # None
      BY <1>1, <1>2, <1>6 DEF LiveHeld
    <3> QED BY <2>1, <3>1, LargeFits
  <2>6. FRAME_SIZE \in Nat \ {0} /\ 2^k \in Nat \ {0} /\ Divides(2^k * FRAME_SIZE, HHDM_OFFSET) /\ HHDM_OFFSET \in Nat
    BY Sizes
  <2>7. PICK z \in Nat : z = 2^k * FRAME_SIZE
    <3>1. PICK q \in Nat : q = 2^k
      BY <2>6
    <3>2. q * FRAME_SIZE \in Nat
      BY SMTT(60), <2>6
    <3> QED BY <3>1, <3>2
  <2>8. Extent(a) \subseteq Bytes(p, z)
    BY SMTT(60), <1>2, <1>3, <2>5, <2>7 DEF Extent, Bytes
  <2>9. ASSUME NEW x \in Extent(a)
        PROVE  /\ SlabOf(x) \in Nat /\ x \in FrameBytes(SlabOf(x))
               /\ \E d \in owned : d[1] = f /\ SlabOf(x) \in BlockOf(d)
    <3>1. x \in Bytes(phys_to_virt(f), 2^k * FRAME_SIZE)
      BY <2>2, <2>7, <2>8
    <3>2. SlabOf(x) \in F!Block(f, k) /\ x \in FrameBytes(SlabOf(x)) /\ SlabOf(x) \in Nat
      BY <2>4, <3>1, InBlock
    <3> QED BY <2>3, <2>4, <3>2
  <2>10. Divides(z, p)
    <3>1. PICK q \in Nat : f = q * 2^k
      BY <2>2, <2>4, <2>6, DividesMod DEF Divides
    <3>2. PICK n \in Nat : n = f * FRAME_SIZE
      BY SMTT(60), <2>4, <2>6
    <3>3. n = q * z
      <4>1. PICK t \in Nat : t = 2^k
        BY <2>6
      <4>2. (q * t) * FRAME_SIZE = q * (t * FRAME_SIZE)
        BY SMTT(60), <2>6
      <4> QED BY <2>7, <3>1, <3>2, <4>1, <4>2
    <3>4. Divides(z, n) /\ Divides(z, HHDM_OFFSET)
      BY <2>6, <2>7, <3>3 DEF Divides
    <3>5. Divides(z, n + HHDM_OFFSET)
      BY <2>6, <3>4, DividesSum
    <3> QED BY <2>2, <2>4, <3>2, <3>5, FrameAt
  <2>11. Divides(L[2], p)
    <3>1. L[2] \in Nat /\ Divides(L[2], z)
      BY <2>5, <2>7
    <3> QED BY <2>10, <3>1, DividesTrans
  <2> QED BY <1>2, <1>3, <1>4, <1>6, <2>4, <2>5, <2>9, <2>11
<1> QED BY <1>5, <1>6

\* A byte of a live allocation in a slab's frame: the allocation is an object of that slab.
LEMMA InSlab ==
  ASSUME IInv, NEW a \in live, NEW x \in Extent(a), NEW f \in SlabsIn(slab_bucket), x \in FrameBytes(f)
  PROVE  Small(a) /\ Home(a) = f
<1>1. f \in Nat /\ SlabOf(x) = f
  BY FrameTypes, InFrame DEF SlabsIn
<1>2. PICK b \in owned : b[1] = Home(a) /\ f \in BlockOf(b)
  BY <1>1, WhereLive
<1>3. PICK c \in owned : c = <<f, 0>>
  BY DEF IInv, FramesHeld
<1>4. c[1] = f
  BY <1>3
<1>5. f \in BlockOf(c)
  <2>1. c \in Frames \X F!Orders
    BY DEF IInv, BlocksApart
  <2> QED BY <1>4, <2>1, FrameTypes
<1>6. b = c
  BY <1>2, <1>5 DEF IInv, BlocksApart
<1>7. Home(a) = f
  BY <1>2, <1>4, <1>6
<1>8. Small(a)
  BY <1>7 DEF IInv, Apportioned, LiveHeld
<1> QED BY <1>7, <1>8

\* Callers share no byte with slab headers and free objects.
LEMMA ApartFromSlabs ==
  ASSUME IInv, NEW a \in live
  PROVE  Extent(a) \cap (HeaderBytes \cup FreeObjectBytes) = {}
<1>a. Slabs = SlabsIn(slab_bucket)
  BY DEF Slabs, SlabsIn
<1> SUFFICES ASSUME NEW x \in Extent(a), x \in HeaderBytes \/ x \in FreeObjectBytes PROVE FALSE
  OBVIOUS
<1>b. /\ Conserved(free_objs, live, slab_bucket) /\ slab_bucket \in [Frames -> Buckets \cup {None}]
      /\ \A f \in SlabsIn(slab_bucket) : f \in Nat /\ slab_bucket[f] \in Buckets
  <2>1. Conserved(free_objs, live, slab_bucket) /\ slab_bucket \in [Frames -> Buckets \cup {None}]
    BY DEF IInv, Apportioned
  <2>2. \A f \in SlabsIn(slab_bucket) : f \in Frames /\ slab_bucket[f] \in Buckets
    BY <2>1 DEF SlabsIn
  <2> QED BY <2>1, <2>2, FrameTypes
<1>1. CASE x \in HeaderBytes
  <2>1. PICK f \in SlabsIn(slab_bucket) : x \in Bytes(phys_to_virt(f), HEADER_SIZE)
    BY <1>1, <1>a DEF HeaderBytes
  <2>2. PICK b \in Buckets : b = slab_bucket[f]
    BY <1>b
  <2>3. x \in FrameBytes(f)
    BY <1>b, <2>1, <2>2, Objects
  <2>4. Small(a) /\ Home(a) = f
    BY <2>3, InSlab
  <2>5. a.ptr \in Range(ObjectsOf(f, b)) /\ x \in Bytes(a.ptr, OBJ_SIZE(b))
    <3>1. /\ a.ptr \in Range(ObjectsOf(Home(a), slab_bucket[Home(a)]))
          /\ Extent(a) \subseteq Bytes(a.ptr, OBJ_SIZE(slab_bucket[Home(a)]))
      BY <2>4, WhereLive
    <3> QED BY <2>2, <2>4, <3>1
  <2>6. Bytes(a.ptr, OBJ_SIZE(b)) \cap Bytes(phys_to_virt(f), HEADER_SIZE) = {}
    BY <1>b, <2>5, Objects
  <2> QED BY <2>1, <2>5, <2>6
<1>2. CASE x \in FreeObjectBytes
  <2>1. PICK f \in SlabsIn(slab_bucket) : \E y \in Range(free_objs[f]) : x \in Bytes(y, OBJ_SIZE(slab_bucket[f]))
    <3> DEFINE U(f) == UNION {Bytes(y, OBJ_SIZE(slab_bucket[f])) : y \in Range(free_objs[f])}
    <3>1. \A f : x \in U(f) => \E y \in Range(free_objs[f]) : x \in Bytes(y, OBJ_SIZE(slab_bucket[f]))
      OBVIOUS
    <3> HIDE DEF U
    <3>2. x \in UNION {U(f) : f \in SlabsIn(slab_bucket)}
      BY <1>2, <1>a DEF FreeObjectBytes, U
    <3>3. PICK f \in SlabsIn(slab_bucket) : x \in U(f)
      BY <3>2
    <3> QED BY <3>1, <3>3
  <2>2. PICK b \in Buckets : b = slab_bucket[f]
    BY <1>b
  <2>3. PICK y \in Range(free_objs[f]) : x \in Bytes(y, OBJ_SIZE(b))
    BY <2>1, <2>2
  <2>4. /\ Range(free_objs[f]) \cap HeldIn(live, f) = {}
        /\ Range(free_objs[f]) \cup HeldIn(live, f) = Range(ObjectsOf(f, slab_bucket[f]))
    BY <1>b DEF Conserved
  <2>5. y \in Range(ObjectsOf(f, b))
    BY <2>2, <2>3, <2>4
  <2>6. x \in FrameBytes(f)
    BY <1>b, <2>3, <2>5, Objects
  <2>7. Small(a) /\ Home(a) = f
    BY <2>6, InSlab
  <2>8. a.ptr \in Range(ObjectsOf(f, b)) /\ x \in Bytes(a.ptr, OBJ_SIZE(b))
    <3>1. /\ a.ptr \in Range(ObjectsOf(Home(a), slab_bucket[Home(a)]))
          /\ Extent(a) \subseteq Bytes(a.ptr, OBJ_SIZE(slab_bucket[Home(a)]))
      BY <2>7, WhereLive
    <3> QED BY <2>2, <2>7, <3>1
  <2>9. a.ptr # y
    BY <2>3, <2>4, <2>7 DEF HeldIn
  <2>10. Bytes(a.ptr, OBJ_SIZE(b)) \cap Bytes(y, OBJ_SIZE(b)) = {}
    BY <1>b, <2>5, <2>8, <2>9, Objects
  <2> QED BY <2>3, <2>8, <2>10
<1> QED BY <1>1, <1>2

\* Callers share no byte with frames that are free or that other users hold.
LEMMA ApartFromFrames ==
  ASSUME IInv, NEW a \in live
  PROVE  /\ Extent(a) \cap UNION {FrameBytes(f) : f \in free \cup others} = {}
         /\ Extent(a) \subseteq UNION {FrameBytes(f) : f \in F!OwnedFrames}
<1>1. ASSUME NEW x \in Extent(a), NEW f \in free \cup others, x \in FrameBytes(f) PROVE FALSE
  <2>1. f \in Nat
    BY FrameTypes DEF IInv, BlocksApart
  <2>2. SlabOf(x) = f
    BY <1>1, <2>1, InFrame
  <2>3. PICK b \in owned : b[1] = Home(a) /\ f \in BlockOf(b)
    BY <2>2, WhereLive
  <2>4. f \notin free
    BY <2>3 DEF IInv, BlocksApart
  <2>5. PICK c \in owned : c = <<f, 0>>
    BY <2>4 DEF IInv, FramesHeld
  <2>6. c[1] = f
    BY <2>5
  <2>7. f \in BlockOf(c)
    <3>1. c \in Frames \X F!Orders
      BY DEF IInv, BlocksApart
    <3> QED BY <2>6, <3>1, FrameTypes
  <2>8. b = c
    BY <2>3, <2>7 DEF IInv, BlocksApart
  <2>9. Home(a) = f /\ f \in others
    BY <2>3, <2>4, <2>6, <2>8
  <2>10. CASE Small(a)
    BY <2>9, <2>10 DEF IInv, Apportioned, LiveHeld, FramesHeld
  <2>11. CASE ~Small(a)
    BY <2>9, <2>11 DEF IInv, Apportioned, LiveHeld
  <2> QED BY <2>10, <2>11
<1>2. \A x \in Extent(a) : x \in UNION {FrameBytes(f) : f \in F!OwnedFrames}
  <2> SUFFICES ASSUME NEW x \in Extent(a) PROVE x \in UNION {FrameBytes(f) : f \in F!OwnedFrames}
    OBVIOUS
  <2>1. PICK b \in owned : SlabOf(x) \in BlockOf(b)
    BY WhereLive
  <2>2. SlabOf(x) \in F!OwnedFrames
    BY <2>1 DEF F!OwnedFrames, BlockOf
  <2>3. x \in FrameBytes(SlabOf(x))
    BY WhereLive
  <2> QED BY <2>2, <2>3
<1> QED BY <1>1, <1>2

\* Two callers share no byte.
LEMMA ApartFromOthers ==
  ASSUME IInv, NEW a \in live, NEW c \in live, a # c
  PROVE  Extent(a) \cap Extent(c) = {}
<1> SUFFICES ASSUME NEW x \in Extent(a), x \in Extent(c) PROVE FALSE
  OBVIOUS
<1>1. PICK b \in owned : b[1] = Home(a) /\ SlabOf(x) \in BlockOf(b)
  BY WhereLive
<1>2. PICK d \in owned : d[1] = Home(c) /\ SlabOf(x) \in BlockOf(d)
  BY WhereLive
<1>3. b = d
  BY <1>1, <1>2 DEF IInv, BlocksApart
<1>4. Home(a) = Home(c)
  BY <1>1, <1>2, <1>3
<1>5. a.ptr # c.ptr
  BY DEF IInv, Apportioned, LiveHeld
<1>6. Small(a) /\ Small(c)
  <2>1. LiveHeld(live, slab_bucket, owned, others)
    BY DEF IInv, Apportioned
  <2>2. CASE ~Small(a) /\ ~Small(c)
    BY <1>4, <1>5, <2>1, <2>2 DEF LiveHeld
  <2>3. CASE Small(a) /\ ~Small(c)
    BY <1>4, <2>1, <2>3 DEF LiveHeld
  <2>4. CASE ~Small(a) /\ Small(c)
    BY <1>4, <2>1, <2>4 DEF LiveHeld
  <2> QED BY <2>2, <2>3, <2>4
<1>7. PICK f \in Nat : f = Home(a)
  BY WhereLive
<1>8. PICK k \in Buckets : k = slab_bucket[f]
  BY <1>6, <1>7, WhereLive
<1>9. a.ptr \in Range(ObjectsOf(f, k)) /\ x \in Bytes(a.ptr, OBJ_SIZE(k))
  <2>1. /\ a.ptr \in Range(ObjectsOf(Home(a), slab_bucket[Home(a)]))
        /\ Extent(a) \subseteq Bytes(a.ptr, OBJ_SIZE(slab_bucket[Home(a)]))
    BY <1>6, WhereLive
  <2> QED BY <1>7, <1>8, <2>1
<1>10. c.ptr \in Range(ObjectsOf(f, k)) /\ x \in Bytes(c.ptr, OBJ_SIZE(k))
  <2>1. /\ c.ptr \in Range(ObjectsOf(Home(c), slab_bucket[Home(c)]))
        /\ Extent(c) \subseteq Bytes(c.ptr, OBJ_SIZE(slab_bucket[Home(c)]))
    BY <1>6, WhereLive
  <2> QED BY <1>4, <1>7, <1>8, <2>1
<1>11. Bytes(a.ptr, OBJ_SIZE(k)) \cap Bytes(c.ptr, OBJ_SIZE(k)) = {}
  BY <1>5, <1>9, <1>10, Objects
<1> QED BY <1>9, <1>10, <1>11

-----------------------------------------------------------------------------
(***************************************************************************)
(* Whatever callers ask for and give back, in any order, what they hold is *)
(* theirs: aligned, and apart from every other allocation, from slab       *)
(* headers, from free objects and from frames that are free or another     *)
(* user's.                                                                 *)
(***************************************************************************)
THEOREM AllocationsApart == Spec => []LiveApart
<1>1. ASSUME IInv PROVE LiveApart
  <2>1. ASSUME NEW a \in live PROVE a.ptr % a.layout[2] = 0
    BY <1>1, WhereLive, DividesMod
  <2>2. ASSUME NEW a \in live PROVE Extent(a) \cap (HeaderBytes \cup FreeObjectBytes) = {}
    BY <1>1, ApartFromSlabs
  <2>3. ASSUME NEW a \in live
        PROVE  /\ Extent(a) \cap UNION {FrameBytes(f) : f \in free \cup others} = {}
               /\ Extent(a) \subseteq UNION {FrameBytes(f) : f \in F!OwnedFrames}
    BY <1>1, ApartFromFrames
  <2>4. ASSUME NEW a \in live, NEW c \in live, a # c PROVE Extent(a) \cap Extent(c) = {}
    BY <1>1, <2>4, ApartFromOthers
  <2> QED BY <2>1, <2>2, <2>3, <2>4 DEF LiveApart
<1> QED BY <1>1, Invariant, PTL

(***************************************************************************)
(* No object of a slab is lost between the free list and the callers, and  *)
(* none is in both, or on the list twice.                                  *)
(***************************************************************************)
THEOREM ObjectsNeverLost == Spec => []ObjectsConserved
<1>1. ASSUME IInv PROVE ObjectsConserved
  BY <1>1 DEF IInv, Apportioned, Conserved, ObjectsConserved, Slabs, SlabsIn, HeldIn, Home
<1> QED BY <1>1, Invariant, PTL

(***************************************************************************)
(* dealloc_small lists a slab when its first object comes back and then    *)
(* never again, and take_partial and refill keep the two places apart: a   *)
(* slab with a free object is in one place of its own bucket, and the      *)
(* unwrap_unchecked in alloc_small finds an object.                        *)
(***************************************************************************)
THEOREM SlabsStayFindable == Spec => []SlabsFindable
<1>1. ASSUME IInv PROVE SlabsFindable
  <2>a. Slabs = SlabsIn(slab_bucket)
    BY DEF Slabs, SlabsIn
  <2>b. Listed(active, partial, free_objs, slab_bucket) /\ ub = FALSE
    BY <1>1 DEF IInv
  <2>1. ASSUME NEW f \in Slabs, NEW p \in Places(f)
        PROVE  \E b \in Buckets : /\ slab_bucket[f] = b /\ p[1] = b
                                  /\ \/ p = <<b, 0>> /\ active[b] = f
                                     \/ \E i \in DOMAIN partial[b] : p = <<b, i>> /\ partial[b][i] = f
    <3>1. CASE \E b \in Buckets : p = <<b, 0>> /\ active[b] = f
      <4>1. PICK b \in Buckets : p = <<b, 0>> /\ active[b] = f
        BY <3>1
      <4>2. f # None
        BY <2>1, FrameTypes DEF Slabs
      <4>3. slab_bucket[f] = b
        BY <2>b, <4>1, <4>2 DEF Listed
      <4>4. p[1] = b
        BY <4>1
      <4> QED BY <4>1, <4>3, <4>4
    <3>2. CASE \E b \in Buckets : \E i \in DOMAIN partial[b] : p = <<b, i>> /\ partial[b][i] = f
      <4>1. PICK b \in Buckets : \E i \in DOMAIN partial[b] : p = <<b, i>> /\ partial[b][i] = f
        BY <3>2
      <4>2. f \in Range(partial[b])
        BY <4>1 DEF Range
      <4>3. slab_bucket[f] = b
        BY <2>b, <4>2 DEF Listed
      <4>4. p[1] = b
        BY SMTT(60), <4>1
      <4> QED BY <4>1, <4>3, <4>4
    <3>3. \/ \E b \in Buckets : p = <<b, 0>> /\ active[b] = f
          \/ \E b \in Buckets : \E i \in DOMAIN partial[b] : p = <<b, i>> /\ partial[b][i] = f
      <4> DEFINE B == {c \in Buckets : active[c] = f}
                 I(b) == {j \in DOMAIN partial[b] : partial[b][j] = f}
                 U(b) == {<<b, i>> : i \in I(b)}
      <4>1. \A b : p \in U(b) => \E i \in DOMAIN partial[b] : p = <<b, i>> /\ partial[b][i] = f
        OBVIOUS
      <4>2. p \in {<<b, 0>> : b \in B} => \E b \in Buckets : p = <<b, 0>> /\ active[b] = f
        OBVIOUS
      <4>3. p \in {<<b, 0>> : b \in B} \/ p \in UNION {U(b) : b \in Buckets}
        BY <2>1 DEF Places
      <4> HIDE DEF U, B
      <4>4. p \in UNION {U(b) : b \in Buckets} => \E b \in Buckets : p \in U(b)
        OBVIOUS
      <4> QED BY <4>1, <4>2, <4>3, <4>4
    <3> QED BY <3>1, <3>2, <3>3
  <2>2. ASSUME NEW f \in Slabs, NEW p \in Places(f), NEW q \in Places(f) PROVE p = q
    <3>1. PICK b \in Buckets : /\ slab_bucket[f] = b
                               /\ \/ p = <<b, 0>> /\ active[b] = f
                                  \/ \E i \in DOMAIN partial[b] : p = <<b, i>> /\ partial[b][i] = f
      BY <2>1
    <3>2. \/ q = <<b, 0>> /\ active[b] = f
          \/ \E i \in DOMAIN partial[b] : q = <<b, i>> /\ partial[b][i] = f
      <4>1. PICK c \in Buckets : /\ slab_bucket[f] = c
                                 /\ \/ q = <<c, 0>> /\ active[c] = f
                                    \/ \E i \in DOMAIN partial[c] : q = <<c, i>> /\ partial[c][i] = f
        BY <2>1
      <4>2. b = c
        BY <3>1, <4>1
      <4> QED BY <4>1, <4>2
    <3>3. f # None
      BY <2>2, FrameTypes DEF Slabs
    <3>4. active[b] = f => \A i \in DOMAIN partial[b] : partial[b][i] # f
      <4>1. active[b] # None => active[b] \notin Range(partial[b])
        BY <2>b DEF Listed
      <4> QED BY <3>3, <4>1 DEF Range
    <3>5. \A i, j \in DOMAIN partial[b] : partial[b][i] = f /\ partial[b][j] = f => i = j
      <4>1. IsInjective(partial[b])
        BY <2>b DEF Listed
      <4> QED BY <4>1 DEF IsInjective
    <3> QED BY <3>1, <3>2, <3>4, <3>5
  <2>3. ASSUME NEW f \in Slabs, NEW p \in Places(f) PROVE p[1] = slab_bucket[f]
    BY <2>1
  <2>4. ASSUME NEW f \in Slabs, free_objs[f] # <<>> PROVE Places(f) # {}
    <3>1. PICK b \in Buckets : b = slab_bucket[f]
      <4>1. slab_bucket \in [Frames -> Buckets \cup {None}]
        BY <2>b DEF Listed
      <4> QED BY <4>1 DEF Slabs
    <3>2. active[b] = f \/ f \in Range(partial[b])
      <4>1. active[slab_bucket[f]] = f \/ f \in Range(partial[slab_bucket[f]])
        BY <2>a, <2>b, <2>4 DEF Listed
      <4> QED BY <3>1, <4>1
    <3>3. CASE active[b] = f
      <4>1. <<b, 0>> \in Places(f)
        BY <3>3 DEF Places
      <4> QED BY <4>1
    <3>4. CASE f \in Range(partial[b])
      <4>1. PICK i \in DOMAIN partial[b] : partial[b][i] = f
        BY <3>4 DEF Range
      <4>2. <<b, i>> \in Places(f)
        <5> DEFINE I(c) == {j \in DOMAIN partial[c] : partial[c][j] = f}
                   U(c) == {<<c, j>> : j \in I(c)}
        <5>1. <<b, i>> \in U(b)
          BY <4>1
        <5>2. UNION {U(c) : c \in Buckets} \subseteq Places(f)
          BY DEF Places
        <5> HIDE DEF U
        <5>3. <<b, i>> \in UNION {U(c) : c \in Buckets}
          BY <5>1
        <5> QED BY <5>2, <5>3
      <4> QED BY <4>2
    <3> QED BY <3>2, <3>3, <3>4
  <2>5. \A b \in Buckets : \A f \in Range(partial[b]) : f \in Slabs /\ free_objs[f] # <<>>
    BY <2>a, <2>b DEF Listed
  <2> QED BY <2>b, <2>2, <2>3, <2>4, <2>5 DEF SlabsFindable
<1> QED BY <1>1, Invariant, PTL
=============================================================================
