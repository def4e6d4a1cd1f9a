------------------------------ MODULE DspProofs ------------------------------
(***************************************************************************)
(* Theorems about the basic operators and the accumulating codec, for      *)
(* words of every width: what the codec accumulates keeps the promises of  *)
(* the comments (KeepsPromises), a shift of either sign is a               *)
(* multiplication by a power of two (ShiftsAlwaysScale), and the quotients *)
(* and products of double precision numbers lose a few units of the last   *)
(* place (FractionsAlwaysAgree).                                           *)
(*                                                                         *)
(* A power of two is a number of subsets: the provers know nothing of      *)
(* exponents, and the cardinality of SUBSET S is what the library says of  *)
(* them.  What holds for every count is proved by the least count for      *)
(* which it does not.  A product of two variables is named before a sum of *)
(* them is estimated, for the provers know no more of it than its name.    *)
(***************************************************************************)
EXTENDS Dsp, FiniteSets, FiniteSetTheorems, WellFoundedInduction, TLAPS

(* What is left of the constants once the words have been given their limits. *)
LEMMA MIsPositive == M \in Nat /\ M >= 32 /\ M = 2 * (H * H) /\ H * H \in Nat
<1>1. H \in Nat /\ H >= 4
  BY WidthAssumption
<1>2. H * H \in Nat /\ H * H >= 16
  BY <1>1
<1> QED
  BY <1>1, <1>2 DEF M

(* The product of two Word16 fits a Word32 with a bit to spare. *)
LEMMA ProductBound ==
  ASSUME NEW a \in Word16, NEW b \in Word16
  PROVE  a * b \in -(H * H) .. H * H
<1>1. H \in Nat /\ a \in Int /\ b \in Int /\ -H <= a /\ a <= H - 1 /\ -H <= b /\ b <= H - 1
  BY WidthAssumption DEF Word16, MIN_16, MAX_16
<1>2. (H - a) * (H + b) >= 0 /\ (H + a) * (H - b) >= 0
      /\ (H - a) * (H - b) >= 0 /\ (H + a) * (H + b) >= 0
  BY <1>1
<1>3. /\ (H - a) * (H + b) = H * H + H * b - a * H - a * b
      /\ (H + a) * (H - b) = H * H - H * b + a * H - a * b
      /\ (H - a) * (H - b) = H * H - H * b - a * H + a * b
      /\ (H + a) * (H + b) = H * H + H * b + a * H + a * b
  BY <1>1
<1>4. a * b \in Int /\ H * H \in Int /\ H * b \in Int /\ a * H \in Int
  BY <1>1
<1> QED
  BY <1>2, <1>3, <1>4

(* L_mult() returns a Word32 at most M - 1 away from zero, and raises Overflow
   for the largest product only. *)
LEMMA MultType ==
  ASSUME NEW a \in Word16, NEW b \in Word16
  PROVE  /\ L_mult(a, b).v \in Word32
         /\ L_mult(a, b).o \in BOOLEAN
         /\ L_mult(a, b).o => L_mult(a, b).v = M - 1
<1>1. a * b \in -(H * H) .. H * H /\ a * b \in Int
  BY ProductBound, WidthAssumption DEF Word16, MIN_16, MAX_16
<1>2. 2 * a * b = 2 * (a * b)
  BY WidthAssumption DEF Word16, MIN_16, MAX_16
<1> QED
  BY <1>1, <1>2, MIsPositive DEF L_mult, Exact, Bound, Word32, MIN_32, MAX_32

(* L_mult0() returns a Word32. *)
LEMMA Mult0Type ==
  ASSUME NEW a \in Word16, NEW b \in Word16
  PROVE  L_mult0(a, b) \in Word32
BY ProductBound, MIsPositive, WidthAssumption
   DEF L_mult0, Word32, MIN_32, MAX_32, Word16, MIN_16, MAX_16

(* A value brought to the nearest Word32. *)
Near32(x) == IF x > M - 1 THEN M - 1 ELSE IF x < -M THEN -M ELSE x

(* L_add() and L_sub() recognise an overflow from three signs; what they
   return is the nearest Word32 to the exact result. *)
LEMMA AddIsNearest ==
  ASSUME NEW x \in Word32, NEW y \in Word32
  PROVE  /\ L_add(x, y).v = Near32(x + y)
         /\ L_add(x, y).o <=> x + y \notin Word32
<1>1. /\ x \in Int /\ y \in Int /\ M \in Int /\ M > 0
      /\ -M <= x /\ x <= M - 1 /\ -M <= y /\ y <= M - 1
  BY MIsPositive DEF Word32, MIN_32, MAX_32
<1>2. CASE x + y > M - 1
  <2>1. Wrap(x + y) = x + y - 2 * M /\ x >= 0 /\ y >= 0 /\ x + y - 2 * M < 0
    BY <1>1, <1>2 DEF Wrap, MAX_32
  <2>2. L_add(x, y) = Bound(MAX_32)
    BY <2>1, <1>1 DEF L_add
  <2> QED
    BY <1>1, <1>2, <2>2 DEF Bound, Near32, Word32, MIN_32, MAX_32
<1>3. CASE x + y < -M
  <2>1. Wrap(x + y) = x + y + 2 * M /\ x < 0 /\ y < 0 /\ ~(x + y + 2 * M < 0)
    BY <1>1, <1>3 DEF Wrap, MAX_32, MIN_32
  <2>2. L_add(x, y) = Bound(MIN_32)
    BY <2>1, <1>1 DEF L_add
  <2> QED
    BY <1>1, <1>3, <2>2 DEF Bound, Near32, Word32, MIN_32, MAX_32
<1>4. CASE x + y <= M - 1 /\ x + y >= -M
  <2>1. Wrap(x + y) = x + y
    BY <1>1, <1>4 DEF Wrap, MAX_32, MIN_32
  <2>2. ~((x < 0) = (y < 0) /\ (x + y < 0) # (x < 0))
    BY <1>1
  <2>3. L_add(x, y) = Exact(x + y)
    BY <2>1, <2>2 DEF L_add
  <2> QED
    BY <1>1, <1>4, <2>3 DEF Exact, Near32, Word32, MIN_32, MAX_32
<1> QED
  BY <1>1, <1>2, <1>3, <1>4

(* So does L_sub(). *)
LEMMA SubIsNearest ==
  ASSUME NEW x \in Word32, NEW y \in Word32
  PROVE  /\ L_sub(x, y).v = Near32(x - y)
         /\ L_sub(x, y).o <=> x - y \notin Word32
<1>1. /\ x \in Int /\ y \in Int /\ M \in Int /\ M > 0
      /\ -M <= x /\ x <= M - 1 /\ -M <= y /\ y <= M - 1
  BY MIsPositive DEF Word32, MIN_32, MAX_32
<1>2. CASE x - y > M - 1
  <2>1. Wrap(x - y) = x - y - 2 * M /\ x >= 0 /\ y < 0 /\ x - y - 2 * M < 0
    BY <1>1, <1>2 DEF Wrap, MAX_32
  <2>2. L_sub(x, y) = Bound(MAX_32)
    BY <2>1, <1>1 DEF L_sub
  <2> QED
    BY <1>1, <1>2, <2>2 DEF Bound, Near32, Word32, MIN_32, MAX_32
<1>3. CASE x - y < -M
  <2>1. Wrap(x - y) = x - y + 2 * M /\ x < 0 /\ y >= 0 /\ ~(x - y + 2 * M < 0)
    BY <1>1, <1>3 DEF Wrap, MAX_32, MIN_32
  <2>2. L_sub(x, y) = Bound(MIN_32)
    BY <2>1, <1>1 DEF L_sub
  <2> QED
    BY <1>1, <1>3, <2>2 DEF Bound, Near32, Word32, MIN_32, MAX_32
<1>4. CASE x - y <= M - 1 /\ x - y >= -M
  <2>1. Wrap(x - y) = x - y
    BY <1>1, <1>4 DEF Wrap, MAX_32, MIN_32
  <2>2. ~((x < 0) # (y < 0) /\ (x - y < 0) # (x < 0))
    BY <1>1
  <2>3. L_sub(x, y) = Exact(x - y)
    BY <2>1, <2>2 DEF L_sub
  <2> QED
    BY <1>1, <1>4, <2>3 DEF Exact, Near32, Word32, MIN_32, MAX_32
<1> QED
  BY <1>1, <1>2, <1>3, <1>4

(* The nearest Word32 is one. *)
LEMMA NearType == \A x \in Int : Near32(x) \in Word32
BY MIsPositive DEF Near32, Word32, MIN_32, MAX_32

-----------------------------------------------------------------------------
(* What an operator without saturation leaves: the exact result e modulo the
   size of the word, and flags from which L_sat() finds the nearest Word32. *)
Keeps(r, e) ==
  /\ r.v \in Word32 /\ r.o \in BOOLEAN /\ r.c \in BOOLEAN
  /\ r.v \in {e - 2 * M, e, e + 2 * M}
  /\ e \notin Word32 => r.o
  /\ r.o => e \notin Word32 \/ e \in {-M, M - 1}
  /\ r.o => Near32(e) = IF r.c THEN MIN_32 ELSE MAX_32
  /\ ~r.o => r.v = e

CarryOf(c) == IF c THEN 1 ELSE 0

(* L_add_c() keeps the sum with the carry, for every Word32 and both carries. *)
LEMMA AddKeeps ==
  ASSUME NEW x \in Word32, NEW y \in Word32, NEW c \in BOOLEAN
  PROVE  Keeps(L_add_c(x, y, c), x + y + CarryOf(c))
<1> DEFINE t == Wrap(x + y)
           e == x + y + CarryOf(c)
           over == (x > 0 /\ y > 0 /\ t < 0) \/ (x < 0 /\ y < 0 /\ t >= 0)
           r == L_add_c(x, y, c)
<1>1. /\ x \in Int /\ y \in Int /\ M \in Int /\ M > 16 /\ CarryOf(c) \in {0, 1}
      /\ -M <= x /\ x <= M - 1 /\ -M <= y /\ y <= M - 1
  BY MIsPositive DEF Word32, MIN_32, MAX_32, CarryOf
<1>2. /\ r.v = Wrap(e)
      /\ r.o <=> (over \/ (c /\ t = MAX_32))
      /\ r.c <=> ((x < 0 /\ y < 0) \/ ((x < 0) # (y < 0) /\ t >= 0) \/ (c /\ t = -1))
      /\ r.o \in BOOLEAN /\ r.c \in BOOLEAN
  BY DEF L_add_c, CarryOf
<1>3. e \in Int /\ -2 * M <= e /\ e <= 2 * M - 1
  BY <1>1
<1>4. Wrap(e) \in Word32 /\ Wrap(e) \in {e - 2 * M, e, e + 2 * M}
  BY <1>1, <1>3 DEF Wrap, Word32, MIN_32, MAX_32
<1>5. t = IF x + y > M - 1 THEN x + y - 2 * M ELSE IF x + y < -M THEN x + y + 2 * M ELSE x + y
  BY <1>1 DEF Wrap, MIN_32, MAX_32
<1>6. CarryOf(c) = IF c THEN 1 ELSE 0
  BY DEF CarryOf
<1> SUFFICES Keeps(r, e)
  OBVIOUS
<1> HIDE DEF t, e, r
<1>7. e = x + y + CarryOf(c)
  BY DEF e
<1>8. CASE x + y > M - 1
  <2>1. x > 0 /\ y > 0 /\ t < 0 /\ r.o /\ e > M - 1 /\ ~r.c
    <3>1. x > 0 /\ y > 0 /\ t < 0 /\ t < -1 /\ e > M - 1
      BY <1>1, <1>5, <1>7, <1>8
    <3> QED
      BY <3>1, <1>1, <1>2
  <2> QED
    BY <1>1, <1>2, <1>3, <1>4, <2>1 DEF Keeps, Near32, Word32, MIN_32, MAX_32
<1>9. CASE x + y < -M
  <2>1. x < 0 /\ y < 0 /\ t >= 0 /\ e <= -M
    BY <1>1, <1>5, <1>7, <1>9
  <2>2. r.o /\ r.c
    BY <2>1, <1>2
  <2> QED
    BY <1>1, <1>2, <1>3, <1>4, <2>1, <2>2 DEF Keeps, Near32, Word32, MIN_32, MAX_32
<1>10. CASE x + y <= M - 1 /\ x + y >= -M
  <2>1. t = x + y
    BY <1>1, <1>5, <1>10
  <2>2. ~over
    BY <1>1, <2>1
  <2>3. CASE c /\ t = M - 1
    <3>1. e = M /\ x >= 0 /\ y >= 0 /\ t # -1
      BY <1>1, <1>6, <1>7, <2>1, <2>3
    <3>2. r.o /\ ~r.c
      BY <1>1, <1>2, <2>3, <3>1 DEF MAX_32
    <3> QED
      BY <1>1, <1>2, <1>3, <1>4, <3>1, <3>2 DEF Keeps, Near32, Word32, MIN_32, MAX_32
  <2>4. CASE ~(c /\ t = M - 1)
    <3>1. ~r.o
      BY <1>2, <2>2, <2>4 DEF MAX_32
    <3>2. e \in Word32 /\ Wrap(e) = e
      BY <1>1, <1>6, <1>7, <1>10, <2>1, <2>4 DEF Word32, Wrap, MIN_32, MAX_32
    <3> QED
      BY <1>1, <1>2, <1>3, <3>1, <3>2 DEF Keeps
  <2> QED
    BY <2>3, <2>4
<1> QED
  BY <1>1, <1>8, <1>9, <1>10

BorrowOf(c) == IF c THEN 0 ELSE 1

(* L_sub_c() keeps the difference with the borrow, but for the operands that
   MissesBorrow names. *)
LEMMA SubKeeps ==
  ASSUME NEW x \in Word32, NEW y \in Word32, NEW c \in BOOLEAN, NEW over \in BOOLEAN,
         ~MissesBorrow(x, y, over, c)
  PROVE  Keeps(L_sub_c(x, y, over, c), x - y - BorrowOf(c))
<1>1. /\ x \in Int /\ y \in Int /\ M \in Int /\ M > 16
      /\ -M <= x /\ x <= M - 1 /\ -M <= y /\ y <= M - 1
  BY MIsPositive DEF Word32, MIN_32, MAX_32
<1>2. CASE c /\ y # MIN_32
  <2>1. -y \in Word32
    BY <1>1, <1>2 DEF Word32, MIN_32, MAX_32
  <2>2. Keeps(L_add_c(x, -y, FALSE), x + (-y) + CarryOf(FALSE))
    BY <2>1, AddKeeps
  <2>3. x + (-y) + CarryOf(FALSE) = x - y - BorrowOf(c)
    BY <1>1, <1>2 DEF CarryOf, BorrowOf
  <2>4. L_sub_c(x, y, over, c) = L_add_c(x, -y, FALSE)
    BY <1>2 DEF L_sub_c
  <2> QED
    BY <2>2, <2>3, <2>4
<1>3. CASE c /\ y = MIN_32
  <2> DEFINE r == L_sub_c(x, y, over, c)
             e == x - y - BorrowOf(c)
  <2>1. r.v = Wrap(x - y) /\ (r.o <=> (over \/ x > 0)) /\ ~r.c
        /\ r.o \in BOOLEAN /\ r.c \in BOOLEAN
    BY <1>3 DEF L_sub_c
  <2>2. x # 0 /\ ~over
    BY <1>3 DEF MissesBorrow
  <2>3. e = x + M /\ x - y = x + M
    BY <1>1, <1>3 DEF BorrowOf, MIN_32
  <2> SUFFICES Keeps(r, e)
    OBVIOUS
  <2> HIDE DEF r, e
  <2>4. CASE x > 0
    <3>1. r.o /\ r.v = x - M
      BY <1>1, <2>1, <2>3, <2>4 DEF Wrap, MAX_32
    <3> QED
      BY <1>1, <2>1, <2>3, <2>4, <3>1 DEF Keeps, Near32, Word32, MIN_32, MAX_32
  <2>5. CASE x < 0
    <3>1. ~r.o /\ r.v = x + M
      BY <1>1, <2>1, <2>2, <2>3, <2>5 DEF Wrap, MAX_32, MIN_32
    <3> QED
      BY <1>1, <2>1, <2>3, <2>5, <3>1 DEF Keeps, Near32, Word32, MIN_32, MAX_32
  <2> QED
    BY <1>1, <2>2, <2>4, <2>5
<1>4. CASE ~c
  <2> DEFINE t == Wrap(x - y)
             r == L_sub_c(x, y, over, c)
             e == x - y - BorrowOf(c)
             above == t < 0 /\ x > 0 /\ y < 0
             below == t > 0 /\ x < 0 /\ y > 0
             same  == t > 0 /\ (x < 0) = (y < 0) /\ x # y
  <2>1. x - y # -M /\ ~over
    BY <1>1, <1>4 DEF MissesBorrow, MIN_32
  <2>2. /\ r.v = Wrap(x - y - 1)
        /\ r.o <=> (t = MIN_32 \/ above \/ below)
        /\ r.c <=> (below \/ same)
        /\ r.o \in BOOLEAN /\ r.c \in BOOLEAN
    BY <1>4, <2>1 DEF L_sub_c
  <2>3. e = x - y - 1
    BY <1>1, <1>4 DEF BorrowOf
  <2>4. t = IF x - y > M - 1 THEN x - y - 2 * M ELSE IF x - y < -M THEN x - y + 2 * M ELSE x - y
    BY <1>1 DEF Wrap, MIN_32, MAX_32
  <2>5. Wrap(x - y - 1) \in Word32 /\ Wrap(x - y - 1) \in {e - 2 * M, e, e + 2 * M}
    BY <1>1, <2>3 DEF Wrap, Word32, MIN_32, MAX_32
  <2> SUFFICES Keeps(r, e)
    OBVIOUS
  <2> HIDE DEF r, e, t
  <2>6. CASE x - y > M - 1
    <3>1. x >= 0 /\ y < 0 /\ t < 0 /\ (x = 0 => t = -M) /\ e >= M - 1
      BY <1>1, <2>3, <2>4, <2>6
    <3>2. r.o /\ ~r.c
      BY <1>1, <2>2, <3>1 DEF MIN_32
    <3> QED
      BY <1>1, <2>2, <2>3, <2>5, <3>1, <3>2 DEF Keeps, Near32, Word32, MIN_32, MAX_32
  <2>7. CASE x - y < -M
    <3>1. x < 0 /\ y > 0 /\ t > 0 /\ e < -M
      BY <1>1, <2>3, <2>4, <2>7
    <3>2. r.o /\ r.c
      BY <2>2, <3>1
    <3> QED
      BY <1>1, <2>2, <2>3, <2>5, <3>1, <3>2 DEF Keeps, Near32, Word32, MIN_32, MAX_32
  <2>8. CASE x - y <= M - 1 /\ x - y >= -M
    <3>1. t = x - y /\ t > -M /\ e \in Word32 /\ Wrap(x - y - 1) = e
      BY <1>1, <2>1, <2>3, <2>4, <2>8 DEF Wrap, Word32, MIN_32, MAX_32
    <3>2. ~r.o
      BY <1>1, <2>2, <3>1 DEF MIN_32
    <3> QED
      BY <1>1, <2>2, <2>3, <2>5, <3>1, <3>2 DEF Keeps
  <2> QED
    BY <1>1, <2>6, <2>7, <2>8
<1> QED
  BY <1>2, <1>3, <1>4

-----------------------------------------------------------------------------
(* After an operator without saturation, either nothing overflowed and the
   accumulator is exact, or the flags say which limit is the nearest. *)
Promise ==
  last = "deferred" =>
    /\ Overflow => Near32(exact) = IF Carry THEN MIN_32 ELSE MAX_32
    /\ ~Overflow => acc = exact /\ exact \in Word32

DspInv == TypeOK /\ Promise

(* What a saturating operator with the result r and the exact result e does. *)
SaturatesTo(r, e) ==
  /\ e - acc \in -M .. M
  /\ r.v = Near32(e)
  /\ e \notin Word32 => r.o
  /\ r.o => e \notin Word32 \/ e - acc \in {M - 1, 1 - M}

(* A saturating operator keeps the invariant and takes a saturated step. *)
LEMMA SaturatingStep ==
  ASSUME DspInv, NEW r, NEW e \in Int, SaturatesTo(r, e), Saturating(r, e)
  PROVE  DspInv' /\ Ideal!Saturated
<1>1. /\ acc' = r.v /\ exact' = e /\ last' = "saturated"
      /\ Overflow' = (Overflow \/ r.o) /\ reg' = reg /\ Carry' = Carry
  BY DEF Saturating
<1>2. acc' = Near32(exact') /\ acc' \in Word32
  BY <1>1, NearType DEF SaturatesTo
<1>3. TypeOK'
  BY <1>1, <1>2 DEF DspInv, TypeOK
<1>4. Promise'
  BY <1>1 DEF Promise
<1>5. Ideal!Saturated
  <2>1. /\ Overflow \/ exact' \notin Word32 => Overflow'
        /\ Overflow' => Overflow \/ exact' \notin Word32 \/ exact' - acc \in {M - 1, 1 - M}
    BY <1>1 DEF SaturatesTo
  <2> QED
    BY <1>1, <1>2, <2>1
       DEF Ideal!Saturated, Ideal!Word, Ideal!Nearest, Near32, SaturatesTo, Word32, MIN_32, MAX_32
<1> QED
  BY <1>3, <1>4, <1>5 DEF DspInv

(* An operator without saturation keeps the invariant, and leaves what it
   promises. *)
LEMMA NonSaturatingStep ==
  ASSUME DspInv, NEW r, NEW e \in Int, NEW p \in {"free", "deferred"},
         e - acc \in -M .. M, r.v \in Word32, r.o \in BOOLEAN, r.c \in BOOLEAN,
         p = "deferred" => Keeps(r, e), NonSaturating(r, e, p)
  PROVE  DspInv' /\ Ideal!Next
<1>1. /\ acc' = r.v /\ exact' = e /\ last' = p
      /\ Overflow' = r.o /\ reg' = reg /\ Carry' = r.c
  BY DEF NonSaturating
<1>2. TypeOK'
  BY <1>1 DEF DspInv, TypeOK
<1>3. CASE p = "free"
  <2>1. Promise' /\ Ideal!Free
    BY <1>1, <1>3 DEF Promise, Ideal!Free, Ideal!Word, Word32, MIN_32, MAX_32
  <2> QED
    BY <1>2, <2>1 DEF DspInv, Ideal!Next
<1>4. CASE p = "deferred"
  <2>1. Promise'
    BY <1>1, <1>4 DEF Promise, Keeps
  <2>2. Ideal!Deferred
    BY <1>1, <1>4 DEF Ideal!Deferred, Ideal!Word, Keeps, Word32, MIN_32, MAX_32
  <2> QED
    BY <1>2, <2>1, <2>2 DEF DspInv, Ideal!Next
<1> QED
  BY <1>3, <1>4

(* The operators that saturate. *)
LEMMA AddStep ==
  ASSUME TypeOK, NEW y \in Word32
  PROVE  /\ SaturatesTo(L_add(acc, y), acc + y) /\ acc + y \in Int
         /\ SaturatesTo(L_sub(acc, y), acc - y) /\ acc - y \in Int
<1>1. acc \in Word32 /\ acc \in Int /\ y \in Int /\ M \in Int /\ -M <= y /\ y <= M - 1
  BY MIsPositive DEF TypeOK, Word32, MIN_32, MAX_32
<1> QED
  BY <1>1, AddIsNearest, SubIsNearest DEF SaturatesTo

(* The operators that accumulate a product, which saturates by itself. *)
LEMMA MacStep ==
  ASSUME TypeOK, NEW a \in Word16
  PROVE  /\ SaturatesTo(L_mac(acc, reg, a), acc + L_mult(reg, a).v)
         /\ SaturatesTo(L_msu(acc, reg, a), acc - L_mult(reg, a).v)
         /\ L_mult(reg, a).v \in Int
<1> DEFINE p == L_mult(reg, a)
<1>1. p.v \in Word32 /\ p.o \in BOOLEAN /\ (p.o => p.v = M - 1) /\ acc \in Word32
  BY MultType DEF TypeOK
<1>2. /\ L_mac(acc, reg, a).v = L_add(acc, p.v).v
      /\ L_mac(acc, reg, a).o <=> (p.o \/ L_add(acc, p.v).o)
      /\ L_msu(acc, reg, a).v = L_sub(acc, p.v).v
      /\ L_msu(acc, reg, a).o <=> (p.o \/ L_sub(acc, p.v).o)
  BY DEF L_mac, L_msu
<1> HIDE DEF p
<1>3. SaturatesTo(L_add(acc, p.v), acc + p.v) /\ SaturatesTo(L_sub(acc, p.v), acc - p.v)
  BY <1>1, AddStep
<1>4. acc \in Int /\ p.v \in Int /\ M \in Int
  BY <1>1, MIsPositive DEF Word32, MIN_32, MAX_32
<1>5. p.o => acc + p.v - acc = M - 1 /\ acc - p.v - acc = 1 - M
  BY <1>1, <1>4
<1>6. SaturatesTo(L_mac(acc, reg, a), acc + p.v)
  BY <1>2, <1>3, <1>4, <1>5 DEF SaturatesTo
<1>7. SaturatesTo(L_msu(acc, reg, a), acc - p.v)
  BY <1>2, <1>3, <1>4, <1>5 DEF SaturatesTo
<1> QED
  BY <1>4, <1>6, <1>7 DEF p

(* The same of a product that is not doubled. *)
LEMMA Mac0Step ==
  ASSUME TypeOK, NEW a \in Word16
  PROVE  /\ SaturatesTo(L_mac0(acc, reg, a), acc + reg * a) /\ acc + reg * a \in Int
         /\ SaturatesTo(L_msu0(acc, reg, a), acc - reg * a) /\ acc - reg * a \in Int
<1>1. L_mult0(reg, a) \in Word32
  BY Mult0Type DEF TypeOK
<1> QED
  BY <1>1, AddStep DEF L_mac0, L_msu0, L_mult0

(* A Word32 operand with the carry or the borrow is within M of the sum. *)
LEMMA OperandRange ==
  ASSUME TypeOK, NEW y \in Word32
  PROVE  /\ acc + y + CarryIn \in Int /\ acc + y + CarryIn - acc \in -M .. M
         /\ acc - y - BorrowIn \in Int /\ acc - y - BorrowIn - acc \in -M .. M
         /\ CarryIn = CarryOf(Carry) /\ BorrowIn = BorrowOf(Carry)
BY MIsPositive
   DEF TypeOK, Word32, MIN_32, MAX_32, CarryIn, BorrowIn, CarryOf, BorrowOf

(* L_sub_c() returns a Word32 and flags, whatever its operands. *)
LEMMA SubCType ==
  ASSUME NEW x \in Word32, NEW y \in Word32, NEW over \in BOOLEAN, NEW c \in BOOLEAN
  PROVE  LET r == L_sub_c(x, y, over, c)
         IN r.v \in Word32 /\ r.o \in BOOLEAN /\ r.c \in BOOLEAN
<1>1. /\ x \in Int /\ y \in Int /\ M \in Int /\ M > 16
      /\ -M <= x /\ x <= M - 1 /\ -M <= y /\ y <= M - 1
  BY MIsPositive DEF Word32, MIN_32, MAX_32
<1>2. Wrap(x - y) \in Word32 /\ Wrap(x - y - 1) \in Word32
  BY <1>1 DEF Wrap, Word32, MIN_32, MAX_32
<1>3. CASE c /\ y # MIN_32
  <2>1. -y \in Word32
    BY <1>1, <1>3 DEF Word32, MIN_32, MAX_32
  <2>2. Keeps(L_add_c(x, -y, FALSE), x + (-y) + CarryOf(FALSE))
    BY <2>1, AddKeeps
  <2> QED
    BY <1>3, <2>2 DEF L_sub_c, Keeps
<1>4. CASE ~(c /\ y # MIN_32)
  BY <1>2, <1>4 DEF L_sub_c
<1> QED
  BY <1>3, <1>4

(* A subtraction without saturation, of an operand or of a product, when
   Overflow is over before it. *)
LEMMA SubCStep ==
  ASSUME DspInv, NEW y \in Word32, NEW over \in BOOLEAN,
         NonSaturating(L_sub_c(acc, y, over, Carry), acc - y - BorrowIn, SubPromise(y, over))
  PROVE  DspInv' /\ Ideal!Next
<1>1. acc \in Word32 /\ Carry \in BOOLEAN
  BY DEF DspInv, TypeOK
<1> DEFINE r == L_sub_c(acc, y, over, Carry)
<1>2. r.v \in Word32 /\ r.o \in BOOLEAN /\ r.c \in BOOLEAN
  BY <1>1, SubCType
<1>3. SubPromise(y, over) \in {"free", "deferred"}
  BY DEF SubPromise
<1>4. SubPromise(y, over) = "deferred" => Keeps(r, acc - y - BorrowIn)
  BY <1>1, SubKeeps, OperandRange DEF SubPromise, DspInv
<1>5. acc - y - BorrowIn \in Int /\ acc - y - BorrowIn - acc \in -M .. M
  BY OperandRange DEF DspInv
<1> HIDE DEF r
<1> QED
  BY <1>2, <1>3, <1>4, <1>5, NonSaturatingStep DEF r

(* An addition without saturation, of an operand or of a product. *)
LEMMA AddCStep ==
  ASSUME DspInv, NEW y \in Word32,
         NonSaturating(L_add_c(acc, y, Carry), acc + y + CarryIn, "deferred")
  PROVE  DspInv' /\ Ideal!Next
<1>1. acc \in Word32 /\ Carry \in BOOLEAN
  BY DEF DspInv, TypeOK
<1> DEFINE r == L_add_c(acc, y, Carry)
           e == acc + y + CarryIn
           p == "deferred"
<1>2. Keeps(r, e)
  BY <1>1, AddKeeps, OperandRange DEF DspInv
<1>3. r.v \in Word32 /\ r.o \in BOOLEAN /\ r.c \in BOOLEAN
  BY <1>2 DEF Keeps
<1>4. e \in Int /\ e - acc \in -M .. M
  <2>1. TypeOK
    BY DEF DspInv
  <2> QED
    BY <2>1, MIsPositive DEF TypeOK, Word32, MIN_32, MAX_32, CarryIn
<1>5. p \in {"free", "deferred"}
  OBVIOUS
<1>6. NonSaturating(r, e, p)
  OBVIOUS
<1>7. p = "deferred" => Keeps(r, e)
  BY <1>2
<1> HIDE DEF r, e, p
<1> QED
  BY <1>3, <1>4, <1>5, <1>6, <1>7, NonSaturatingStep

(* L_sat() repairs what an operator without saturation left. *)
LEMMA SatStep == ASSUME DspInv, Sat PROVE DspInv' /\ Ideal!Next
<1>1. acc \in Word32 /\ Carry \in BOOLEAN /\ Overflow \in BOOLEAN /\ M \in Nat /\ M >= 32
  BY MIsPositive DEF DspInv, TypeOK
<1>2. /\ acc' = (IF Overflow THEN IF Carry THEN MIN_32 ELSE MAX_32 ELSE acc)
      /\ exact' = acc' /\ ~Overflow' /\ Overflow' \in BOOLEAN /\ Carry' \in BOOLEAN
      /\ last' = IF last = "deferred" THEN "repaired" ELSE "free"
      /\ reg' = reg
  BY <1>1 DEF Sat, L_sat
<1>3. acc' \in Word32 /\ acc' \in Int
  BY <1>1, <1>2 DEF Word32, MIN_32, MAX_32
<1>4. DspInv'
  BY <1>2, <1>3 DEF DspInv, TypeOK, Promise
<1>5. CASE last = "deferred"
  <2>1. ASSUME Overflow PROVE acc' = Near32(exact)
    BY <1>2, <1>5, <2>1 DEF DspInv, Promise
  <2>2. ASSUME ~Overflow PROVE acc' = Near32(exact)
    BY <1>1, <1>2, <1>5, <2>2 DEF DspInv, Promise, Near32, Word32, MIN_32, MAX_32
  <2>3. acc' = Near32(exact)
    BY <2>1, <2>2
  <2> QED
    BY <1>2, <1>4, <1>5, <2>3 DEF Ideal!Next, Ideal!Repair, Ideal!Nearest, Near32
<1>6. CASE last # "deferred"
  BY <1>2, <1>3, <1>4, <1>6 DEF Ideal!Next, Ideal!Free, Ideal!Word, Word32, MIN_32, MAX_32
<1> QED
  BY <1>5, <1>6

(* The codec starts another sum with any flags. *)
LEMMA LoadStep ==
  ASSUME DspInv, NEW x \in Operands, NEW o \in BOOLEAN, NEW c \in BOOLEAN, Load(x, o, c)
  PROVE  DspInv' /\ Ideal!Next
<1>1. x \in Word32 /\ x \in Int
  BY OperandsAssumption, MIsPositive DEF Word32, MIN_32, MAX_32
<1>2. DspInv'
  BY <1>1 DEF Load, DspInv, TypeOK, Promise
<1> QED
  BY <1>1, <1>2 DEF Load, Ideal!Next, Ideal!Free, Ideal!Word, Word32, MIN_32, MAX_32

(* Every step of the codec keeps the invariant and is a step that the
   comments promise. *)
LEMMA EveryStep == ASSUME DspInv, [Next]_vars PROVE DspInv' /\ [Ideal!Next]_(Ideal!vars)
<1>0. Operands \subseteq Word32
  BY OperandsAssumption
<1>1. CASE \E x \in Operands, o, c \in BOOLEAN : Load(x, o, c)
  BY <1>1, LoadStep
<1>2. CASE \E y \in Operands : Add(y) \/ Sub(y) \/ AddC(y) \/ SubC(y)
  <2>1. PICK y \in Operands : Add(y) \/ Sub(y) \/ AddC(y) \/ SubC(y)
    BY <1>2
  <2>2. y \in Word32
    BY <1>0
  <2>3. CASE Add(y) \/ Sub(y)
    BY <2>2, <2>3, AddStep, SaturatingStep DEF Add, Sub, DspInv, Ideal!Next
  <2>4. CASE AddC(y)
    BY <2>2, <2>4, AddCStep DEF AddC
  <2>5. CASE SubC(y)
    BY <2>2, <2>5, SubCStep DEF SubC, DspInv, TypeOK
  <2> QED
    BY <2>1, <2>3, <2>4, <2>5
<1>3. CASE \E a \in Word16 : Mac(a) \/ Msu(a) \/ Mac0(a) \/ Msu0(a) \/ MacNs(a) \/ MsuNs(a)
  <2>1. PICK a \in Word16 : Mac(a) \/ Msu(a) \/ Mac0(a) \/ Msu0(a) \/ MacNs(a) \/ MsuNs(a)
    BY <1>3
  <2>2. /\ L_mult(reg, a).v \in Word32 /\ L_mult(reg, a).o \in BOOLEAN
        /\ Overflow \in BOOLEAN /\ acc \in Int /\ TypeOK
    BY MultType, MIsPositive DEF DspInv, TypeOK, Word32, MIN_32, MAX_32
  <2>3. CASE Mac(a) \/ Msu(a)
    <3>1. acc + L_mult(reg, a).v \in Int /\ acc - L_mult(reg, a).v \in Int
      BY <2>2, MacStep
    <3> QED
      BY <2>2, <2>3, <3>1, MacStep, SaturatingStep DEF Mac, Msu, Ideal!Next
  <2>4. CASE Mac0(a) \/ Msu0(a)
    BY <2>2, <2>4, Mac0Step, SaturatingStep DEF Mac0, Msu0, Ideal!Next
  <2>5. CASE MacNs(a)
    BY <2>2, <2>5, AddCStep DEF MacNs, L_macNs
  <2>6. CASE MsuNs(a)
    BY <2>2, <2>6, SubCStep DEF MsuNs, L_msuNs
  <2> QED
    BY <2>1, <2>3, <2>4, <2>5, <2>6
<1>4. CASE Sat
  BY <1>4, SatStep
<1>5. CASE UNCHANGED vars
  BY <1>5 DEF vars, Ideal!vars, DspInv, TypeOK, Promise
<1> QED
  BY <1>1, <1>2, <1>3, <1>4, <1>5 DEF Next

(* The codec begins with an empty accumulator and clear flags. *)
LEMMA InitStep == ASSUME Init PROVE DspInv /\ Ideal!Init
<1>1. 0 \in Word32
  BY MIsPositive DEF Word32, MIN_32, MAX_32
<1> QED
  <2>0. Overflow \in BOOLEAN /\ Carry \in BOOLEAN
    BY Zenon DEF Init
  <2>1. TypeOK
    BY <1>1, <2>0 DEF Init, TypeOK
  <2>2. Promise
    BY DEF Init, Promise
  <2>3. Ideal!Init
    BY DEF Init, Ideal!Init
  <2> QED
    BY <2>1, <2>2, <2>3 DEF DspInv

(* The accumulator stays a Word32 and the flags stay flags, for words of every
   width. *)
THEOREM TypeCorrect == Spec => []TypeOK
<1>1. Init => DspInv
  BY InitStep
<1>2. DspInv /\ [Next]_vars => DspInv'
  BY EveryStep
<1>3. DspInv => TypeOK
  BY DEF DspInv
<1> QED
  BY <1>1, <1>2, <1>3, PTL DEF Spec

(* The operators of basop32.c keep the promises of their comments, for words
   of every width and all operands: a sum is saturated at once, or its flags
   let L_sat() saturate it afterwards. *)
THEOREM KeepsPromises == Spec => IdealSpec
<1>1. Init => DspInv /\ Ideal!Init
  BY InitStep
<1>2. DspInv /\ [Next]_vars => DspInv' /\ [Ideal!Next]_(Ideal!vars)
  BY EveryStep
<1> QED
  BY <1>1, <1>2, PTL DEF Spec, IdealSpec, Ideal!Spec

-----------------------------------------------------------------------------
(* Numbers: induction, division and powers of two. *)

(* A set of natural numbers that is not empty has a least element. *)
LEMMA LeastElement ==
  ASSUME NEW T \in SUBSET Nat, T # {}
  PROVE  \E x \in T : \A y \in T : x <= y
<1> DEFINE R == OpToRel(<, Nat)
<1>1. IsWellFoundedOn(R, Nat)
  BY NatLessThanWellFounded
<1>2. R = {ss \in Nat \X Nat : ss[1] < ss[2]}
  BY DEF OpToRel
<1> HIDE DEF R
<1>3. PICK x \in T : \A y \in T : ~ (<<y, x>> \in R)
  BY <1>1, WFMin
<1>4. \A y \in T : ~(y < x)
  BY <1>2, <1>3
<1> QED
  BY <1>4

(* A set that holds 0, and with each number the next, holds them all. *)
LEMMA Induction ==
  ASSUME NEW S, 0 \in S, \A n \in Nat : n \in S => n + 1 \in S
  PROVE  Nat \subseteq S
<1> SUFFICES ASSUME Nat \ S # {} PROVE FALSE
  OBVIOUS
<1>1. PICK x \in Nat \ S : \A y \in Nat \ S : x <= y
  BY LeastElement
<1>2. x # 0 /\ x - 1 \in Nat /\ x - 1 \in S
  BY <1>1
<1> QED
  BY <1>1, <1>2

(* The same up to a number n, in both directions. *)
LEMMA InductionUpTo ==
  ASSUME NEW S, NEW n \in Nat, 0 \in S, \A i \in 0..n - 1 : i \in S => i + 1 \in S
  PROVE  0..n \subseteq S
<1> DEFINE T == {i \in Nat : i <= n => i \in S}
<1>1. 0 \in T
  OBVIOUS
<1>2. \A i \in Nat : i \in T => i + 1 \in T
  OBVIOUS
<1>3. Nat \subseteq T
  <2> HIDE DEF T
  <2> QED
    BY <1>1, <1>2, Induction
<1> QED
  BY <1>3

(* The same of an integer. *)
LEMMA IntDivision ==
  ASSUME NEW x \in Int, NEW d \in Nat, d > 0
  PROVE  /\ x \div d \in Int /\ x % d \in Nat /\ x % d < d
         /\ x = (x \div d) * d + (x % d)
BY SMT

(* They are the only ones. *)
LEMMA IntDivisionIsUnique ==
  ASSUME NEW x \in Int, NEW d \in Nat, NEW q \in Int, NEW t \in Nat,
         t < d, x = q * d + t
  PROVE  x \div d = q /\ x % d = t
<1> DEFINE p == x \div d
           s == x % d
<1>2. p \in Int /\ s \in Nat /\ s < d /\ q * d + t = p * d + s
  BY IntDivision
<1> HIDE DEF p, s
<1>3. ~(p > q)
  <2>1. SUFFICES ASSUME p > q PROVE FALSE
    OBVIOUS
  <2>2. (p - (q + 1)) * d >= 0 /\ (p - (q + 1)) * d = p * d - (q * d + d)
    BY <1>2, <2>1
  <2> QED
    BY <1>2, <2>2
<1>4. ~(q > p)
  <2>1. SUFFICES ASSUME q > p PROVE FALSE
    OBVIOUS
  <2>2. (q - (p + 1)) * d >= 0 /\ (q - (p + 1)) * d = q * d - (p * d + d)
    BY <1>2, <2>1
  <2> QED
    BY <1>2, <2>2
<1>5. p = q
  BY <1>2, <1>3, <1>4
<1>6. s = t
  BY <1>2, <1>5
<1> QED
  BY <1>5, <1>6 DEF p, s

(* Powers of two, which the provers know nothing of: they come from the size
   of the sets of subsets. *)
LEMMA PowerOfTwo == 2^0 = 1 /\ \A n \in Nat : 2^n \in Nat /\ 2^(n + 1) = 2 * 2^n
<1>1. \A n \in Nat : IsFiniteSet(1..n) /\ Cardinality(1..n) = n
  BY FS_Interval
<1>2. \A n \in Nat : /\ IsFiniteSet(SUBSET (1..n))
                     /\ Cardinality(SUBSET (1..n)) = 2^n
                     /\ Cardinality(SUBSET (1..n)) \in Nat
  <2> TAKE n \in Nat
  <2>1. IsFiniteSet(1..n) /\ Cardinality(1..n) = n
    BY <1>1
  <2> QED
    BY <2>1, FS_SUBSET, FS_CardinalityType
<1>3. 2^0 = 1
  <2>1. SUBSET (1..0) = {{}}
    OBVIOUS
  <2>2. Cardinality({{}}) = 1
    BY FS_Singleton
  <2>3. 0 \in Nat
    OBVIOUS
  <2> QED
    BY <2>1, <2>2, <2>3, <1>2
<1>4. ASSUME NEW n \in Nat PROVE 2^(n + 1) = 2 * 2^n
  <2> DEFINE S == SUBSET (1..n)
             with(A) == A \cup {n + 1}
             T == {with(A) : A \in S}
             f == [A \in S |-> with(A)]
  <2>1. SUBSET (1..n + 1) = S \cup T
    <3>1. ASSUME NEW A \in SUBSET (1..n + 1) PROVE A \in S \cup T
      <4>1. CASE n + 1 \in A
        <5>1. A \ {n + 1} \in S /\ A = with(A \ {n + 1})
          BY <4>1
        <5> QED
          BY <5>1
      <4>2. CASE n + 1 \notin A
        BY <4>2
      <4> QED
        BY <4>1, <4>2
    <3>2. ASSUME NEW A \in S \cup T PROVE A \in SUBSET (1..n + 1)
      OBVIOUS
    <3> QED
      BY <3>1, <3>2
  <2>2. S \cap T = {}
    OBVIOUS
  <2>3. f \in Bijection(S, T)
    <3>1. f \in [S -> T]
      OBVIOUS
    <3>2. ASSUME NEW A \in S, NEW C \in S, f[A] = f[C] PROVE A = C
      <4>1. A \cup {n + 1} = C \cup {n + 1} /\ n + 1 \notin A /\ n + 1 \notin C
        BY <3>2
      <4> QED
        BY <4>1
    <3>3. IsInjective(f)
      BY <3>1, <3>2 DEF IsInjective
    <3>4. \A t \in T : \E s \in S : f[s] = t
      OBVIOUS
    <3> QED
      BY <3>1, <3>3, <3>4 DEF Bijection, Injection, Surjection
  <2>4. IsFiniteSet(S) /\ Cardinality(S) = 2^n /\ Cardinality(S) \in Nat
    BY <1>2
  <2>5. IsFiniteSet(T) /\ Cardinality(T) = Cardinality(S)
    <3>1. ExistsBijection(S, T)
      BY <2>3 DEF ExistsBijection
    <3> HIDE DEF S, T
    <3> QED
      BY <3>1, <2>4, FS_Bijection
  <2>6. Cardinality(S \cup T) = Cardinality(S) + Cardinality(T) - Cardinality(S \cap T)
    <3> HIDE DEF S, T
    <3> QED
      BY <2>4, <2>5, FS_Union
  <2>7. Cardinality(S \cap T) = 0
    BY <2>2, FS_EmptySet
  <2>8. Cardinality(SUBSET (1..n + 1)) = 2^(n + 1)
    <3>1. n + 1 \in Nat
      OBVIOUS
    <3> QED
      BY <3>1, <1>2
  <2> HIDE DEF S, T, f
  <2>9. Cardinality(S \cup T) = 2 * Cardinality(S)
    BY <2>4, <2>5, <2>6, <2>7
  <2> QED
    BY <2>1, <2>4, <2>8, <2>9, Zenon
<1> QED
  BY <1>2, <1>3, <1>4

(* Powers of two grow faster than their exponents, and multiply as the
   exponents add up. *)
LEMMA PowersGrow ==
  /\ \A n \in Nat : 2^n \in Nat /\ 2^n >= 1 /\ 2^n > n
  /\ \A m, n \in Nat : 2^(m + n) = 2^m * 2^n
  /\ \A m, n \in Nat : m <= n => 2^m <= 2^n
<1>1. 2^0 = 1 /\ \A n \in Nat : 2^n \in Nat /\ 2^(n + 1) = 2 * 2^n
  BY PowerOfTwo
<1>2. \A n \in Nat : 2^n >= 1 /\ 2^n > n
  <2> DEFINE S == {n \in Nat : 2^n >= 1 /\ 2^n > n}
  <2>1. 0 \in S
    BY <1>1
  <2>2. \A n \in Nat : n \in S => n + 1 \in S
    BY <1>1
  <2> HIDE DEF S
  <2>3. Nat \subseteq S
    BY <2>1, <2>2, Induction
  <2> QED
    BY <2>3 DEF S
<1>3. ASSUME NEW m \in Nat PROVE \A n \in Nat : 2^(m + n) = 2^m * 2^n
  <2> DEFINE S == {n \in Nat : 2^(m + n) = 2^m * 2^n}
  <2>1. 0 \in S
    <3>1. m + 0 = m /\ 2^m \in Nat
      BY <1>1
    <3> QED
      BY <1>1, <3>1
  <2>2. ASSUME NEW n \in Nat, n \in S PROVE n + 1 \in S
    <3>1. m + (n + 1) = (m + n) + 1 /\ m + n \in Nat
      OBVIOUS
    <3>2. 2^((m + n) + 1) = 2 * 2^(m + n)
      BY <1>1, <3>1
    <3>3. 2^(m + n) = 2^m * 2^n /\ 2^m \in Nat /\ 2^n \in Nat /\ 2^(n + 1) = 2 * 2^n
      BY <1>1, <2>2
    <3>4. 2 * (2^m * 2^n) = 2^m * (2 * 2^n)
      BY <3>3
    <3> QED
      BY <3>1, <3>2, <3>3, <3>4
  <2> HIDE DEF S
  <2>3. Nat \subseteq S
    BY <2>1, <2>2, Induction
  <2> QED
    BY <2>3 DEF S
<1>4. ASSUME NEW m \in Nat, NEW n \in Nat, m <= n PROVE 2^m <= 2^n
  <2> DEFINE k == n - m
  <2>1. k \in Nat /\ n = m + k
    BY <1>4
  <2> HIDE DEF k
  <2>2. 2^n = 2^m * 2^k /\ 2^m \in Nat /\ 2^k \in Nat /\ 2^k >= 1
    BY <1>1, <1>2, <1>3, <2>1
  <2>3. 2^m * 2^k >= 2^m
    BY <2>2
  <2> QED
    BY <2>2, <2>3
<1> QED
  BY <1>1, <1>2, <1>3, <1>4

-----------------------------------------------------------------------------
(* The limits of the words as powers of two. *)
LEMMA WordSizes ==
  /\ w \in Nat /\ w - 2 \in Nat /\ w - 1 \in Nat /\ 2 * w - 2 \in Nat /\ 2 * w - 1 \in Nat
  /\ H = 2^(w - 1) /\ H \div 2 = 2^(w - 2) /\ H = 2 * (H \div 2) /\ H \div 2 \in Nat
  /\ H \in Nat /\ H >= 4
  /\ H * H = 2^(2 * w - 2) /\ M = 2^(2 * w - 1)
<1>1. /\ w \in Nat /\ w >= 3 /\ H = 2^(w - 1) /\ H \in Nat /\ H >= 4
      /\ w - 2 \in Nat /\ w - 1 \in Nat /\ 2 * w - 2 \in Nat /\ 2 * w - 1 \in Nat
  BY WidthAssumption
<1>2. H = 2 * 2^(w - 2) /\ 2^(w - 2) \in Nat
  <2>1. (w - 2) + 1 = w - 1
    BY <1>1
  <2> QED
    BY <2>1, <1>1, PowerOfTwo
<1>3. H \div 2 = 2^(w - 2)
  <2> DEFINE h == 2^(w - 2)
  <2>1. h \in Nat /\ H = 2 * h
    BY <1>2
  <2> HIDE DEF h
  <2>2. H \div 2 = h
    BY <2>1
  <2> QED
    BY <2>2 DEF h
<1>4. H * H = 2^(2 * w - 2)
  <2>1. (w - 1) + (w - 1) = 2 * w - 2
    BY <1>1
  <2>2. 2^((w - 1) + (w - 1)) = H * H
    BY <1>1, PowersGrow
  <2> QED
    BY <2>1, <2>2
<1>5. M = 2^(2 * w - 1)
  <2>1. (2 * w - 2) + 1 = 2 * w - 1
    BY <1>1
  <2>2. 2^((2 * w - 2) + 1) = 2 * 2^(2 * w - 2)
    BY <1>1, PowerOfTwo
  <2>3. M = 2 * (H * H)
    BY MIsPositive
  <2> QED
    BY <2>1, <2>2, <2>3, <1>4
<1> QED
  BY <1>1, <1>2, <1>3, <1>4, <1>5

(* A shift to the right divides, and rounds down whatever the sign. *)
LEMMA ShiftedDownIs ==
  ASSUME NEW x \in Int, NEW n \in Nat
  PROVE  ShiftedDown(x, n) = x \div 2^n
<1> DEFINE d == 2^n
<1>1. d \in Nat /\ d > 0
  BY PowersGrow
<1> HIDE DEF d
<1>2. CASE x < 0
  <2> DEFINE y == -1 - x
             q == y \div d
             t == y % d
  <2>1. y \in Int
    OBVIOUS
  <2>2. q \in Int /\ t \in Nat /\ t < d /\ y = q * d + t
    <3> HIDE DEF y
    <3> QED
      BY <2>1, <1>1, IntDivision
  <2> HIDE DEF q, t
  <2> DEFINE p == -1 - q
             s == (d - 1) - t
  <2>3. p \in Int /\ s \in Nat /\ s < d /\ x = p * d + s
    BY <2>2, <1>1
  <2> HIDE DEF p, s
  <2>4. x \div d = p
    BY <2>3, <1>1, IntDivisionIsUnique
  <2>5. ShiftedDown(x, n) = -1 - q
    BY <1>2 DEF ShiftedDown, q, d
  <2> QED
    BY <2>4, <2>5 DEF p, d
<1>3. CASE ~(x < 0)
  BY <1>3 DEF ShiftedDown
<1> QED
  BY <1>2, <1>3

(* As far as the width and farther, nothing is left but the sign. *)
LEMMA OnlySignIsLeft ==
  ASSUME NEW x \in Int, NEW n \in Nat, -(2^n) <= x, x < 2^n
  PROVE  x \div 2^n = IF x < 0 THEN -1 ELSE 0
<1> DEFINE d == 2^n
           q == IF x < 0 THEN -1 ELSE 0
           t == IF x < 0 THEN x + d ELSE x
<1>1. d \in Nat /\ d > 0
  BY PowersGrow
<1>2. -d <= x /\ x < d
  OBVIOUS
<1> HIDE DEF d
<1>3. q \in Int /\ t \in Nat /\ t < d /\ x = q * d + t
  <2>1. CASE x < 0
    BY <2>1, <1>1, <1>2
  <2>2. CASE ~(x < 0)
    BY <2>2, <1>1, <1>2
  <2> QED
    BY <2>1, <2>2
<1>4. x \div d = q
  <2> HIDE DEF q, t
  <2> QED
    BY <1>1, <1>3, IntDivisionIsUnique
<1> QED
  BY <1>4 DEF d

(* A right shift by n of a word of m + 1 bits, which stops at its width, and
   the same of a count cut to k. *)
LEMMA RightShift ==
  ASSUME NEW m \in Nat, NEW x \in Int, -(2^m) <= x, x < 2^m, NEW n \in Nat
  PROVE  /\ (IF n >= m THEN IF x < 0 THEN -1 ELSE 0 ELSE ShiftedDown(x, n)) = x \div 2^n
         /\ \A k \in Nat : k >= m => x \div 2^Least(n, k) = x \div 2^n
<1>1. ASSUME NEW i \in Nat, i >= m PROVE x \div 2^i = IF x < 0 THEN -1 ELSE 0
  <2>1. 2^m <= 2^i /\ 2^m \in Nat /\ 2^i \in Nat
    BY <1>1, PowersGrow
  <2>2. -(2^i) <= x /\ x < 2^i
    <3> DEFINE p == 2^m
               q == 2^i
    <3>1. p <= q /\ p \in Nat /\ q \in Nat /\ -p <= x /\ x < p
      BY <2>1
    <3> HIDE DEF p, q
    <3>2. -q <= x /\ x < q
      BY <3>1
    <3> QED
      BY <3>2 DEF q
  <2> QED
    BY <2>2, OnlySignIsLeft
<1>2. (IF n >= m THEN IF x < 0 THEN -1 ELSE 0 ELSE ShiftedDown(x, n)) = x \div 2^n
  <2>1. CASE n >= m
    BY <2>1, <1>1
  <2>2. CASE ~(n >= m)
    BY <2>2, ShiftedDownIs
  <2> QED
    BY <2>1, <2>2
<1>3. ASSUME NEW k \in Nat, k >= m PROVE x \div 2^Least(n, k) = x \div 2^n
  <2>1. CASE n < k
    BY <2>1 DEF Least
  <2>2. CASE ~(n < k)
    <3>1. n >= m /\ Least(n, k) = k
      BY <2>2, <1>3 DEF Least
    <3>2. x \div 2^k = (IF x < 0 THEN -1 ELSE 0) /\ x \div 2^n = (IF x < 0 THEN -1 ELSE 0)
      BY <3>1, <1>1, <1>3
    <3> QED
      BY <3>1, <3>2
  <2> QED
    BY <2>1, <2>2
<1> QED
  BY <1>2, <1>3

(* Farther to the left than the width, every operand but zero saturates. *)
LEMMA FarLeft ==
  ASSUME NEW m \in Nat, NEW low, NEW high, low = -(2^m), high = 2^m - 1,
         NEW x \in low..high, NEW n \in Nat, n > m
  PROVE  Scaled(x, n, low, high) =
           IF x = 0 THEN Exact(0) ELSE Bound(IF x > 0 THEN high ELSE low)
<1> DEFINE L == 2^m
           p == 2^n
           y == x * p
<1>1. L \in Nat /\ L >= 1 /\ p \in Nat /\ p >= 2 * L
  <2>1. 2^(m + 1) = 2 * L /\ L \in Nat /\ L >= 1
    BY PowerOfTwo, PowersGrow
  <2>2. 2^(m + 1) <= 2^n /\ 2^n \in Nat
    BY PowersGrow
  <2> QED
    BY <2>1, <2>2
<1>2. low = -L /\ high = L - 1 /\ x \in Int /\ -L <= x /\ x < L
  <2>1. low = -L /\ high = L - 1
    OBVIOUS
  <2> HIDE DEF L
  <2> QED
    BY <2>1, <1>1
<1>3. Scaled(x, n, low, high) = [v |-> Nearest(y, low, high), o |-> y \notin low..high]
  <2>1. ~(n < 0)
    OBVIOUS
  <2> QED
    BY <2>1 DEF Scaled
<1> HIDE DEF L, p
<1>4. CASE x = 0
  <2>1. y = 0
    BY <1>1, <1>4
  <2>2. Nearest(0, low, high) = 0 /\ 0 \in low..high
    BY <1>1, <1>2 DEF Nearest
  <2> QED
    BY <1>3, <1>4, <2>1, <2>2 DEF Exact
<1>5. CASE x > 0
  <2>1. y \in Int /\ y >= 2 * L
    <3>1. (x - 1) * p >= 0 /\ (x - 1) * p = x * p - p /\ x * p \in Int
      BY <1>1, <1>2, <1>5
    <3> QED
      BY <3>1, <1>1
  <2> HIDE DEF y
  <2>2. Nearest(y, low, high) = high /\ y \notin low..high
    BY <1>1, <1>2, <2>1 DEF Nearest
  <2>3. Scaled(x, n, low, high) = Bound(high)
    BY <1>3, <2>2 DEF Bound
  <2>4. x # 0 /\ (IF x > 0 THEN high ELSE low) = high
    BY <1>2, <1>5
  <2> QED
    BY <2>3, <2>4
<1>6. CASE x < 0
  <2>1. y \in Int /\ y <= -(2 * L)
    <3>1. (-1 - x) * p >= 0 /\ (-1 - x) * p = -p - x * p /\ x * p \in Int
      BY <1>1, <1>2, <1>6
    <3> QED
      BY <3>1, <1>1
  <2> HIDE DEF y
  <2>2. Nearest(y, low, high) = low /\ y \notin low..high
    BY <1>1, <1>2, <2>1 DEF Nearest
  <2>3. Scaled(x, n, low, high) = Bound(low)
    BY <1>3, <2>2 DEF Bound
  <2>4. x # 0 /\ (IF x > 0 THEN high ELSE low) = low
    BY <1>2, <1>6
  <2> QED
    BY <2>3, <2>4
<1> QED
  BY <1>2, <1>4, <1>5, <1>6

(* A count cut to k, beyond the width, makes no difference. *)
LEMMA LeftShiftCut ==
  ASSUME NEW m \in Nat, NEW low, NEW high, low = -(2^m), high = 2^m - 1,
         NEW x \in low..high, NEW n \in Nat, NEW k \in Nat, k > m
  PROVE  Scaled(x, Least(n, k), low, high) = Scaled(x, n, low, high)
<1>1. CASE n < k
  BY <1>1 DEF Least
<1>2. CASE ~(n < k)
  <2>1. Least(n, k) = k /\ n > m
    BY <1>2 DEF Least
  <2> QED
    BY <2>1, FarLeft
<1> QED
  BY <1>1, <1>2

(* shl() of a count that is not negative. *)
LEMMA ShlUpIs ==
  ASSUME NEW a \in Word16, NEW n \in Nat
  PROVE  ShlUp(a, n) = Scaled(a, n, MIN_16, MAX_16)
<1> DEFINE p == 2^n
           y == a * p
<1>1. /\ H \in Nat /\ H >= 4 /\ a \in Int /\ a >= -H /\ a <= H - 1 /\ p \in Nat /\ p >= 1
      /\ w - 1 \in Nat /\ MIN_16 = -(2^(w - 1)) /\ MAX_16 = 2^(w - 1) - 1
      /\ MIN_16 = -H /\ MAX_16 = H - 1 /\ a \in MIN_16..MAX_16
  <2>1. /\ H \in Nat /\ H >= 4 /\ w - 1 \in Nat /\ H = 2^(w - 1) /\ p \in Nat /\ p >= 1
        /\ a \in MIN_16..MAX_16 /\ MIN_16 = -H /\ MAX_16 = H - 1
    BY WordSizes, PowersGrow DEF Word16, MIN_16, MAX_16
  <2>2. MIN_16 = -(2^(w - 1)) /\ MAX_16 = 2^(w - 1) - 1
    BY <2>1
  <2> HIDE DEF p
  <2>3. a \in Int /\ a >= -H /\ a <= H - 1
    BY <2>1
  <2> QED
    BY <2>1, <2>2, <2>3
<1>2. CASE n > w - 1
  <2>1. Scaled(a, n, MIN_16, MAX_16) =
          IF a = 0 THEN Exact(0) ELSE Bound(IF a > 0 THEN MAX_16 ELSE MIN_16)
    BY <1>1, <1>2, FarLeft
  <2>2. CASE a = 0
    <3>1. a * 2^n = 0
      BY <2>2, <1>1
    <3> QED
      BY <2>1, <2>2, <3>1 DEF ShlUp
  <2>3. CASE a # 0
    BY <2>1, <2>3, <1>2 DEF ShlUp
  <2> QED
    BY <2>2, <2>3
<1>3. CASE ~(n > w - 1)
  <2>1. Scaled(a, n, MIN_16, MAX_16) =
          [v |-> Nearest(y, MIN_16, MAX_16), o |-> y \notin MIN_16..MAX_16]
    BY DEF Scaled
  <2>2. ShlUp(a, n) = IF a # 0 /\ y \notin MIN_16..MAX_16
                      THEN Bound(IF a > 0 THEN MAX_16 ELSE MIN_16) ELSE Exact(y)
    BY <1>3 DEF ShlUp, Word16
  <2>3. /\ y \in Int /\ (a = 0 => y = 0) /\ (a > 0 => y > 0) /\ (a < 0 => y < 0)
    <3> HIDE DEF p
    <3>1. y \in Int /\ (a = 0 => y = 0)
      BY <1>1
    <3>2. a > 0 => y > 0
      BY <1>1
    <3>3. a < 0 => y < 0
      <4> SUFFICES ASSUME a < 0 PROVE y < 0
        OBVIOUS
      <4>1. (-a) * p > 0 /\ (-a) * p = -(a * p)
        BY <1>1
      <4> QED
        BY <4>1, <3>1
    <3> QED
      BY <3>1, <3>2, <3>3
  <2> HIDE DEF y
  <2>4. CASE y \in MIN_16..MAX_16
    <3>1. Nearest(y, MIN_16, MAX_16) = y
      BY <2>3, <2>4, <1>1 DEF Nearest
    <3> QED
      BY <2>1, <2>2, <2>4, <3>1 DEF Exact
  <2>5. CASE y \notin MIN_16..MAX_16
    <3>1. a # 0
      BY <2>3, <2>5, <1>1
    <3>2. Nearest(y, MIN_16, MAX_16) = IF a > 0 THEN MAX_16 ELSE MIN_16
      BY <3>1, <2>3, <2>5, <1>1 DEF Nearest
    <3> QED
      BY <2>1, <2>2, <2>5, <3>1, <3>2 DEF Bound
  <2> QED
    BY <2>4, <2>5
<1> QED
  BY <1>2, <1>3

(* One doubling of a saturated product is the saturated product of one power
   more. *)
LEMMA OneDoubling ==
  ASSUME NEW x \in Word32, NEW i \in Nat
  PROVE  LET y == Scaled(x, i, MIN_32, MAX_32) IN
         Scaled(x, i + 1, MIN_32, MAX_32) =
           IF y.o THEN y
           ELSE IF y.v > H * H - 1 THEN Bound(MAX_32)
           ELSE IF y.v < -(H * H) THEN Bound(MIN_32) ELSE Exact(2 * y.v)
<1> DEFINE p == 2^i
           z == x * p
           y == Scaled(x, i, MIN_32, MAX_32)
           h == H * H
<1>1. /\ M \in Nat /\ M = 2 * h /\ h \in Nat /\ h > 0
      /\ x \in Int /\ p \in Nat /\ p >= 1 /\ MIN_32 = -M /\ MAX_32 = M - 1
      /\ 2^(i + 1) = 2 * p
  BY MIsPositive, PowersGrow, PowerOfTwo DEF Word32, MIN_32, MAX_32
<1> HIDE DEF p, h
<1>2. y = [v |-> Nearest(z, MIN_32, MAX_32), o |-> z \notin MIN_32..MAX_32]
  BY DEF Scaled, p
<1>3. Scaled(x, i + 1, MIN_32, MAX_32) =
        [v |-> Nearest(2 * z, MIN_32, MAX_32), o |-> 2 * z \notin MIN_32..MAX_32]
  <2>1. x * 2^(i + 1) = 2 * z
    BY <1>1
  <2>2. ~(i + 1 < 0)
    OBVIOUS
  <2> HIDE DEF z
  <2> QED
    BY <2>1, <2>2 DEF Scaled
<1>4. z \in Int
  BY <1>1
<1> HIDE DEF y, z
<1>5. y.v = Nearest(z, MIN_32, MAX_32) /\ (y.o <=> z \notin MIN_32..MAX_32)
  BY <1>2
<1> DEFINE r == IF y.o THEN y
                ELSE IF y.v > h - 1 THEN Bound(MAX_32)
                ELSE IF y.v < -h THEN Bound(MIN_32) ELSE Exact(2 * y.v)
<1>6. CASE z \notin MIN_32..MAX_32
  <2>1. 2 * z \notin MIN_32..MAX_32 /\ Nearest(2 * z, MIN_32, MAX_32) = Nearest(z, MIN_32, MAX_32)
    BY <1>1, <1>4, <1>6 DEF Nearest
  <2>2. r = y
    BY <1>5, <1>6
  <2> HIDE DEF r
  <2>3. Scaled(x, i + 1, MIN_32, MAX_32) = y
    BY <1>2, <1>3, <1>6, <2>1
  <2> QED
    BY <2>2, <2>3 DEF r, y, h
<1>7. CASE z \in MIN_32..MAX_32
  <2>1. y.v = z /\ ~y.o
    BY <1>1, <1>4, <1>5, <1>7 DEF Nearest
  <2>2. CASE z > h - 1
    <3>1. 2 * z \notin MIN_32..MAX_32 /\ Nearest(2 * z, MIN_32, MAX_32) = MAX_32
      BY <1>1, <1>4, <2>2 DEF Nearest
    <3>2. r = Bound(MAX_32)
      BY <2>1, <2>2
    <3> HIDE DEF r
    <3>3. Scaled(x, i + 1, MIN_32, MAX_32) = r
      BY <1>3, <3>1, <3>2 DEF Bound
    <3> QED
      BY <3>3 DEF r, y, h
  <2>3. CASE z < -h
    <3>1. 2 * z \notin MIN_32..MAX_32 /\ Nearest(2 * z, MIN_32, MAX_32) = MIN_32
      BY <1>1, <1>4, <2>3 DEF Nearest
    <3>2. r = Bound(MIN_32)
      BY <2>1, <2>3, <1>1, <1>4
    <3> HIDE DEF r
    <3>3. Scaled(x, i + 1, MIN_32, MAX_32) = r
      BY <1>3, <3>1, <3>2 DEF Bound
    <3> QED
      BY <3>3 DEF r, y, h
  <2>4. CASE ~(z > h - 1) /\ ~(z < -h)
    <3>1. 2 * z \in MIN_32..MAX_32 /\ Nearest(2 * z, MIN_32, MAX_32) = 2 * z
      BY <1>1, <1>4, <2>4 DEF Nearest
    <3>2. r = Exact(2 * z)
      BY <2>1, <2>4
    <3> HIDE DEF r
    <3>3. Scaled(x, i + 1, MIN_32, MAX_32) = r
      BY <1>3, <3>1, <3>2 DEF Exact
    <3> QED
      BY <3>3 DEF r, y, h
  <2> QED
    BY <2>2, <2>3, <2>4
<1> QED
  BY <1>6, <1>7

(* The loop of L_shl(): as many doublings as there are stop where the product
   saturates. *)
LEMMA L_ShlUpIs ==
  ASSUME NEW x \in Word32, NEW n \in Nat
  PROVE  L_ShlUp(x, n) = Scaled(x, n, MIN_32, MAX_32)
<1> DEFINE next(y) == IF y.o THEN y
                      ELSE IF y.v > H * H - 1 THEN Bound(MAX_32)
                      ELSE IF y.v < -(H * H) THEN Bound(MIN_32) ELSE Exact(2 * y.v)
           is(f) == f = [i \in 0..n |-> IF i = 0 THEN Exact(x) ELSE next(f[i - 1])]
           g == [i \in 0..n |-> Scaled(x, i, MIN_32, MAX_32)]
           doubled == CHOOSE f : is(f)
<1>1. L_ShlUp(x, n) = doubled[n]
  BY DEF L_ShlUp
<1>2. Scaled(x, 0, MIN_32, MAX_32) = Exact(x)
  <2>1. x \in Int /\ x * 2^0 = x /\ x \in MIN_32..MAX_32
    <3>1. 2^0 = 1 /\ x \in Int /\ x \in MIN_32..MAX_32
      BY PowerOfTwo, MIsPositive DEF Word32, MIN_32, MAX_32
    <3>2. x * 1 = x
      BY <3>1
    <3> QED
      BY <3>1, <3>2
  <2>2. Nearest(x, MIN_32, MAX_32) = x
    BY <2>1, MIsPositive DEF Nearest, MIN_32, MAX_32
  <2>3. ~(0 < 0)
    OBVIOUS
  <2> QED
    BY <2>1, <2>2, <2>3 DEF Scaled, Exact
<1>3. \A i \in Nat : Scaled(x, i + 1, MIN_32, MAX_32) = next(Scaled(x, i, MIN_32, MAX_32))
  BY OneDoubling
<1> HIDE DEF next
<1>4. is(g)
  <2>1. ASSUME NEW i \in 0..n
        PROVE  g[i] = IF i = 0 THEN Exact(x) ELSE next(g[i - 1])
    <3>1. CASE i = 0
      BY <3>1, <1>2
    <3>2. CASE i # 0
      <4>1. i - 1 \in 0..n /\ i - 1 \in Nat /\ (i - 1) + 1 = i
        BY <3>2
      <4>2. Scaled(x, i, MIN_32, MAX_32) = next(Scaled(x, i - 1, MIN_32, MAX_32))
        BY <4>1, <1>3
      <4> QED
        BY <3>2, <4>1, <4>2
    <3> QED
      BY <3>1, <3>2
  <2> HIDE DEF g
  <2>2. g = [i \in 0..n |-> g[i]]
    BY DEF g
  <2> QED
    BY <2>1, <2>2
<1>5. is(doubled)
  <2> HIDE DEF is, g
  <2> QED
    BY <1>4
<1> HIDE DEF doubled
<1>6. \A i \in 0..n : doubled[i] = IF i = 0 THEN Exact(x) ELSE next(doubled[i - 1])
  <2> DEFINE e(i) == IF i = 0 THEN Exact(x) ELSE next(doubled[i - 1])
  <2>1. doubled = [i \in 0..n |-> e(i)]
    BY <1>5
  <2> HIDE DEF e
  <2>2. \A i \in 0..n : doubled[i] = e(i)
    BY <2>1
  <2> QED
    BY <2>2 DEF e
<1> DEFINE N == {i \in 0..n : doubled[i] = Scaled(x, i, MIN_32, MAX_32)}
<1>7. 0 \in N
  BY <1>2, <1>6
<1>8. ASSUME NEW i \in 0..n - 1, i \in N PROVE i + 1 \in N
  <2>1. i + 1 \in 0..n /\ i + 1 # 0 /\ (i + 1) - 1 = i /\ i \in Nat
    OBVIOUS
  <2>2. doubled[i + 1] = next(doubled[i])
    BY <2>1, <1>6
  <2> QED
    BY <2>1, <2>2, <1>3, <1>8
<1> HIDE DEF N
<1>9. 0..n \subseteq N
  BY <1>7, <1>8, InductionUpTo
<1>10. n \in N
  BY <1>9
<1> QED
  BY <1>1, <1>10 DEF N

(* A count of zero, in either direction. *)
LEMMA NoShift ==
  ASSUME NEW low \in Int, NEW high \in Int, NEW x \in low..high
  PROVE  Scaled(x, 0, low, high) = Exact(x) /\ x \div 2^0 = x
<1>1. 2^0 = 1 /\ x \in Int /\ x * 1 = x /\ x \div 1 = x
  BY PowerOfTwo
<1>2. Nearest(x, low, high) = x
  BY DEF Nearest
<1>3. ~(0 < 0) /\ x * 2^0 = x
  BY <1>1
<1>4. Scaled(x, 0, low, high) = [v |-> Nearest(x, low, high), o |-> x \notin low..high]
  BY <1>3 DEF Scaled
<1>5. Scaled(x, 0, low, high) = Exact(x)
  BY <1>2, <1>4 DEF Exact
<1> QED
  BY <1>1, <1>5

(* The right shifts of both widths. *)
LEMMA RightShifts ==
  ASSUME NEW a \in Word16, NEW x \in Word32, NEW n \in Nat
  PROVE  /\ ShrUp(a, n) = a \div 2^n /\ ShrUp(a, Least(n, w)) = a \div 2^n
         /\ L_ShrUp(x, n) = x \div 2^n /\ L_ShrUp(x, Least(n, 2 * w)) = x \div 2^n
<1>1. /\ w \in Nat /\ w - 1 \in Nat /\ 2 * w - 1 \in Nat /\ 2 * w \in Nat
      /\ H = 2^(w - 1) /\ M = 2^(2 * w - 1)
  BY WordSizes
<1>2. a \in Int /\ -H <= a /\ a < H /\ x \in Int /\ -M <= x /\ x < M
  BY WidthAssumption, MIsPositive DEF Word16, MIN_16, MAX_16, Word32, MIN_32, MAX_32
<1>3. Least(n, w) \in Nat /\ Least(n, 2 * w) \in Nat
  BY <1>1 DEF Least
<1>4. \A k \in Nat : ShrUp(a, k) = a \div 2^k
  BY <1>1, <1>2, RightShift DEF ShrUp
<1>5. \A k \in Nat : L_ShrUp(x, k) = x \div 2^k
  BY <1>1, <1>2, RightShift DEF L_ShrUp
<1>6. a \div 2^Least(n, w) = a \div 2^n
  <2>1. w >= w - 1
    BY <1>1
  <2>2. -(2^(w - 1)) <= a /\ a < 2^(w - 1)
    BY <1>1, <1>2
  <2> QED
    BY <2>1, <2>2, <1>1, <1>2, RightShift
<1>7. x \div 2^Least(n, 2 * w) = x \div 2^n
  <2>1. 2 * w >= 2 * w - 1
    BY <1>1
  <2>2. -(2^(2 * w - 1)) <= x /\ x < 2^(2 * w - 1)
    BY <1>1, <1>2
  <2> QED
    BY <2>1, <2>2, <1>1, <1>2, RightShift
<1> QED
  BY <1>3, <1>4, <1>5, <1>6, <1>7

(* The left shifts of both widths. *)
LEMMA LeftShifts ==
  ASSUME NEW a \in Word16, NEW x \in Word32, NEW n \in Nat
  PROVE  /\ ShlUp(a, n) = Scaled(a, n, MIN_16, MAX_16)
         /\ ShlUp(a, Least(n, w)) = Scaled(a, n, MIN_16, MAX_16)
         /\ L_ShlUp(x, n) = Scaled(x, n, MIN_32, MAX_32)
         /\ L_ShlUp(x, Least(n, 2 * w)) = Scaled(x, n, MIN_32, MAX_32)
<1>1. /\ w \in Nat /\ w - 1 \in Nat /\ 2 * w - 1 \in Nat /\ 2 * w \in Nat
      /\ w > w - 1 /\ 2 * w > 2 * w - 1
      /\ MIN_16 = -(2^(w - 1)) /\ MAX_16 = 2^(w - 1) - 1
      /\ MIN_32 = -(2^(2 * w - 1)) /\ MAX_32 = 2^(2 * w - 1) - 1
  BY WordSizes DEF MIN_16, MAX_16, MIN_32, MAX_32
<1>2. Least(n, w) \in Nat /\ Least(n, 2 * w) \in Nat
  BY <1>1 DEF Least
<1>3. a \in MIN_16..MAX_16 /\ x \in MIN_32..MAX_32
  BY DEF Word16, Word32
<1>4. Scaled(a, Least(n, w), MIN_16, MAX_16) = Scaled(a, n, MIN_16, MAX_16)
  BY <1>1, <1>3, LeftShiftCut
<1>5. Scaled(x, Least(n, 2 * w), MIN_32, MAX_32) = Scaled(x, n, MIN_32, MAX_32)
  BY <1>1, <1>3, LeftShiftCut
<1> QED
  BY <1>2, <1>4, <1>5, ShlUpIs, L_ShlUpIs

(* Shifts of either sign. *)
LEMMA ShiftsAre ==
  ASSUME NEW a \in Word16, NEW x \in Word32, NEW n \in Int
  PROVE  /\ shl(a, n) = Scaled(a, n, MIN_16, MAX_16)
         /\ shr(a, n) = Scaled(a, -n, MIN_16, MAX_16)
         /\ L_shl(x, n) = Scaled(x, n, MIN_32, MAX_32)
         /\ L_shr(x, n) = Scaled(x, -n, MIN_32, MAX_32)
<1>1. /\ a \in MIN_16..MAX_16 /\ x \in MIN_32..MAX_32
      /\ MIN_16 \in Int /\ MAX_16 \in Int /\ MIN_32 \in Int /\ MAX_32 \in Int
      /\ w \in Nat /\ w > 0
  BY WidthAssumption, MIsPositive DEF Word16, MIN_16, MAX_16, Word32, MIN_32, MAX_32
<1>2. CASE n < 0
  <2> DEFINE k == -n
  <2>1. k \in Nat /\ ~(k < 0) /\ ~(n >= 0) /\ n <= 0
    BY <1>2
  <2>2. /\ shl(a, n) = Exact(ShrUp(a, Least(k, w))) /\ shr(a, n) = ShlUp(a, Least(k, w))
        /\ L_shl(x, n) = Exact(L_ShrUp(x, Least(k, 2 * w)))
        /\ L_shr(x, n) = L_ShlUp(x, Least(k, 2 * w))
    BY <1>2, <2>1 DEF shl, shr, L_shl, L_shr
  <2>3. \A y, low, high : Scaled(y, n, low, high) = Exact(y \div 2^k)
    BY <1>2 DEF Scaled
  <2> HIDE DEF k
  <2>4. /\ ShrUp(a, Least(k, w)) = a \div 2^k /\ L_ShrUp(x, Least(k, 2 * w)) = x \div 2^k
    BY <2>1, RightShifts
  <2>5. /\ ShlUp(a, Least(k, w)) = Scaled(a, k, MIN_16, MAX_16)
        /\ L_ShlUp(x, Least(k, 2 * w)) = Scaled(x, k, MIN_32, MAX_32)
    BY <2>1, LeftShifts
  <2> QED
    BY <2>2, <2>3, <2>4, <2>5 DEF k
<1>3. CASE n = 0
  <2> DEFINE k == -n
  <2>4. k \in Int /\ k + n = 0
    OBVIOUS
  <2> HIDE DEF k
  <2>5. n = 0 /\ k = 0
    BY <1>3, <2>4
  <2>1. /\ ShrUp(a, 0) = a \div 2^0 /\ L_ShrUp(x, Least(0, 2 * w)) = x \div 2^0 /\ L_ShrUp(x, 0) = x \div 2^0
        /\ ShlUp(a, 0) = Scaled(a, 0, MIN_16, MAX_16)
    <3>1. 0 \in Nat
      OBVIOUS
    <3> QED
      BY <3>1, RightShifts, LeftShifts
  <2>2. /\ Scaled(a, 0, MIN_16, MAX_16) = Exact(a) /\ a \div 2^0 = a
        /\ Scaled(x, 0, MIN_32, MAX_32) = Exact(x) /\ x \div 2^0 = x
    BY <1>1, NoShift
  <2>3. /\ shl(a, 0) = ShlUp(a, 0) /\ shr(a, 0) = Exact(ShrUp(a, 0))
        /\ L_shl(x, 0) = Exact(L_ShrUp(x, Least(0, 2 * w))) /\ L_shr(x, 0) = Exact(L_ShrUp(x, 0))
    <3>1. ~(n < 0) /\ n <= 0
      BY <1>3
    <3>2. /\ shl(a, n) = ShlUp(a, n) /\ shr(a, n) = Exact(ShrUp(a, n))
          /\ L_shl(x, n) = Exact(L_ShrUp(x, Least(k, 2 * w))) /\ L_shr(x, n) = Exact(L_ShrUp(x, n))
      BY <3>1 DEF k, shl, shr, L_shl, L_shr
    <3> QED
      BY <3>2, <2>5
  <2> QED
    BY <2>1, <2>2, <2>3, <2>5 DEF k
<1>4. CASE n > 0
  <2>1. n \in Nat /\ ~(n < 0) /\ ~(n <= 0) /\ -n < 0 /\ -(-n) = n
    BY <1>4
  <2>2. /\ shl(a, n) = ShlUp(a, n) /\ shr(a, n) = Exact(ShrUp(a, n))
        /\ L_shl(x, n) = L_ShlUp(x, n) /\ L_shr(x, n) = Exact(L_ShrUp(x, n))
    BY <2>1 DEF shl, shr, L_shl, L_shr
  <2>3. \A y, low, high : Scaled(y, -n, low, high) = Exact(y \div 2^n)
    BY <2>1 DEF Scaled
  <2> QED
    BY <2>1, <2>2, <2>3, RightShifts, LeftShifts
<1> QED
  BY <1>2, <1>3, <1>4

(* The last bit that is shifted out, added, rounds to the nearest. *)
LEMMA RoundingIs ==
  ASSUME NEW x \in Int, NEW n \in Nat, n > 0
  PROVE  (x \div 2^n) + Bit(x, n - 1) = Rounded(x, n)
<1> DEFINE d == 2^(n - 1)
           e == 2^n
           q == x \div d
           t == x % d
           u == q \div 2
           r == q % 2
<1>1. n - 1 \in Nat /\ (n - 1) + 1 = n
  OBVIOUS
<1>2. d \in Nat /\ d > 0 /\ e = 2 * d /\ e \in Nat /\ e > 0
  <2>1. d \in Nat /\ d >= 1 /\ 2^((n - 1) + 1) = 2 * d
    BY <1>1, PowersGrow, PowerOfTwo
  <2> QED
    BY <1>1, <2>1
<1>3. Rounded(x, n) = (x + d) \div e /\ Bit(x, n - 1) = r
  BY DEF Rounded, Bit
<1> HIDE DEF d, e
<1>4. q \in Int /\ t \in Nat /\ t < d /\ x = q * d + t
  BY <1>2, IntDivision
<1> HIDE DEF q, t
<1>5. u \in Int /\ r \in Nat /\ r < 2 /\ q = u * 2 + r
  <2>1. 2 \in Nat /\ 2 > 0
    OBVIOUS
  <2> QED
    BY <2>1, <1>4, IntDivision
<1> HIDE DEF u, r
<1>6. x \div e = u
  <2> DEFINE s == r * d + t
  <2>1. s \in Nat /\ s < e
    <3>1. CASE r = 0
      BY <3>1, <1>2, <1>4
    <3>2. CASE r = 1
      BY <3>2, <1>2, <1>4
    <3> QED
      BY <3>1, <3>2, <1>5
  <2>2. x = u * e + s
    BY <1>2, <1>4, <1>5
  <2> HIDE DEF s
  <2> QED
    BY <2>1, <2>2, <1>2, <1>5, IntDivisionIsUnique
<1>7. (x + d) \div e = u + r
  <2>1. x + d \in Int /\ u + r \in Int
    BY <1>2, <1>5
  <2>2. CASE r = 0
    <3>1. d + t \in Nat /\ d + t < e /\ x + d = (u + r) * e + (d + t)
      <4>1. x + d = u * e + (d + t) /\ u + r = u
        BY <2>2, <1>2, <1>4, <1>5
      <4> QED
        BY <4>1, <1>2, <1>4
    <3> DEFINE y == x + d
               i == u + r
               s == d + t
    <3>2. y \in Int /\ i \in Int /\ s \in Nat /\ s < e /\ y = i * e + s
      BY <2>1, <3>1
    <3> HIDE DEF y, i, s
    <3>3. y \div e = i
      BY <3>2, <1>2, IntDivisionIsUnique
    <3> QED
      BY <3>3 DEF y, i
  <2>3. CASE r = 1
    <3>1. x + d = (u + r) * e + t
      <4>1. x + d = u * e + (d + d + t) /\ (u + 1) * e = u * e + e
        BY <2>3, <1>2, <1>4, <1>5
      <4>2. u * e \in Int
        BY <1>2, <1>5
      <4> QED
        BY <4>1, <4>2, <2>3, <1>2, <1>4
    <3> DEFINE y == x + d
               i == u + r
    <3>2. y \in Int /\ i \in Int /\ t \in Nat /\ t < e /\ y = i * e + t
      BY <2>1, <3>1, <1>2, <1>4
    <3> HIDE DEF y, i
    <3>3. y \div e = i
      BY <3>2, <1>2, IntDivisionIsUnique
    <3> QED
      BY <3>3 DEF y, i
  <2> QED
    BY <2>2, <2>3, <1>5
<1> QED
  BY <1>3, <1>6, <1>7 DEF e

(* By more than the width: half a unit of the last place is more than any
   operand, and rounds it to zero. *)
LEMMA FarRoundingIs ==
  ASSUME NEW m \in Nat, NEW x \in Int, -(2^m) <= x, x < 2^m, NEW n \in Nat, n > m
  PROVE  Rounded(x, n) = 0
<1> DEFINE d == 2^(n - 1)
           e == 2^n
           L == 2^m
           y == x + d
<1>1. n - 1 \in Nat /\ (n - 1) + 1 = n /\ m <= n - 1
  OBVIOUS
<1>2. d \in Nat /\ e = 2 * d /\ e \in Nat /\ L \in Nat /\ L <= d
  <2>1. d \in Nat /\ 2^((n - 1) + 1) = 2 * d /\ L \in Nat /\ L <= d
    BY <1>1, PowersGrow, PowerOfTwo
  <2> QED
    BY <1>1, <2>1
<1>3. -L <= x /\ x < L /\ Rounded(x, n) = y \div e
  BY DEF Rounded
<1> HIDE DEF d, e, L
<1>4. y \in Nat /\ y < e /\ y = 0 * e + y /\ 0 \in Int
  BY <1>2, <1>3
<1> HIDE DEF y
<1>5. y \div e = 0
  BY <1>2, <1>4, IntDivisionIsUnique
<1> QED
  BY <1>3, <1>5

(* The rounding shifts. *)
LEMMA RoundingShifts ==
  ASSUME NEW a \in Word16, NEW x \in Word32, NEW n \in Nat, n > 0
  PROVE  shr_r(a, n).v = Rounded(a, n) /\ L_shr_r(x, n).v = Rounded(x, n)
<1>1. /\ w - 1 \in Nat /\ 2 * w - 1 \in Nat /\ H = 2^(w - 1) /\ M = 2^(2 * w - 1)
  BY WordSizes
<1>2. a \in Int /\ -H <= a /\ a < H /\ x \in Int /\ -M <= x /\ x < M
  BY WidthAssumption, MIsPositive DEF Word16, MIN_16, MAX_16, Word32, MIN_32, MAX_32
<1>3. -n < 0 /\ -(-n) = n /\ n \in Int
  OBVIOUS
<1>4. shr(a, n) = Exact(a \div 2^n) /\ L_shr(x, n) = Exact(x \div 2^n)
  <2>1. \A y, low, high : Scaled(y, -n, low, high) = Exact(y \div 2^n)
    BY <1>3 DEF Scaled
  <2> QED
    BY <2>1, <1>3, ShiftsAre
<1>5. shr_r(a, n).v = Rounded(a, n)
  <2>1. CASE n > w - 1
    <3>1. Rounded(a, n) = 0
      BY <2>1, <1>1, <1>2, FarRoundingIs
    <3> QED
      BY <2>1, <3>1 DEF shr_r, Exact
  <2>2. CASE ~(n > w - 1)
    <3>1. shr_r(a, n).v = (a \div 2^n) + Bit(a, n - 1)
      BY <2>2, <1>4 DEF shr_r, Exact
    <3> QED
      BY <3>1, <1>2, RoundingIs
  <2> QED
    BY <2>1, <2>2
<1>6. L_shr_r(x, n).v = Rounded(x, n)
  <2>1. CASE n > 2 * w - 1
    <3>1. Rounded(x, n) = 0
      BY <2>1, <1>1, <1>2, FarRoundingIs
    <3> QED
      BY <2>1, <3>1 DEF L_shr_r, Exact
  <2>2. CASE ~(n > 2 * w - 1)
    <3>1. L_shr_r(x, n).v = (x \div 2^n) + Bit(x, n - 1)
      BY <2>2, <1>4 DEF L_shr_r, Exact
    <3> QED
      BY <3>1, <1>2, RoundingIs
  <2> QED
    BY <2>1, <2>2
<1> QED
  BY <1>5, <1>6

(* The count that FirstAtLeast() chooses exists, and leaves room for one unit
   above the operand. *)
LEMMA FirstAtLeastIs ==
  ASSUME NEW m \in Nat, NEW N \in Nat, m <= N, NEW y \in Nat, y >= 1, y < 2 * 2^m
  PROVE  LET k == FirstAtLeast(y, 2^m, N)
         IN /\ k \in Nat
            /\ y * 2^k >= 2^m
            /\ y * 2^k + 2^k <= 2 * 2^m
<1> DEFINE L == 2^m
           P(k) == y * 2^k >= L /\ (k > 0 => y * 2^(k - 1) < L)
           k == FirstAtLeast(y, L, N)
<1>1. L \in Nat /\ L >= 1 /\ y < 2 * L
  BY PowersGrow
<1>2. \E i \in 0..N : P(i)
  <2> DEFINE T == {i \in Nat : y * 2^i >= L}
  <2>1. m \in T
    <3>1. y * L >= L
      <4> HIDE DEF L
      <4> QED
        BY <1>1
    <3> QED
      BY <3>1
  <2>2. T \in SUBSET Nat /\ T # {}
    BY <2>1
  <2>3. PICK i \in T : \A j \in T : i <= j
    <3> HIDE DEF T
    <3> QED
      BY <2>2, LeastElement
  <2>4. i \in 0..N
    BY <2>1, <2>3
  <2>5. ASSUME i > 0 PROVE y * 2^(i - 1) < L
    <3>1. i - 1 \in Nat /\ i - 1 \notin T
      BY <2>3, <2>4, <2>5
    <3>2. 2^(i - 1) \in Nat
      BY <3>1, PowersGrow
    <3>3. ~(y * 2^(i - 1) >= L)
      BY <3>1
    <3>4. y * 2^(i - 1) \in Nat
      BY <3>2
    <3> QED
      BY <3>3, <3>4, <1>1
  <2>6. P(i)
    BY <2>3, <2>5
  <2> HIDE DEF P
  <2> QED
    BY <2>4, <2>6
<1>3. k \in 0..N /\ P(k)
  <2>1. k = CHOOSE i \in 0..N : P(i)
    BY DEF FirstAtLeast
  <2> HIDE DEF P, k
  <2> QED
    BY <1>2, <2>1
<1>4. k \in Nat /\ y * 2^k >= L /\ (k > 0 => y * 2^(k - 1) < L)
  BY <1>3
<1> HIDE DEF k
<1>5. 2^k \in Nat /\ 2^k >= 1
  BY <1>4, PowersGrow
<1>6. y * 2^k < 2 * L
  <2>1. CASE k = 0
    <3>1. 2^k = 1
      BY <2>1, PowerOfTwo
    <3> QED
      BY <3>1, <1>1
  <2>2. CASE k > 0
    <3>1. k - 1 \in Nat /\ (k - 1) + 1 = k
      BY <2>2, <1>4
    <3>2. 2^(k - 1) \in Nat /\ 2^((k - 1) + 1) = 2 * 2^(k - 1)
      BY <3>1, PowerOfTwo
    <3>3. y * 2^(k - 1) < L /\ 2^k = 2 * 2^(k - 1)
      BY <2>2, <1>4, <3>1, <3>2
    <3> DEFINE p == 2^(k - 1)
               q == 2^k
    <3>4. p \in Nat /\ q = 2 * p /\ y * p < L
      BY <3>2, <3>3
    <3> HIDE DEF p, q, L
    <3>5. y * q = 2 * (y * p) /\ y * p \in Nat
      BY <3>4
    <3>6. y * q < 2 * L
      BY <3>4, <3>5, <1>1
    <3> QED
      BY <3>6 DEF q
  <2> QED
    BY <2>1, <2>2, <1>4
<1>7. k <= m + 1
  <2> SUFFICES ASSUME k > m + 1 PROVE FALSE
    BY <1>4
  <2>1. m + 1 \in Nat /\ m + 1 <= k
    BY <1>4
  <2>2. 2^(m + 1) = 2 * L /\ 2^(m + 1) <= 2^k
    BY <2>1, <1>4, PowerOfTwo, PowersGrow
  <2>3. y * 2^k >= 2^k
    <3> DEFINE q == 2^k
    <3>1. q \in Nat
      BY <1>5
    <3> HIDE DEF q
    <3>2. y * q >= q
      BY <3>1
    <3> QED
      BY <3>2 DEF q
  <2> DEFINE q == 2^k
             z == y * q
  <2>4. q \in Nat /\ z \in Nat /\ 2 * L <= q /\ z >= q /\ z < 2 * L
    BY <1>5, <1>6, <2>2, <2>3
  <2> HIDE DEF q, z, L
  <2> QED
    BY <2>4, <1>1
<1>8. y * 2^k + 2^k <= 2 * L
  <2> DEFINE i == (m + 1) - k
             q == 2^k
             c == 2^i
  <2>1. i \in Nat /\ k + i = m + 1
    BY <1>4, <1>7
  <2>2. 2^(m + 1) = 2 * L
    BY PowerOfTwo
  <2>3. 2^(k + i) = q * c /\ q \in Nat /\ q >= 1 /\ c \in Nat
    <3> HIDE DEF i
    <3> QED
      BY <1>4, <2>1, PowersGrow
  <2>4. 2 * L = q * c
    BY <2>1, <2>2, <2>3
  <2>5. y * q < 2 * L
    BY <1>6
  <2> HIDE DEF i, q, c, L
  <2>6. ~(y >= c)
    <3> SUFFICES ASSUME y >= c PROVE FALSE
      OBVIOUS
    <3>1. (y - c) * q >= 0 /\ (y - c) * q = y * q - q * c
      BY <2>3
    <3> QED
      BY <3>1, <2>3, <2>4, <2>5, <1>1
  <2>7. y + 1 <= c
    BY <2>3, <2>6
  <2>8. (c - (y + 1)) * q >= 0 /\ (c - (y + 1)) * q = q * c - (y * q + q)
    BY <2>3, <2>7
  <2>9. y * q \in Nat /\ q * c \in Nat
    BY <2>3
  <2>10. y * q + q <= q * c
    BY <2>3, <2>8, <2>9
  <2> QED
    BY <2>4, <2>10 DEF q
<1> QED
  BY <1>4, <1>8 DEF k

(* How far norm_s() and norm_l() shift an operand: it stays in its word of
   m + 2 bits, and its highest bit is used. *)
Normalizes(x, k, m) ==
  /\ k \in Nat
  /\ x * 2^k \in -(2 * 2^m) .. 2 * 2^m - 1
  /\ x # 0 => x * 2^k \notin -(2^m) .. 2^m - 1

(* The count of norm_s() or norm_l(), for a word of m + 2 bits. *)
LEMMA NormIs ==
  ASSUME NEW m \in Nat, NEW N \in Nat, m <= N, NEW x \in -(2 * 2^m) .. 2 * 2^m - 1,
         NEW k, k = IF x = 0 THEN 0 ELSE IF x = -1 THEN m + 1
                    ELSE FirstAtLeast(IF x < 0 THEN -1 - x ELSE x, 2^m, N)
  PROVE  Normalizes(x, k, m)
<1> DEFINE L == 2^m
<1>1. L \in Nat /\ L >= 1
  BY PowersGrow
<1>2. x \in Int /\ -(2 * L) <= x /\ x <= 2 * L - 1
  <2>1. x \in -(2 * L) .. 2 * L - 1
    OBVIOUS
  <2> HIDE DEF L
  <2> QED
    BY <1>1, <2>1
<1>3. SUFFICES /\ k \in Nat
               /\ x * 2^k \in -(2 * L) .. 2 * L - 1
               /\ x # 0 => x * 2^k \notin -L .. L - 1
  BY DEF Normalizes
<1>4. CASE x = 0
  <2>1. k = 0 /\ k \in Nat
    BY <1>4
  <2>2. 2^k \in Nat
    BY <2>1, PowersGrow
  <2>3. x * 2^k = 0
    BY <1>4, <2>2
  <2> HIDE DEF L
  <2> QED
    BY <1>1, <1>4, <2>1, <2>3
<1>5. CASE x = -1
  <2>1. k = m + 1 /\ k \in Nat
    BY <1>5, <1>2
  <2>2. 2^k = 2 * L
    BY <2>1, PowerOfTwo
  <2> DEFINE z == x * 2^k
  <2>3. z = -(2 * L)
    <3> HIDE DEF L
    <3> QED
      BY <1>1, <1>5, <2>2
  <2> HIDE DEF L, z
  <2>4. z \in -(2 * L) .. 2 * L - 1 /\ z \notin -L .. L - 1
    BY <1>1, <2>3
  <2> QED
    BY <2>1, <2>4 DEF z
<1>6. CASE x > 0
  <2>1. /\ x \in Nat /\ x >= 1 /\ x < 2 * 2^m
        /\ k = FirstAtLeast(x, 2^m, N)
    <3>1. x < 2 * L /\ x \in Nat /\ x >= 1 /\ x # 0 /\ x # -1 /\ ~(x < 0)
      <4> HIDE DEF L
      <4> QED
        BY <1>1, <1>2, <1>6
    <3> QED
      BY <3>1
  <2>2. k \in Nat /\ x * 2^k >= 2^m /\ x * 2^k + 2^k <= 2 * 2^m
    BY <2>1, FirstAtLeastIs
  <2> DEFINE q == 2^k
             z == x * q
  <2>3. q \in Nat /\ q >= 1 /\ z >= L /\ z + q <= 2 * L
    BY <2>2, PowersGrow
  <2>4. z \in Int
    BY <2>1, <2>3
  <2> HIDE DEF L, q, z
  <2>5. z \in -(2 * L) .. 2 * L - 1 /\ z \notin -L .. L - 1
    BY <1>1, <2>3, <2>4
  <2> QED
    BY <2>2, <2>5 DEF z, q
<1>7. CASE x < -1
  <2> DEFINE y == -1 - x
  <2>1. /\ y \in Nat /\ y >= 1 /\ y < 2 * 2^m
        /\ k = FirstAtLeast(y, 2^m, N)
    <3>1. y < 2 * L /\ y \in Nat /\ y >= 1 /\ x # 0 /\ x # -1 /\ x < 0
      <4> HIDE DEF L
      <4> QED
        BY <1>1, <1>2, <1>7
    <3> QED
      BY <3>1
  <2>2. k \in Nat /\ y * 2^k >= 2^m /\ y * 2^k + 2^k <= 2 * 2^m
    <3> HIDE DEF y
    <3>1. y \in Nat /\ y >= 1 /\ y < 2 * 2^m
      BY <2>1
    <3> DEFINE j == FirstAtLeast(y, 2^m, N)
    <3>2. j \in Nat /\ y * 2^j >= 2^m /\ y * 2^j + 2^j <= 2 * 2^m
      BY <3>1, FirstAtLeastIs
    <3>3. k = j
      BY <2>1
    <3> HIDE DEF j
    <3> QED
      BY <3>2, <3>3
  <2> DEFINE q == 2^k
             z == y * q
             t == x * q
  <2>3. q \in Nat /\ q >= 1 /\ z >= L /\ z + q <= 2 * L
    BY <2>2, PowersGrow
  <2>4. z \in Int /\ t \in Int /\ t = -z - q
    <3>1. q \in Int /\ y \in Int /\ x = -1 - y
      BY <2>1, <2>3, <1>2
    <3> HIDE DEF q, y
    <3> QED
      BY <3>1
  <2> HIDE DEF L, q, z, t
  <2>5. t \in -(2 * L) .. 2 * L - 1 /\ t \notin -L .. L - 1
    BY <1>1, <2>3, <2>4
  <2> QED
    BY <2>2, <2>5 DEF t, q
<1> QED
  BY <1>2, <1>4, <1>5, <1>6, <1>7

(* A shift by norm_s() or norm_l() fills the word without an overflow. *)
LEMMA NormsFill ==
  ASSUME NEW a \in Word16, NEW x \in Word32
  PROVE  LET s == shl(a, norm_s(a))
             l == L_shl(x, norm_l(x))
         IN /\ ~s.o /\ (a # 0 => s.v \notin -(H \div 2) .. H \div 2 - 1)
            /\ ~l.o /\ (x # 0 => l.v \notin -(H * H) .. H * H - 1)
<1> DEFINE m == w - 2
           n == 2 * w - 2
           i == norm_s(a)
           j == norm_l(x)
<1>1. /\ w \in Nat /\ w >= 3 /\ m \in Nat /\ m <= w /\ n \in Nat /\ n <= 2 * w
      /\ 2 * w \in Nat /\ m + 1 = w - 1 /\ n + 1 = 2 * w - 1
  BY WidthAssumption
<1>2. H \div 2 = 2^m /\ H = 2 * 2^m /\ H * H = 2^n /\ M = 2 * 2^n
  <2>1. M = 2^(n + 1)
    BY <1>1, WordSizes
  <2> QED
    BY <1>1, <2>1, WordSizes, PowerOfTwo
<1>3. MIN_16 = -(2 * 2^m) /\ MAX_16 = 2 * 2^m - 1 /\ MIN_32 = -(2 * 2^n) /\ MAX_32 = 2 * 2^n - 1
  BY <1>2 DEF MIN_16, MAX_16, MIN_32, MAX_32
<1>4. a \in -(2 * 2^m) .. 2 * 2^m - 1 /\ x \in -(2 * 2^n) .. 2 * 2^n - 1
  BY <1>3 DEF Word16, Word32
<1>5. /\ i = IF a = 0 THEN 0 ELSE IF a = -1 THEN m + 1
             ELSE FirstAtLeast(IF a < 0 THEN -1 - a ELSE a, 2^m, w)
      /\ j = IF x = 0 THEN 0 ELSE IF x = -1 THEN n + 1
             ELSE FirstAtLeast(IF x < 0 THEN -1 - x ELSE x, 2^n, 2 * w)
  BY <1>1, <1>2 DEF norm_s, norm_l
<1> HIDE DEF i, j, m, n
<1>6. Normalizes(a, i, m) /\ Normalizes(x, j, n)
  BY <1>1, <1>4, <1>5, NormIs
<1>7. i \in Int /\ ~(i < 0) /\ j \in Int /\ ~(j < 0)
  BY <1>6 DEF Normalizes
<1>8. /\ shl(a, i) = Scaled(a, i, MIN_16, MAX_16)
      /\ L_shl(x, j) = Scaled(x, j, MIN_32, MAX_32)
  BY <1>7, ShiftsAre
<1>9. ASSUME NEW y \in Int, NEW low \in Int, NEW high \in Int, y \in low..high
      PROVE  Nearest(y, low, high) = y
  BY <1>9 DEF Nearest
<1>10. /\ a * 2^i \in MIN_16..MAX_16 /\ x * 2^j \in MIN_32..MAX_32
       /\ a # 0 => a * 2^i \notin -(H \div 2) .. H \div 2 - 1
       /\ x # 0 => x * 2^j \notin -(H * H) .. H * H - 1
  BY <1>2, <1>3, <1>6 DEF Normalizes
<1>11. /\ MIN_16 \in Int /\ MAX_16 \in Int /\ MIN_32 \in Int /\ MAX_32 \in Int
       /\ a \in Int /\ x \in Int /\ 2^i \in Int /\ 2^j \in Int
  <2>1. 2^i \in Nat /\ 2^j \in Nat
    BY <1>6, PowersGrow DEF Normalizes
  <2> QED
    BY <2>1, WidthAssumption, MIsPositive DEF Word16, MIN_16, MAX_16, Word32, MIN_32, MAX_32
<1>12. a * 2^i \in Int /\ x * 2^j \in Int
  BY <1>11
<1>13. Nearest(a * 2^i, MIN_16, MAX_16) = a * 2^i /\ Nearest(x * 2^j, MIN_32, MAX_32) = x * 2^j
  BY <1>9, <1>10, <1>11, <1>12
<1>14. /\ shl(a, i) = [v |-> a * 2^i, o |-> a * 2^i \notin MIN_16..MAX_16]
       /\ L_shl(x, j) = [v |-> x * 2^j, o |-> x * 2^j \notin MIN_32..MAX_32]
  BY <1>7, <1>8, <1>13 DEF Scaled
<1>15. /\ ~shl(a, i).o /\ shl(a, i).v = a * 2^i
       /\ ~L_shl(x, j).o /\ L_shl(x, j).v = x * 2^j
  <2>1. ASSUME NEW s, NEW y, NEW S, y \in S, s = [v |-> y, o |-> y \notin S]
        PROVE  ~s.o /\ s.v = y
    BY <2>1
  <2> QED
    BY <1>10, <1>14, <2>1
<1>16. /\ ~shl(a, i).o /\ (a # 0 => shl(a, i).v \notin -(H \div 2) .. H \div 2 - 1)
       /\ ~L_shl(x, j).o /\ (x # 0 => L_shl(x, j).v \notin -(H * H) .. H * H - 1)
  BY <1>10, <1>15
<1> QED
  BY <1>16 DEF i, j

(* For words of every width, all operands and all counts: shl(), shr(),
   L_shl() and L_shr() multiply or divide by a power of two and saturate, the
   rounding shifts round to the nearest, and norm_s() and norm_l() return the
   count that fills the word without an overflow. *)
THEOREM ShiftsAlwaysScale == Spec => []ShiftsScale
<1>1. TypeOK => ShiftsScale
  <2> SUFFICES ASSUME TypeOK PROVE ShiftsScale
    OBVIOUS
  <2>1. reg \in Word16 /\ acc \in Word32
    BY DEF TypeOK
  <2>2. ASSUME NEW n \in Counts
        PROVE  /\ shl(reg, n) = Scaled(reg, n, MIN_16, MAX_16)
               /\ shr(reg, n) = Scaled(reg, -n, MIN_16, MAX_16)
               /\ L_shl(acc, n) = Scaled(acc, n, MIN_32, MAX_32)
               /\ L_shr(acc, n) = Scaled(acc, -n, MIN_32, MAX_32)
               /\ n > 0 => /\ shr_r(reg, n).v = Rounded(reg, n)
                           /\ L_shr_r(acc, n).v = Rounded(acc, n)
    <3>1. n \in Int
      BY WidthAssumption DEF Counts
    <3>2. n > 0 => n \in Nat
      BY <3>1
    <3> QED
      BY <2>1, <3>1, <3>2, ShiftsAre, RoundingShifts
  <2>3. LET s == shl(reg, norm_s(reg))
            l == L_shl(acc, norm_l(acc))
        IN /\ ~s.o /\ (reg # 0 => s.v \notin -(H \div 2) .. H \div 2 - 1)
           /\ ~l.o /\ (acc # 0 => l.v \notin -(H * H) .. H * H - 1)
    BY <2>1, NormsFill
  <2> QED
    BY <2>2, <2>3 DEF ShiftsScale
<1> QED
  BY <1>1, TypeCorrect, PTL

-----------------------------------------------------------------------------
(* One bit of the quotient: a dividend twice as large. *)
LEMMA OneBit ==
  ASSUME NEW x \in Nat, NEW den \in Nat, den > 0
  PROVE  LET q == x \div den
             t == x % den
         IN /\ (2 * x) \div den = IF 2 * t >= den THEN 2 * q + 1 ELSE 2 * q
            /\ (2 * x) % den = IF 2 * t >= den THEN 2 * t - den ELSE 2 * t
<1> DEFINE q == x \div den
           t == x % den
           y == 2 * x
           p == IF 2 * t >= den THEN 2 * q + 1 ELSE 2 * q
           s == IF 2 * t >= den THEN 2 * t - den ELSE 2 * t
<1>1. q \in Int /\ t \in Nat /\ t < den /\ x = q * den + t
  BY IntDivision
<1> HIDE DEF q, t
<1>2. y \in Int /\ p \in Int /\ s \in Nat /\ s < den /\ y = p * den + s
  <2>1. CASE 2 * t >= den
    <3>1. (2 * q + 1) * den = 2 * (q * den) + den
      BY <1>1
    <3>2. q * den \in Int
      BY <1>1
    <3> QED
      BY <1>1, <2>1, <3>1, <3>2
  <2>2. CASE ~(2 * t >= den)
    <3>1. (2 * q) * den = 2 * (q * den)
      BY <1>1
    <3>2. q * den \in Int
      BY <1>1
    <3> QED
      BY <1>1, <2>2, <3>1, <3>2
  <2> QED
    BY <2>1, <2>2
<1> HIDE DEF y, p, s
<1>3. y \div den = p /\ y % den = s
  BY <1>2, IntDivisionIsUnique
<1> QED
  BY <1>3 DEF y, p, s, q, t

(* The loop of div_s() and div_l(): w - 1 bits of a fraction. *)
LEMMA LongDivisionIs ==
  ASSUME NEW num \in Nat, NEW den \in Nat, num < den
  PROVE  LongDivision(num, den) = (num * H) \div den
<1> DEFINE next(p) == IF 2 * p.rest >= den THEN [q |-> 2 * p.q + 1, rest |-> 2 * p.rest - den]
                      ELSE [q |-> 2 * p.q, rest |-> 2 * p.rest]
           start == [q |-> 0, rest |-> num]
           is(f) == f = [i \in 0..(w - 1) |-> IF i = 0 THEN start ELSE next(f[i - 1])]
           x(i) == num * 2^i
           at(i) == [q |-> x(i) \div den, rest |-> x(i) % den]
           g == [i \in 0..(w - 1) |-> at(i)]
           after == CHOOSE f : is(f)
<1>1. LongDivision(num, den) = after[w - 1].q
  BY DEF LongDivision
<1>2. at(0) = start
  <2>1. x(0) = num
    <3>1. 2^0 = 1
      BY PowerOfTwo
    <3> QED
      BY <3>1
  <2>2. num = 0 * den + num /\ 0 \in Int
    OBVIOUS
  <2>3. num \div den = 0 /\ num % den = num
    BY <2>2, IntDivisionIsUnique
  <2> HIDE DEF x
  <2> QED
    BY <2>1, <2>3
<1>3. \A i \in Nat : at(i + 1) = next(at(i))
  <2> TAKE i \in Nat
  <2>1. x(i) \in Nat /\ x(i + 1) = 2 * x(i) /\ den > 0
    <3> DEFINE p == 2^i
    <3>1. p \in Nat /\ 2^(i + 1) = 2 * p
      BY PowerOfTwo
    <3> HIDE DEF p
    <3>2. num * p \in Nat /\ num * (2 * p) = 2 * (num * p)
      BY <3>1
    <3> QED
      BY <3>1, <3>2 DEF p
  <2> HIDE DEF x
  <2>2. /\ (2 * x(i)) \div den = IF 2 * (x(i) % den) >= den THEN 2 * (x(i) \div den) + 1
                                 ELSE 2 * (x(i) \div den)
        /\ (2 * x(i)) % den = IF 2 * (x(i) % den) >= den THEN 2 * (x(i) % den) - den
                              ELSE 2 * (x(i) % den)
    BY <2>1, OneBit
  <2>3. CASE 2 * (x(i) % den) >= den
    BY <2>1, <2>2, <2>3
  <2>4. CASE ~(2 * (x(i) % den) >= den)
    BY <2>1, <2>2, <2>4
  <2> QED
    BY <2>3, <2>4
<1>4. w - 1 \in Nat /\ H = 2^(w - 1)
  BY WordSizes
<1> HIDE DEF next, at, x, start
<1>5. is(g)
  <2>1. ASSUME NEW i \in 0..(w - 1)
        PROVE  g[i] = IF i = 0 THEN start ELSE next(g[i - 1])
    <3>1. CASE i = 0
      BY <3>1, <1>2
    <3>2. CASE i # 0
      <4>1. i - 1 \in 0..(w - 1) /\ i - 1 \in Nat /\ (i - 1) + 1 = i
        BY <3>2, <1>4
      <4>2. at(i) = next(at(i - 1))
        BY <4>1, <1>3
      <4> QED
        BY <3>2, <4>1, <4>2
    <3> QED
      BY <3>1, <3>2
  <2> HIDE DEF g
  <2>2. g = [i \in 0..(w - 1) |-> g[i]]
    BY DEF g
  <2> QED
    BY <2>1, <2>2
<1>6. is(after)
  <2> HIDE DEF is, g
  <2> QED
    BY <1>5
<1> HIDE DEF after
<1>7. \A i \in 0..(w - 1) : after[i] = IF i = 0 THEN start ELSE next(after[i - 1])
  <2> DEFINE e(i) == IF i = 0 THEN start ELSE next(after[i - 1])
  <2>1. after = [i \in 0..(w - 1) |-> e(i)]
    BY <1>6
  <2> HIDE DEF e
  <2>2. \A i \in 0..(w - 1) : after[i] = e(i)
    BY <2>1
  <2> QED
    BY <2>2 DEF e
<1> DEFINE N == {i \in 0..(w - 1) : after[i] = at(i)}
           n == w - 1
<1>8. 0 \in N
  BY <1>2, <1>4, <1>7
<1>9. ASSUME NEW i \in 0..n - 1, i \in N PROVE i + 1 \in N
  <2>1. i + 1 \in 0..n /\ i + 1 # 0 /\ (i + 1) - 1 = i /\ i \in Nat
    BY <1>4
  <2>2. after[i + 1] = next(after[i])
    BY <2>1, <1>7
  <2> QED
    BY <2>1, <2>2, <1>3, <1>9
<1>10. 0..n \subseteq N
  <2> HIDE DEF N, n
  <2>1. n \in Nat
    BY <1>4 DEF n
  <2> QED
    BY <2>1, <1>8, <1>9, InductionUpTo
<1>11. after[w - 1] = at(w - 1)
  BY <1>4, <1>10
<1> QED
  BY <1>1, <1>4, <1>11 DEF at, x

(* A quotient of numbers that are not negative is below a limit as the dividend
   is below its multiple. *)
LEMMA QuotientBelow ==
  ASSUME NEW x \in Nat, NEW d \in Nat, d > 0, NEW n \in Nat
  PROVE  /\ x \div d \in Nat
         /\ x < n * d => x \div d < n
         /\ x >= n * d => x \div d >= n
<1> DEFINE q == x \div d
           t == x % d
<1>1. q \in Int /\ t \in Nat /\ t < d /\ x = q * d + t
  BY IntDivision
<1> HIDE DEF q, t
<1>2. q \in Nat
  <2> SUFFICES ASSUME q < 0 PROVE FALSE
    BY <1>1
  <2>1. (-1 - q) * d >= 0 /\ (-1 - q) * d = -d - q * d /\ q * d \in Int
    BY <1>1
  <2> QED
    BY <2>1, <1>1
<1>3. ASSUME x < n * d PROVE q < n
  <2> SUFFICES ASSUME q >= n PROVE FALSE
    BY <1>1
  <2>1. (q - n) * d >= 0 /\ (q - n) * d = q * d - n * d /\ q * d \in Int /\ n * d \in Int
    BY <1>1
  <2> QED
    BY <2>1, <1>1, <1>3
<1>4. ASSUME x >= n * d PROVE q >= n
  <2> SUFFICES ASSUME q < n PROVE FALSE
    BY <1>1
  <2>1. (n - 1 - q) * d >= 0 /\ (n - 1 - q) * d = n * d - d - q * d /\ q * d \in Int /\ n * d \in Int
    BY <1>1
  <2> QED
    BY <2>1, <1>1, <1>4
<1> QED
  BY <1>2, <1>3, <1>4 DEF q

(* div_s(): a quotient of one stands for the largest fraction. *)
LEMMA DivsIs ==
  ASSUME NEW a \in Word16, NEW c \in Word16, Divisible(a, c)
  PROVE  div_s(a, c) = Nearest((a * H) \div c, 0, MAX_16)
<1>1. /\ H \in Nat /\ H >= 4 /\ a \in Nat /\ c \in Nat /\ a <= c /\ c > 0 /\ MAX_16 = H - 1
      /\ a * H \in Nat /\ c * H \in Nat
  <2>1. /\ H \in Nat /\ H >= 4 /\ a \in Nat /\ c \in Nat /\ a <= c /\ c > 0 /\ MAX_16 = H - 1
    BY WidthAssumption DEF Word16, MIN_16, MAX_16, Divisible
  <2> QED
    BY <2>1
<1> DEFINE z == a * H
           q == z \div c
<1>2. CASE a = 0
  <2>1. z = 0 /\ 0 = 0 * c + 0 /\ 0 \in Int /\ 0 \in Nat
    BY <1>1, <1>2
  <2>2. 0 \div c = 0
    BY <2>1, <1>1, IntDivisionIsUnique
  <2>3. q = 0
    BY <2>1, <2>2
  <2> HIDE DEF q
  <2>4. Nearest(q, 0, MAX_16) = 0
    BY <1>1, <2>3 DEF Nearest
  <2> QED
    BY <1>2, <2>4 DEF div_s, q
<1>3. CASE a # 0 /\ a = c
  <2>1. z = H * c + 0 /\ z \in Int /\ H \in Int /\ 0 \in Nat /\ 0 < c
    BY <1>1, <1>3
  <2>2. q = H
    <3> HIDE DEF z
    <3> QED
      BY <2>1, <1>1, IntDivisionIsUnique
  <2> HIDE DEF q
  <2>3. Nearest(q, 0, MAX_16) = MAX_16
    BY <1>1, <2>2 DEF Nearest
  <2> QED
    BY <1>3, <2>3 DEF div_s, q
<1>4. CASE a # 0 /\ a # c
  <2>1. a < c
    BY <1>1, <1>4
  <2>2. div_s(a, c) = q
    BY <1>1, <1>4, <2>1, LongDivisionIs DEF div_s
  <2>3. z < H * c
    <3>1. (c - a) * H > 0 /\ (c - a) * H = c * H - a * H
      BY <1>1, <2>1
    <3> QED
      BY <3>1, <1>1
  <2>4. q \in Nat /\ q < H
    <3> HIDE DEF z
    <3>1. z \in Nat
      BY <1>1 DEF z
    <3> QED
      BY <3>1, <2>3, <1>1, QuotientBelow
  <2> HIDE DEF q
  <2>5. Nearest(q, 0, MAX_16) = q
    BY <1>1, <2>4 DEF Nearest
  <2> QED
    BY <2>2, <2>5 DEF q
<1> QED
  BY <1>2, <1>3, <1>4

(* What the limits of the words are. *)
LEMMA Limits ==
  /\ H \in Nat /\ H >= 4 /\ M \in Nat /\ M = 2 * (H * H) /\ H * H \in Nat /\ H * H >= 4 * H
  /\ MIN_16 = -H /\ MAX_16 = H - 1 /\ MIN_32 = -M /\ MAX_32 = M - 1
  /\ \A a \in Word16 : a \in Int /\ -H <= a /\ a <= H - 1
  /\ \A a \in Int : -H <= a /\ a <= H - 1 => a \in Word16
  /\ \A x \in Word32 : x \in Int /\ -M <= x /\ x <= M - 1
  /\ \A x \in Int : -M <= x /\ x <= M - 1 => x \in Word32
<1>1. H \in Nat /\ H >= 4 /\ M \in Nat /\ M = 2 * (H * H) /\ H * H \in Nat
  BY WidthAssumption, MIsPositive
<1>2. H * H >= 4 * H
  BY <1>1
<1>3. MIN_16 = -H /\ MAX_16 = H - 1 /\ MIN_32 = -M /\ MAX_32 = M - 1
  BY DEF MIN_16, MAX_16, MIN_32, MAX_32
<1> QED
  BY <1>1, <1>2, <1>3 DEF Word16, Word32

LEMMA HalfIs == \A x \in Word32 : L_ShrUp(x, 1) = x \div 2
<1>1. 2^1 = 2
  <2>1. 0 \in Nat /\ 0 + 1 = 1
    OBVIOUS
  <2>2. 2^(0 + 1) = 2 * 2^0 /\ 2^0 = 1
    BY <2>1, PowerOfTwo
  <2> QED
    BY <2>1, <2>2
<1>2. 0 \in Word16
  BY Limits
<1>3. 1 \in Nat
  OBVIOUS
<1> QED
  BY <1>1, <1>2, <1>3, RightShifts

(* div_l(): the dividend loses its last bit. *)
LEMMA DivlIs ==
  ASSUME NEW x \in Word32, NEW c \in Word16, L_Divisible(x, c)
  PROVE  div_l(x, c) = Nearest((x \div 2) \div c, 0, MAX_16)
<1> DEFINE h == x \div 2
           d == H * c
           q == h \div c
<1>1. /\ H \in Nat /\ H >= 4 /\ M = 2 * (H * H) /\ x \in Nat /\ c \in Nat /\ c > 0 /\ c <= H - 1
      /\ MAX_16 = H - 1
  BY Limits DEF L_Divisible
<1>2. d \in Nat /\ d > 0 /\ L_deposit_h(c) = 2 * d
  <2>1. H * c > 0 /\ H * c \in Nat /\ c * 2 * H = 2 * (H * c)
    BY <1>1
  <2> QED
    BY <2>1 DEF L_deposit_h
<1>3. L_deposit_h(c) \in Word32
  <2>1. (H - 1 - c) * H >= 0 /\ (H - 1 - c) * H = H * H - H - H * c
    BY <1>1
  <2>2. H * H \in Nat /\ H * c \in Nat
    BY <1>1
  <2>3. 2 * d <= M - 1 /\ -M <= 2 * d /\ 2 * d \in Int
    BY <1>1, <2>1, <2>2
  <2> QED
    BY <2>3, <1>2, Limits
<1>4. h \in Nat /\ (x < 2 * d => h < d) /\ (x >= 2 * d => h >= d)
  <2>1. 2 * d = d * 2 /\ 2 \in Nat /\ 2 > 0 /\ x \in Nat /\ d \in Nat
    BY <1>1, <1>2
  <2> HIDE DEF d
  <2>2. x < d * 2 => x \div 2 < d
    BY <2>1, QuotientBelow
  <2>3. x >= d * 2 => x \div 2 >= d
    BY <2>1, QuotientBelow
  <2>4. x \div 2 \in Nat
    BY <2>1, QuotientBelow
  <2> QED
    BY <2>1, <2>2, <2>3, <2>4
<1>5. L_ShrUp(x, 1) = h /\ L_ShrUp(L_deposit_h(c), 1) = d
  <2>1. L_ShrUp(x, 1) = h
    BY HalfIs
  <2>2. L_ShrUp(L_deposit_h(c), 1) = (2 * d) \div 2
    BY <1>2, <1>3, HalfIs
  <2>3. (2 * d) \div 2 = d
    <3> HIDE DEF d
    <3> QED
      BY <1>2
  <2> QED
    BY <2>1, <2>2, <2>3
<1>6. q \in Nat /\ (h < d => q < H) /\ (h >= d => q >= H)
  <2> HIDE DEF h
  <2>1. h \in Nat
    BY <1>4
  <2> QED
    BY <2>1, <1>1, QuotientBelow
<1>7. CASE x >= 2 * d
  <2>1. div_l(x, c) = MAX_16
    BY <1>2, <1>7 DEF div_l
  <2>2. q >= H
    BY <1>4, <1>6, <1>7
  <2> HIDE DEF q, h, d
  <2>3. Nearest(q, 0, MAX_16) = MAX_16
    BY <1>1, <1>6, <2>2 DEF Nearest
  <2> QED
    BY <2>1, <2>3 DEF q, h
<1>8. CASE ~(x >= 2 * d)
  <2>1. h < d /\ div_l(x, c) = LongDivision(h, d)
    <3>1. x < 2 * d
      <4> HIDE DEF d
      <4> QED
        BY <1>1, <1>2, <1>8
    <3>2. ~(x >= L_deposit_h(c))
      BY <1>2, <1>8
    <3>3. div_l(x, c) = LongDivision(h, d)
      <4>1. div_l(x, c) = LongDivision(L_ShrUp(x, 1), L_ShrUp(L_deposit_h(c), 1))
        BY <3>2 DEF div_l
      <4> HIDE DEF h, d
      <4> QED
        BY <4>1, <1>5
    <3> QED
      BY <3>1, <3>3, <1>4
  <2>2. LongDivision(h, d) = (h * H) \div d
    <3> HIDE DEF h, d
    <3> QED
      BY <1>2, <1>4, <2>1, LongDivisionIs
  <2>3. (h * H) \div d = q
    <3> DEFINE t == h % c
               y == h * H
               s == t * H
    <3>1. q \in Int /\ t \in Nat /\ t < c /\ h = q * c + t
      <4> HIDE DEF h
      <4> QED
        BY <1>1, <1>4, IntDivision
    <3> HIDE DEF t, q
    <3>2. y \in Int /\ y = q * d + s
      <4>1. h \in Nat
        BY <1>4
      <4> HIDE DEF h
      <4>2. h * H = (q * c + t) * H
        BY <3>1
      <4>3. (q * c + t) * H = q * (H * c) + t * H
        BY <1>1, <3>1
      <4> QED
        BY <4>1, <4>2, <4>3, <1>1
    <3>3. s \in Nat /\ s < d
      <4>1. (c - t) * H > 0 /\ (c - t) * H = H * c - t * H /\ t * H \in Nat /\ H * c \in Nat
        BY <1>1, <3>1
      <4> QED
        BY <4>1
    <3> HIDE DEF y, s, d
    <3>4. y \div d = q
      BY <1>2, <3>1, <3>2, <3>3, IntDivisionIsUnique
    <3> QED
      BY <3>4 DEF y, d, q
  <2>4. q < H
    BY <1>6, <2>1
  <2>5. div_l(x, c) = q
    BY <2>1, <2>2, <2>3
  <2> HIDE DEF q, h, d
  <2>6. Nearest(q, 0, MAX_16) = q
    BY <1>1, <1>6, <2>4 DEF Nearest
  <2> QED
    BY <2>5, <2>6 DEF q, h
<1> QED
  BY <1>7, <1>8

(* The cast of a number that is a Word16. *)
LEMMA CastIs == \A x \in Word16 : Cast16(x) = x /\ saturate(x) = Exact(x)
<1> SUFFICES ASSUME NEW x \in Word16 PROVE Cast16(x) = x /\ saturate(x) = Exact(x)
  OBVIOUS
<1>1. H \in Nat /\ H >= 4 /\ x \in Int /\ -H <= x /\ x <= H - 1 /\ MIN_16 = -H /\ MAX_16 = H - 1
  BY Limits
<1> DEFINE y == x + H
           n == 2 * H
<1>2. y \in Nat /\ n \in Nat /\ y < n /\ y = 0 * n + y /\ 0 \in Int /\ y \in Int
  BY <1>1
<1> HIDE DEF y, n
<1>3. y % n = y
  BY <1>2, IntDivisionIsUnique
<1>4. Cast16(x) = y - H
  BY <1>3 DEF Cast16, y, n
<1>5. Cast16(x) = x
  BY <1>1, <1>4 DEF y
<1>6. ~(x > MAX_16) /\ ~(x < MIN_16)
  BY <1>1
<1> QED
  BY <1>5, <1>6 DEF saturate

(* A term is added without its low bits being lost, and saturates. *)
LEMMA MacOne ==
  ASSUME NEW x \in Word32, NEW f \in Word16
  PROVE  L_mac(x, f, 1).v = Near32(x + 2 * f) /\ L_msu(x, f, H \div 2).v = Near32(x - f * H)
<1>1. /\ H \in Nat /\ H >= 4 /\ H * H >= 4 * H /\ H * H \in Nat
      /\ f \in Int /\ -H <= f /\ f <= H - 1 /\ M = 2 * (H * H) /\ x \in Int
  BY Limits
<1>2. H \div 2 \in Nat /\ H = 2 * (H \div 2)
  BY WordSizes
<1> DEFINE h == H \div 2
<1> HIDE DEF h
<1>3. L_mult(f, 1) = Exact(2 * f)
  <2>1. f * 1 # H * H /\ 2 * f * 1 = 2 * f
    BY <1>1
  <2> QED
    BY <2>1 DEF L_mult
<1>4. L_mult(f, H \div 2) = Exact(f * H)
  <2>1. h \in Nat /\ H = 2 * h
    BY <1>2 DEF h
  <2>2. f * h # H * H
    <3>1. (H - f) * h >= 0 /\ (H - f) * h = H * h - f * h /\ f * h \in Int /\ H * h \in Int
      BY <1>1, <2>1
    <3>2. H * H = 2 * (H * h)
      <4>1. H * (2 * h) = 2 * (H * h)
        BY <2>1, <1>1
      <4> QED
        BY <4>1, <2>1
    <3> QED
      BY <3>1, <3>2, <1>1
  <2>3. 2 * f * h = f * H
    <3>1. 2 * f * h = f * (2 * h)
      BY <2>1, <1>1
    <3> QED
      BY <3>1, <2>1
  <2> QED
    BY <2>2, <2>3 DEF L_mult, h
<1>5. 2 * f \in Word32 /\ f * H \in Word32
  <2>1. 2 * f \in Int /\ -M <= 2 * f /\ 2 * f <= M - 1
    BY <1>1
  <2>2. f * H \in Int /\ -M <= f * H /\ f * H <= M - 1
    <3>1. /\ (H - 1 - f) * H >= 0 /\ (H - 1 - f) * H = H * H - H - f * H /\ f * H \in Int
          /\ (H + f) * H >= 0 /\ (H + f) * H = H * H + f * H
      BY <1>1
    <3> QED
      BY <3>1, <1>1
  <2> QED
    BY <2>1, <2>2, Limits
<1>6. L_mac(x, f, 1).v = L_add(x, 2 * f).v /\ L_msu(x, f, H \div 2).v = L_sub(x, f * H).v
  BY <1>3, <1>4 DEF L_mac, L_msu, Exact
<1> QED
  BY <1>5, <1>6, AddIsNearest, SubIsNearest

(* Near32() leaves a Word32 as it is. *)
LEMMA NearIs == \A x \in Int : -M <= x /\ x <= M - 1 => Near32(x) = x
BY Limits DEF Near32

(* A Word32 in two halves: the high one with the sign, and the low one without
   it and without its last bit. *)
LEMMA ExtractIs ==
  ASSUME NEW x \in Word32
  PROVE  LET hi == L_Extract(x).hi
             lo == L_Extract(x).lo
         IN /\ hi \in Word16 /\ lo \in 0..H - 1 /\ lo \in Word16 /\ extract_h(x) = hi
            /\ x % 2 \in 0..1 /\ x = 2 * (hi * H + lo) + (x % 2)
            /\ x % (2 * H) = 2 * lo + (x % 2)
<1> DEFINE n == 2 * H
           hi == x \div n
           t == x % n
           lo == t \div 2
           bit == t % 2
<1>1. H \in Nat /\ H >= 4 /\ x \in Int /\ -M <= x /\ x <= M - 1 /\ M = 2 * (H * H) /\ n \in Nat /\ n > 0
  BY Limits
<1>2. hi \in Int /\ t \in Nat /\ t < n /\ x = hi * n + t
  <2> HIDE DEF n
  <2> QED
    BY <1>1, IntDivision
<1> HIDE DEF hi, t
<1>3. lo \in Nat /\ lo < H /\ bit \in 0..1 /\ t = 2 * lo + bit
  <2>1. lo \in Int /\ bit \in Nat /\ bit < 2 /\ t = lo * 2 + bit
    BY <1>2, IntDivision
  <2> HIDE DEF lo, bit
  <2> QED
    BY <2>1, <1>1, <1>2
<1> HIDE DEF lo, bit
<1>4. x = 2 * (hi * H + lo) + bit /\ hi * H \in Int
  <2>1. hi * (2 * H) = 2 * (hi * H) /\ hi * H \in Int
    BY <1>1, <1>2
  <2> QED
    BY <2>1, <1>2, <1>3
<1>5. hi \in Word16
  <2>1. ~(hi >= H)
    <3> SUFFICES ASSUME hi >= H PROVE FALSE
      OBVIOUS
    <3>1. (hi - H) * H >= 0 /\ (hi - H) * H = hi * H - H * H /\ H * H \in Int
      BY <1>1, <1>2
    <3> QED
      BY <3>1, <1>1, <1>3, <1>4
  <2>2. ~(hi < -H)
    <3> SUFFICES ASSUME hi < -H PROVE FALSE
      OBVIOUS
    <3>1. (-H - 1 - hi) * H >= 0 /\ (-H - 1 - hi) * H = -(H * H) - H - hi * H /\ H * H \in Int
      BY <1>1, <1>2
    <3> QED
      BY <3>1, <1>1, <1>3, <1>4
  <2> QED
    BY <2>1, <2>2, <1>1, <1>2, Limits
<1>6. x % 2 = bit /\ x \div 2 = hi * H + lo
  <2> DEFINE q == hi * H + lo
  <2>1. q \in Int /\ x = q * 2 + bit /\ bit \in Nat /\ bit < 2 /\ 2 \in Nat
    BY <1>3, <1>4
  <2> HIDE DEF q
  <2>2. x % 2 = bit /\ x \div 2 = q
    BY <2>1, <1>1, IntDivisionIsUnique
  <2> QED
    BY <2>2 DEF q
<1>7. lo \in 0..H - 1 /\ lo \in Word16
  BY <1>1, <1>3, Limits
<1>8. extract_h(x) = hi
  BY DEF extract_h, hi, n
<1>9. L_msu(L_ShrUp(x, 1), hi, H \div 2).v = lo
  <2> DEFINE p == hi * H + lo
  <2>1. L_ShrUp(x, 1) = p
    BY <1>6, HalfIs
  <2>2. /\ p \in Int /\ bit \in Int /\ 0 <= bit /\ bit <= 1 /\ x = 2 * p + bit
        /\ M \in Nat /\ x \in Int /\ -M <= x /\ x <= M - 1
    BY <1>3, <1>4, Limits
  <2>3. p - hi * H = lo
    BY <1>3, <1>4
  <2> HIDE DEF p
  <2>4. p \in Word32
    <3>1. p \in Int /\ -M <= p /\ p <= M - 1
      BY <2>2
    <3> QED
      BY <3>1, Limits
  <2>5. L_msu(p, hi, H \div 2).v = Near32(p - hi * H)
    BY <2>4, <1>5, MacOne
  <2>6. Near32(lo) = lo
    <3>1. lo \in Int /\ -M <= lo /\ lo <= M - 1
      BY <1>3, Limits
    <3> QED
      BY <3>1, NearIs
  <2> QED
    BY <2>1, <2>3, <2>5, <2>6
<1>10. L_Extract(x) = [hi |-> hi, lo |-> lo]
  <2>1. extract_l(lo) = lo
    BY <1>7, CastIs DEF extract_l
  <2> QED
    BY <1>8, <1>9, <2>1 DEF L_Extract
<1>11. L_Extract(x).hi = hi /\ L_Extract(x).lo = lo
  BY <1>10
<1>12. x % (2 * H) = 2 * lo + bit
  BY <1>3 DEF t, n
<1> QED
  BY <1>3, <1>4, <1>5, <1>6, <1>7, <1>8, <1>11, <1>12

(* The two halves put together again. *)
LEMMA CompIs ==
  ASSUME NEW x \in Word32
  PROVE  L_Comp(L_Extract(x).hi, L_Extract(x).lo) = x - (x % 2)
<1> DEFINE hi == L_Extract(x).hi
           lo == L_Extract(x).lo
           bit == x % 2
<1>1. /\ hi \in Word16 /\ lo \in 0..H - 1 /\ lo \in Word16 /\ bit \in 0..1
      /\ x = 2 * (hi * H + lo) + bit /\ hi \in Int
  BY ExtractIs, Limits
<1> HIDE DEF hi, lo, bit
<1>2. H \in Nat /\ H >= 4 /\ x \in Int /\ -M <= x /\ x <= M - 1 /\ M = 2 * (H * H) /\ -H <= hi
  BY <1>1, Limits
<1> DEFINE z == hi * 2 * H
<1>3. z = 2 * (hi * H) /\ hi * H \in Int /\ z + 2 * lo = x - bit
  BY <1>1, <1>2
<1>4. z \in Int /\ -M <= z /\ z <= M - 1
  <2> DEFINE p == hi * H
             q == H * H
  <2>1. (H + hi) * H >= 0 /\ (H + hi) * H = q + p /\ q \in Int /\ p \in Int
    BY <1>1, <1>2
  <2>3. M = 2 * q /\ z = 2 * p
    BY <1>2, <1>3
  <2>2. -M <= z /\ lo \in Int /\ lo >= 0 /\ bit \in Int /\ bit >= 0 /\ z \in Int
    <3>1. lo \in Int /\ lo >= 0 /\ bit \in Int /\ bit >= 0
      BY <1>1, <1>2
    <3> HIDE DEF p, q, z
    <3> QED
      BY <2>1, <2>3, <3>1
  <2> HIDE DEF z
  <2> QED
    BY <2>2, <1>1, <1>2, <1>3
<1>5. z \in Word32
  BY <1>4, Limits
<1>6. L_Comp(hi, lo) = Near32(z + 2 * lo)
  BY <1>1, <1>5, MacOne DEF L_Comp, L_deposit_h
<1>7. x - bit \in Int /\ -M <= x - bit /\ x - bit <= M - 1
  BY <1>1, <1>2, <1>3, <1>4
<1>8. Near32(x - bit) = x - bit
  BY <1>7, NearIs
<1> QED
  BY <1>3, <1>6, <1>8 DEF hi, lo, bit

(* L_mls(): the product of a Word32 and a Word16, rounded down and saturated. *)
LEMMA MlsIs ==
  ASSUME NEW x \in Word32, NEW a \in Word16, a # MIN_16
  PROVE  L_mls(x, a).v = Nearest((x * a) \div H, MIN_32, MAX_32)
<1> DEFINE hi == extract_h(x)
           t  == x % (2 * H)
           s  == t * a
           p  == s \div H
           g  == 2 * a * hi
<1>1. /\ H \in Nat /\ H >= 4 /\ H * H \in Nat /\ M = 2 * (H * H) /\ a \in Int /\ a <= H - 1
      /\ a >= -H /\ a # -H /\ x \in Int /\ M \in Nat /\ MIN_32 = -M /\ MAX_32 = M - 1
  BY Limits
<1>2. hi \in Word16 /\ hi \in Int /\ -H <= hi /\ hi <= H - 1
  BY ExtractIs, Limits
<1>3. t \in Nat /\ t < 2 * H /\ x = hi * (2 * H) + t
  <2> DEFINE n == 2 * H
  <2>1. n \in Nat /\ n > 0
    BY <1>1
  <2> HIDE DEF n
  <2>2. x % n \in Nat /\ x % n < n /\ x = (x \div n) * n + (x % n)
    BY <1>1, <2>1, IntDivision
  <2> QED
    BY <2>2 DEF n, extract_h
<1> HIDE DEF hi, t
<1>4. s \in Int /\ -M <= s /\ s <= M - 1
  <2>1. /\ (H - a) * t >= 0 /\ (H - a) * t = H * t - s /\ s \in Int /\ H * t \in Int
        /\ (H + a) * t >= 0 /\ (H + a) * t = H * t + s
    BY <1>1, <1>3
  <2>2. (2 * H - 1 - t) * H >= 0 /\ (2 * H - 1 - t) * H = M - H - H * t
    BY <1>1, <1>3
  <2> HIDE DEF s
  <2> QED
    BY <2>1, <2>2, <1>1
<1>5. L_ShrUp(s, w - 1) = p
  <2>1. s \in Word32 /\ 0 \in Word16
    BY <1>4, Limits
  <2>2. w - 1 \in Nat /\ H = 2^(w - 1)
    BY WordSizes
  <2> HIDE DEF s
  <2>3. L_ShrUp(s, w - 1) = s \div 2^(w - 1)
    BY <2>1, <2>2, RightShifts
  <2> QED
    BY <2>2, <2>3
<1>6. p \in Int /\ s % H \in Nat /\ s % H < H /\ s = p * H + (s % H)
  <2> HIDE DEF s
  <2> QED
    BY <1>1, <1>4, IntDivision
<1>7. (x * a) \div H = p + g
  <2> DEFINE y == x * a
             q == p + g
             r == s % H
  <2>1. g \in Int /\ y \in Int /\ y = g * H + s
    <3>1. (hi * (2 * H) + t) * a = (2 * a * hi) * H + t * a
      BY <1>1, <1>2, <1>3
    <3>2. x * a \in Int /\ 2 * a * hi \in Int
      BY <1>1, <1>2
    <3> QED
      BY <3>1, <3>2, <1>3
  <2>2. q \in Int /\ r \in Nat /\ r < H /\ q * H = p * H + g * H
    <3> HIDE DEF p, g, s
    <3> QED
      BY <1>1, <1>6, <2>1
  <2>3. y = q * H + r
    <3> HIDE DEF y, q, p, g, s
    <3>1. p * H \in Int /\ g * H \in Int
      BY <1>1, <1>6, <2>1
    <3> QED
      BY <3>1, <1>4, <1>6, <2>1, <2>2 DEF r
  <2> HIDE DEF y, q, r
  <2>4. y \div H = q
    BY <1>1, <2>1, <2>2, <2>3, IntDivisionIsUnique
  <2> QED
    BY <2>4 DEF y, q
<1>8. p \in Word32
  <2>1. ~(p > M - 1) /\ ~(p < -M)
    <3> HIDE DEF p, s
    <3>1. p > M - 1 => (p - M) * (H - 1) >= 0 /\ (p - M) * (H - 1) = p * H - p - M * H + M
                       /\ M * H >= M /\ p * H \in Int /\ M * H \in Int
      BY <1>1, <1>6
    <3>2. p < -M => (-M - 1 - p) * (H - 1) >= 0
                    /\ (-M - 1 - p) * (H - 1) = -(M * H) + M - H + 1 - p * H + p
                    /\ M * H >= M /\ p * H \in Int /\ M * H \in Int
      BY <1>1, <1>6
    <3> DEFINE k == M * H
               j == p * H
    <3> HIDE DEF k, j
    <3>3. /\ p \in Int /\ M \in Nat /\ s \in Int /\ -M <= s /\ s <= M - 1 /\ H \in Nat /\ H >= 4
          /\ s % H \in Nat /\ s % H < H
          /\ s = j + (s % H)
      BY <1>1, <1>4, <1>6 DEF j
    <3>4. p > M - 1 => j - p - k + M >= 0 /\ k >= M /\ j \in Int /\ k \in Int
      BY <3>1 DEF j, k
    <3>5. p < -M => -k + M - H + 1 - j + p >= 0 /\ k >= M /\ j \in Int /\ k \in Int
      BY <3>2 DEF j, k
    <3> QED
      BY <3>3, <3>4, <3>5
  <2> HIDE DEF p
  <2> QED
    BY <2>1, <1>1, <1>6, Limits
<1>9. L_mult(a, hi) = Exact(g)
  <2>1. a * hi # H * H
    <3>1. a * hi <= H * H - H
      <4>1. CASE hi >= 0
        <5>1. (H - 1 - a) * hi >= 0 /\ (H - 1 - a) * hi = H * hi - hi - a * hi
          BY <1>1, <1>2, <4>1
        <5>2. (H - 1 - hi) * H >= 0 /\ (H - 1 - hi) * H = H * H - H - H * hi
              /\ a * hi \in Int /\ H * hi \in Int
          BY <1>1, <1>2
        <5> QED
          BY <4>1, <5>1, <5>2, <1>1, <1>2
      <4>2. CASE hi < 0
        <5>1. (H - 1 + a) * (-hi) >= 0 /\ (H - 1 + a) * (-hi) = -(H * hi) + hi - a * hi
          BY <1>1, <1>2, <4>2
        <5>2. (H + hi) * (H - 1) >= 0 /\ (H + hi) * (H - 1) = H * H + H * hi - H - hi
              /\ a * hi \in Int /\ H * hi \in Int
          BY <1>1, <1>2
        <5> QED
          BY <5>1, <5>2, <1>1, <1>2
      <4> QED
        BY <4>1, <4>2, <1>2
    <3>2. a * hi \in Int
      BY <1>1, <1>2
    <3> QED
      BY <3>1, <3>2, <1>1
  <2> QED
    BY <2>1 DEF L_mult
<1>10. g \in Word32
  <2>1. L_mult(a, hi).v = g
    BY <1>9 DEF Exact
  <2> QED
    BY <2>1, <1>2, MultType
<1>11. L_mls(x, a).v = L_add(p, g).v
  <2>1. L_mls(x, a) = L_mac(p, a, hi)
    BY <1>5 DEF L_mls, s, t, hi
  <2> QED
    BY <2>1, <1>9 DEF L_mac, Exact
<1>12. L_add(p, g).v = Near32(p + g)
  BY <1>8, <1>10, AddIsNearest
<1>13. Near32(p + g) = Nearest(p + g, MIN_32, MAX_32)
  BY <1>1 DEF Near32, Nearest
<1> QED
  BY <1>7, <1>11, <1>12, <1>13

(* The product of a low half and a Word16, rounded down. *)
LEMMA MultIs ==
  ASSUME NEW lo \in 0..H - 1, NEW n \in Word16
  PROVE  LET f == (lo * n) \div H
         IN /\ mult(lo, n).v = f /\ mult(n, lo).v = f /\ f \in Word16 /\ f \in Int
            /\ H * f <= lo * n /\ lo * n < H * f + H
            /\ n > 0 => 0 <= f /\ f < n
            /\ n = 0 => f = 0
            /\ n < 0 => n <= f /\ f <= 0
<1> DEFINE p == lo * n
           f == p \div H
           t == p % H
<1>1. H \in Nat /\ H >= 4 /\ lo \in Int /\ 0 <= lo /\ lo <= H - 1 /\ n \in Int /\ -H <= n /\ n <= H - 1
  BY Limits
<1>2. p \in Int /\ n * lo = p
  BY <1>1
<1>3. f \in Int /\ t \in Nat /\ t < H /\ p = f * H + t
  <2> HIDE DEF p
  <2> QED
    BY <1>1, <1>2, IntDivision
<1>4. f * H = H * f /\ H * f \in Int
  <2> HIDE DEF f
  <2> QED
    BY <1>1, <1>3
<1>5. H * f <= p /\ p < H * f + H
  <2> HIDE DEF p, f, t
  <2> QED
    BY <1>1, <1>2, <1>3, <1>4
<1>6. /\ n > 0 => 0 <= p /\ p < H * n
      /\ n = 0 => p = 0
      /\ n < 0 => H * n < p /\ p <= 0
  <2>1. (H - lo) * n = H * n - p /\ H * n \in Int
    BY <1>1
  <2>2. n > 0 => (H - lo) * n > 0 /\ p >= 0
    BY <1>1
  <2>3. n = 0 => p = 0
    BY <1>1
  <2>4. n < 0 => (H - lo) * n < 0 /\ p <= 0
    BY <1>1
  <2> HIDE DEF p
  <2> QED
    BY <2>1, <2>2, <2>3, <2>4, <1>2
<1> HIDE DEF p, f, t
<1>7. ASSUME NEW i \in Int, H * i < H * f + H PROVE i <= f
  <2> SUFFICES ASSUME i > f PROVE FALSE
    BY <1>3
  <2>1. (i - f - 1) * H >= 0 /\ (i - f - 1) * H = H * i - H * f - H /\ H * i \in Int
    BY <1>1, <1>3
  <2> QED
    BY <2>1, <1>1, <1>4, <1>7
<1>8. ASSUME NEW i \in Int, H * f < H * i PROVE f < i
  <2> SUFFICES ASSUME f >= i PROVE FALSE
    BY <1>3
  <2>1. (f - i) * H >= 0 /\ (f - i) * H = H * f - H * i /\ H * i \in Int
    BY <1>1, <1>3
  <2> QED
    BY <2>1, <1>1, <1>4, <1>8
<1>9. 0 \in Int /\ 1 \in Int /\ H * 0 = 0 /\ H * 1 = H /\ H * n \in Int
  BY <1>1
<1>10. n > 0 => 0 <= f /\ f < n
  <2> SUFFICES ASSUME n > 0 PROVE 0 <= f /\ f < n
    OBVIOUS
  <2>1. H * 0 < H * f + H /\ H * f < H * n
    BY <1>1, <1>2, <1>4, <1>5, <1>6, <1>9
  <2> QED
    BY <2>1, <1>1, <1>7, <1>8, <1>9
<1>11. n = 0 => f = 0
  <2> SUFFICES ASSUME n = 0 PROVE f = 0
    OBVIOUS
  <2>1. H * 0 < H * f + H /\ H * f < H * 1
    BY <1>1, <1>2, <1>4, <1>5, <1>6, <1>9
  <2>2. 0 <= f /\ f < 1
    BY <2>1, <1>7, <1>8, <1>9
  <2> QED
    BY <2>2, <1>3
<1>12. n < 0 => n <= f /\ f <= 0
  <2> SUFFICES ASSUME n < 0 PROVE n <= f /\ f <= 0
    OBVIOUS
  <2>1. H * n < H * f + H /\ H * f < H * 1
    BY <1>1, <1>2, <1>4, <1>5, <1>6, <1>9
  <2>2. n <= f /\ f < 1
    BY <2>1, <1>1, <1>7, <1>8, <1>9
  <2> QED
    BY <2>2, <1>3
<1>13. f \in Word16
  <2>1. -H <= f /\ f <= H - 1
    BY <1>1, <1>3, <1>10, <1>11, <1>12
  <2> QED
    BY <2>1, <1>3, Limits
<1>14. saturate(f).v = f
  BY <1>13, CastIs DEF Exact
<1>15. mult(lo, n).v = f /\ mult(n, lo).v = f
  BY <1>2, <1>14 DEF mult, f, p
<1> QED
  BY <1>3, <1>5, <1>10, <1>11, <1>12, <1>13, <1>15 DEF f, p

(* The product of the high halves: the only one of two Word16 that does not fit
   is cut by one. *)
High(i, j) == IF i = -H /\ j = -H THEN M - 1 ELSE 2 * (i * j)

LEMMA HighIs ==
  ASSUME NEW i \in Word16, NEW j \in Word16
  PROVE  L_mult(i, j).v = High(i, j) /\ High(i, j) \in Word32 /\ High(i, j) = High(j, i)
<1>1. H \in Nat /\ H >= 4 /\ i \in Int /\ -H <= i /\ i <= H - 1 /\ j \in Int /\ -H <= j /\ j <= H - 1
      /\ H * H \in Nat /\ MAX_32 = M - 1
  BY Limits
<1>2. i * j = H * H <=> i = -H /\ j = -H
  <2>1. ASSUME i = -H, j = -H PROVE i * j = H * H
    BY <2>1, <1>1
  <2>2. ASSUME i * j = H * H PROVE i = -H /\ j = -H
    <3>1. CASE i >= 0
      <4>1. (H - 1 - j) * i >= 0 /\ (H - 1 - j) * i = H * i - i - i * j /\ H * i \in Int /\ i * j \in Int
        BY <1>1, <3>1
      <4>2. (H - 1 - i) * H >= 0 /\ (H - 1 - i) * H = H * H - H - H * i
        BY <1>1
      <4> QED
        BY <4>1, <4>2, <2>2, <3>1, <1>1
    <3>2. CASE i < 0
      <4>1. (H + j) * (-i) >= 0 /\ (H + j) * (-i) = -(H * i) - i * j /\ H * i \in Int /\ i * j \in Int
        BY <1>1, <3>2
      <4>2. (H + i) * H = H * H + H * i
        BY <1>1
      <4>3. (H + i) * H <= 0
        BY <4>1, <4>2, <2>2, <1>1
      <4>4. i = -H
        <5>1. H + i > 0 => (H + i) * H > 0
          BY <1>1
        <5>2. (H + i) * H \in Int
          BY <1>1
        <5> QED
          BY <5>1, <5>2, <4>3, <1>1
      <4>5. (j + H) * H = 0
        <5>1. (j + H) * H = H * H - i * j
          BY <4>4, <1>1
        <5> QED
          BY <5>1, <2>2, <1>1
      <4>6. j + H = 0
        <5>1. j + H > 0 => (j + H) * H > 0
          BY <1>1
        <5> QED
          BY <5>1, <4>5, <1>1
      <4> QED
        BY <4>4, <4>6, <1>1
    <3> QED
      BY <3>1, <3>2, <1>1
  <2> QED
    BY <2>1, <2>2
<1>3. 2 * i * j = 2 * (i * j) /\ i * j = j * i
  BY <1>1
<1>4. L_mult(i, j).v = High(i, j)
  BY <1>1, <1>2, <1>3 DEF L_mult, High, Exact, Bound
<1>5. High(i, j) = High(j, i)
  BY <1>3 DEF High
<1> QED
  BY <1>4, <1>5, MultType

(* Mpy_32_16(): no sum saturates, and the low half is rounded down. *)
LEMMA Mpy_32_16Is ==
  ASSUME NEW hi \in Word16, NEW lo \in 0..H - 1, NEW n \in Word16
  PROVE  LET f == (lo * n) \div H
             r == High(hi, n) + 2 * f
         IN /\ Mpy_32_16(hi, lo, n) = r /\ r \in Word32
            /\ L_mac(L_mult(n, hi).v, mult(n, lo).v, 1).v = r
<1> DEFINE f == (lo * n) \div H
           g == High(hi, n)
           r == g + 2 * f
<1>1. /\ H \in Nat /\ H >= 4 /\ lo \in Int /\ 0 <= lo /\ lo <= H - 1 /\ n \in Int /\ -H <= n /\ n <= H - 1
      /\ hi \in Int /\ -H <= hi /\ hi <= H - 1 /\ M \in Nat /\ M = 2 * (H * H) /\ H * H \in Nat
  BY Limits
<1>2. /\ mult(lo, n).v = f /\ mult(n, lo).v = f /\ f \in Word16 /\ f \in Int
      /\ H * f <= lo * n /\ lo * n < H * f + H
      /\ n > 0 => 0 <= f /\ f < n
      /\ n = 0 => f = 0
      /\ n < 0 => n <= f /\ f <= 0
  BY MultIs
<1>3. L_mult(hi, n).v = g /\ L_mult(n, hi).v = g /\ g \in Word32 /\ g \in Int
  BY HighIs, Limits
<1>4. /\ Mpy_32_16(hi, lo, n) = Near32(r)
      /\ L_mac(L_mult(n, hi).v, mult(n, lo).v, 1).v = Near32(r)
  <2> HIDE DEF f, g
  <2> QED
    BY <1>2, <1>3, MacOne DEF Mpy_32_16
<1> HIDE DEF f
<1>5. CASE hi = -H /\ n = -H
  <2>1. g = M - 1
    BY <1>5 DEF High
  <2>2. -H <= f /\ f <= 0
    BY <1>1, <1>2, <1>5
  <2>3. H * H >= 4 * H
    BY <1>1
  <2>4. r \in Int /\ -M <= r /\ r <= M - 1
    <3> HIDE DEF g
    <3> QED
      BY <2>1, <2>2, <2>3, <1>1, <1>2
  <2> QED
    BY <2>4, <1>4, NearIs, Limits DEF f
<1>6. CASE ~(hi = -H /\ n = -H)
  <2> DEFINE k == hi * n
             e == k + f
             q == H * H
             m == H * n
  <2>1. g = 2 * k /\ r = 2 * e /\ k \in Int /\ q \in Nat /\ m \in Int /\ M = 2 * q
    <3>1. g = 2 * k
      BY <1>6 DEF High
    <3>2. k \in Int /\ q \in Nat /\ m \in Int /\ M = 2 * q
      BY <1>1
    <3> HIDE DEF k, g, q, m
    <3> QED
      BY <3>1, <3>2, <1>2
  <2>2. -q <= e /\ e <= q - 1
    <3>1. CASE n >= 0
      <4>1. /\ (H - 1 - hi) * n >= 0 /\ (H - 1 - hi) * n = m - n - k
            /\ (H + hi) * n >= 0 /\ (H + hi) * n = m + k
            /\ (H - 1 - n) * H >= 0 /\ (H - 1 - n) * H = q - H - m
        BY <1>1, <3>1
      <4>2. 0 <= f /\ f <= n
        BY <3>1, <1>1, <1>2
      <4> HIDE DEF k, q, m
      <4> QED
        BY <4>1, <4>2, <2>1, <1>1, <1>2
    <3>2. CASE n < 0
      <4>1. /\ (H - 1 - hi) * (-n) >= 0 /\ (H - 1 - hi) * (-n) = -m + n + k
            /\ (H + n) * H >= 0 /\ (H + n) * H = q + m
        BY <1>1, <3>2
      <4>2. n <= f /\ f <= 0
        BY <3>2, <1>2
      <4>3. k <= q - H
        <5>1. CASE hi > -H
          <6>1. /\ (hi + H - 1) * (-n) >= 0 /\ (hi + H - 1) * (-n) = -k - m + n
                /\ (H + n) * (H - 1) >= 0 /\ (H + n) * (H - 1) = q - H + m - n
            BY <5>1, <1>1, <3>2
          <6> HIDE DEF k, q, m
          <6> QED
            BY <6>1, <2>1, <1>1
        <5>2. CASE hi = -H
          <6>1. n + H >= 1 /\ k = -m
            BY <1>1, <1>6, <5>2
          <6>2. (n + H - 1) * H >= 0 /\ (n + H - 1) * H = m + q - H
            BY <1>1, <6>1
          <6> HIDE DEF k, q, m
          <6> QED
            BY <6>1, <6>2, <2>1, <1>1
        <5> QED
          BY <5>1, <5>2, <1>1
      <4> HIDE DEF k, q, m
      <4> QED
        BY <4>1, <4>2, <4>3, <2>1, <1>1, <1>2
    <3> QED
      BY <3>1, <3>2, <1>1
  <2> HIDE DEF k, q, m, g
  <2>3. e \in Int
    BY <2>1, <1>2
  <2> HIDE DEF e
  <2>4. r \in Int /\ -M <= r /\ r <= M - 1
    <3> HIDE DEF r
    <3> QED
      BY <2>1, <2>2, <2>3
  <2> QED
    BY <2>4, <1>4, NearIs, Limits DEF f, g
<1> QED
  BY <1>5, <1>6

-----------------------------------------------------------------------------
(* The quotient of a number between two multiples of the divisor. *)
LEMMA QuotientBetween ==
  ASSUME NEW x \in Int, NEW d \in Nat, d > 0, NEW low \in Int, NEW high \in Int,
         low * d <= x, x < high * d + d
  PROVE  x \div d \in low..high
<1> DEFINE q == x \div d
           t == x % d
<1>1. q \in Int /\ t \in Nat /\ t < d /\ x = q * d + t
  BY IntDivision
<1> HIDE DEF q, t
<1>2. low <= q
  <2> SUFFICES ASSUME q < low PROVE FALSE
    BY <1>1
  <2>1. (low - 1 - q) * d >= 0 /\ (low - 1 - q) * d = low * d - d - q * d /\ q * d \in Int /\ low * d \in Int
    BY <1>1
  <2> QED
    BY <2>1, <1>1
<1>3. q <= high
  <2> SUFFICES ASSUME q > high PROVE FALSE
    BY <1>1
  <2>1. (q - high - 1) * d >= 0 /\ (q - high - 1) * d = q * d - high * d - d /\ q * d \in Int /\ high * d \in Int
    BY <1>1
  <2> QED
    BY <2>1, <1>1
<1> QED
  BY <1>1, <1>2, <1>3 DEF q

(* Mpy_32_16(): within a few units of the exact product. *)
LEMMA Mpy_32_16Near ==
  ASSUME NEW x \in Word32, NEW a \in Word16
  PROVE  Near(Mpy_32_16(L_Extract(x).hi, L_Extract(x).lo, a), (x * a) \div H, 2, 1)
<1> DEFINE hi == L_Extract(x).hi
           lo == L_Extract(x).lo
           bit == x % 2
           f == (lo * a) \div H
           k == hi * a
           e == 2 * k + 2 * f
           r == Mpy_32_16(hi, lo, a)
           p == lo * a
           c == bit * a
           z == x * a
           Q == z \div H
<1>1. /\ hi \in Word16 /\ lo \in 0..H - 1 /\ bit \in 0..1 /\ x = 2 * (hi * H + lo) + bit
  BY ExtractIs
<1>2. /\ H \in Nat /\ H >= 4 /\ a \in Int /\ -H <= a /\ a <= H - 1 /\ x \in Int
      /\ hi \in Int /\ lo \in Int /\ lo >= 0 /\ lo <= H - 1 /\ bit \in Int /\ H * H \in Nat /\ M = 2 * (H * H)
  <2> HIDE DEF hi, lo, bit
  <2> QED
    BY <1>1, Limits
<1> HIDE DEF hi, lo, bit
<1>3. r = High(hi, a) + 2 * f
  BY <1>1, Mpy_32_16Is
<1>4. f \in Int /\ H * f <= p /\ p < H * f + H
  BY <1>1, MultIs
<1>5. k \in Int /\ p \in Int /\ c \in Int /\ z \in Int
  BY <1>2
<1>6. c \in {0, a}
  BY <1>1, <1>2
<1>7. z = 2 * (H * k) + 2 * p + c
  <2>1. (2 * (hi * H + lo) + bit) * a = 2 * (H * (hi * a)) + 2 * (lo * a) + bit * a
    BY <1>2
  <2> QED
    BY <2>1, <1>1
<1> HIDE DEF f, k, p, c, z
<1>8. /\ e \in Int /\ (e - 1) * H = 2 * (H * k) + 2 * (H * f) - H
      /\ (e + 1) * H = 2 * (H * k) + 2 * (H * f) + H
      /\ (e + 2) * H = 2 * (H * k) + 2 * (H * f) + 2 * H
      /\ H * k \in Int /\ H * f \in Int
  BY <1>2, <1>4, <1>5
<1> HIDE DEF e, r, Q
<1>9. (e - 1) * H <= z /\ z < (e + 2) * H + H
  BY <1>2, <1>4, <1>5, <1>6, <1>7, <1>8
<1>10. Q \in e - 1..e + 2
  BY <1>2, <1>5, <1>8, <1>9, QuotientBetween DEF Q
<1>11. CASE hi = -H /\ a = -H
  <2>1. k = H * H
    BY <1>2, <1>11 DEF k
  <2>2. r = e - 1
    BY <1>2, <1>3, <1>4, <1>5, <1>11, <2>1 DEF High, e
  <2>3. z < (e + 1) * H + H
    <3>1. c <= 0
      BY <1>2, <1>6, <1>11
    <3> QED
      BY <3>1, <1>2, <1>4, <1>5, <1>7, <1>8
  <2>4. Q \in e - 1..e + 1
    BY <1>2, <1>5, <1>8, <1>9, <2>3, QuotientBetween DEF Q
  <2>5. r \in Q - 2..Q + 1
    BY <1>8, <2>2, <2>4
  <2> QED
    BY <2>5 DEF Near, r, Q, z, hi, lo
<1>12. CASE ~(hi = -H /\ a = -H)
  <2>1. r = e
    BY <1>3, <1>12 DEF High, e, k
  <2>2. r \in Q - 2..Q + 1
    BY <1>8, <1>10, <2>1
  <2> QED
    BY <2>2 DEF Near, r, Q, z, hi, lo
<1> QED
  BY <1>11, <1>12

(* Mpy_32(): the products of the halves, each rounded down, the last sum
   saturating. *)
LEMMA Mpy_32Is ==
  ASSUME NEW h1 \in Word16, NEW l1 \in 0..H - 1, NEW h2 \in Word16, NEW l2 \in 0..H - 1
  PROVE  LET f1 == (l2 * h1) \div H
             f2 == (l1 * h2) \div H
         IN Mpy_32(h1, l1, h2, l2) = Near32(High(h1, h2) + 2 * f1 + 2 * f2)
<1> DEFINE f1 == (l2 * h1) \div H
           f2 == (l1 * h2) \div H
           r == High(h2, h1) + 2 * f1
<1>1. L_mac(L_mult(h1, h2).v, mult(h1, l2).v, 1).v = r /\ r \in Word32
  BY Mpy_32_16Is
<1>2. mult(l1, h2).v = f2 /\ f2 \in Word16
  BY MultIs
<1> HIDE DEF r
<1>3. L_mac(r, f2, 1).v = Near32(r + 2 * f2)
  <2> HIDE DEF f2
  <2> QED
    BY <1>1, <1>2, MacOne
<1>4. Mpy_32(h1, l1, h2, l2) = L_mac(r, f2, 1).v
  BY <1>1, <1>2 DEF Mpy_32
<1>5. r = High(h1, h2) + 2 * f1
  BY HighIs DEF r
<1> QED
  BY <1>3, <1>4, <1>5

(* The high half has the sign of the number. *)
LEMMA SignOfHigh == \A x \in Word32 : x >= 0 => extract_h(x) >= 0
<1> SUFFICES ASSUME NEW x \in Word32, x >= 0 PROVE extract_h(x) >= 0
  OBVIOUS
<1> DEFINE d == 2 * H
<1>1. x \in Nat /\ d \in Nat /\ d > 0
  BY Limits
<1> HIDE DEF d
<1>2. x \div d \in Nat
  BY <1>1, QuotientBelow
<1> QED
  BY <1>2 DEF d, extract_h

(* What Mpy_32() leaves out of a product is the rest of the two roundings, the
   product of the low halves and that of the last bits.  The product of the two
   least numbers is cut by one. *)
MpyRest(x, y, g) ==
  /\ g \in Int /\ -2 * M <= x * y - M * g /\ x * y - M * g < 8 * M
  /\ extract_h(x) = -H /\ extract_h(y) = -H => x * y - M * g < 6 * M
  /\ x >= 0 /\ y >= 0 => g >= 0
  /\ x >= 0 /\ y >= 0 /\ y % 2 = 0 => 0 <= x * y - M * g /\ x * y - M * g < 7 * M

MpyIs(r, x, y, g) ==
  r = Near32(IF extract_h(x) = -H /\ extract_h(y) = -H THEN g - 1 ELSE g)

LEMMA Mpy_32Exact ==
  ASSUME NEW x \in Word32, NEW y \in Word32
  PROVE  LET a == L_Extract(x)
             b == L_Extract(y)
         IN \E g \in Int : MpyRest(x, y, g) /\ MpyIs(Mpy_32(a.hi, a.lo, b.hi, b.lo), x, y, g)
<1> DEFINE h1 == L_Extract(x).hi
           l1 == L_Extract(x).lo
           h2 == L_Extract(y).hi
           l2 == L_Extract(y).lo
           p1 == x % 2
           p2 == y % 2
           f1 == (l2 * h1) \div H
           f2 == (l1 * h2) \div H
           a == l2 * h1
           b == l1 * h2
           k == h1 * h2
           c == l1 * l2
           e == k + f1 + f2
           G == 2 * e
           X == h1 * H + l1
           Y == h2 * H + l2
           N == H * H
           t == (a - H * f1) + (b - H * f2)
           u == 2 * (X * p2) + 2 * (Y * p1) + p1 * p2
           z == x * y
           R == 4 * (H * t) + 4 * c + u
           r == Mpy_32(h1, l1, h2, l2)
<1>1. /\ h1 \in Word16 /\ l1 \in 0..H - 1 /\ p1 \in 0..1 /\ x = 2 * X + p1
      /\ h2 \in Word16 /\ l2 \in 0..H - 1 /\ p2 \in 0..1 /\ y = 2 * Y + p2
  BY ExtractIs
<1>2. /\ H \in Nat /\ H >= 4 /\ N \in Nat /\ M = 2 * N /\ M \in Nat /\ M > 0 /\ x \in Int /\ y \in Int
      /\ h1 \in Int /\ -H <= h1 /\ h1 <= H - 1 /\ h2 \in Int /\ -H <= h2 /\ h2 <= H - 1
      /\ l1 \in Int /\ 0 <= l1 /\ l1 <= H - 1 /\ l2 \in Int /\ 0 <= l2 /\ l2 <= H - 1
      /\ p1 \in Int /\ p2 \in Int /\ -M <= x /\ x <= M - 1 /\ -M <= y /\ y <= M - 1
  <2> HIDE DEF h1, l1, h2, l2, p1, p2, X, Y
  <2> QED
    BY <1>1, Limits, MIsPositive
<1>3. r = Near32(High(h1, h2) + 2 * f1 + 2 * f2)
  BY <1>1, Mpy_32Is
<1>4. f1 \in Int /\ H * f1 <= a /\ a < H * f1 + H /\ f2 \in Int /\ H * f2 <= b /\ b < H * f2 + H
  BY <1>1, MultIs
<1> HIDE DEF h1, l1, h2, l2, p1, p2, f1, f2, r
<1>5. /\ a \in Int /\ b \in Int /\ k \in Int /\ c \in Int /\ X \in Int /\ Y \in Int /\ z \in Int
      /\ H * f1 \in Int /\ H * f2 \in Int
  BY <1>2, <1>4
<1>6. t \in Int /\ 0 <= t /\ t <= 2 * H - 2
  <2> HIDE DEF a, b
  <2> QED
    BY <1>2, <1>4, <1>5
<1>7. 0 <= H * t /\ H * t <= 2 * N - 2 * H /\ H * t \in Int
  <2> HIDE DEF t
  <2>1. H * t >= 0 /\ (2 * H - 2 - t) * H >= 0 /\ (2 * H - 2 - t) * H = 2 * (H * H) - 2 * H - H * t
    BY <1>2, <1>6
  <2>2. H * t \in Int /\ H * H \in Int
    BY <1>2, <1>6
  <2> QED
    BY <2>1, <2>2, <1>2
<1>8. 0 <= c /\ c <= N - 2 * H + 1
  <2>1. /\ c >= 0 /\ (H - 1 - l1) * l2 >= 0 /\ (H - 1 - l1) * l2 = H * l2 - l2 - c /\ H * l2 \in Int
        /\ (H - 1 - l2) * (H - 1) >= 0 /\ (H - 1 - l2) * (H - 1) = N - 2 * H + 1 - H * l2 + l2
    BY <1>2
  <2> HIDE DEF c, N
  <2> QED
    BY <2>1, <1>2, <1>5
<1>9. /\ -N <= X /\ X <= N - 1 /\ -N <= Y /\ Y <= N - 1
      /\ h1 = -H => X < 0
      /\ h2 = -H => Y < 0
      /\ x >= 0 => X >= 0
      /\ y >= 0 => Y >= 0
  <2>1. /\ (H + h1) * H >= 0 /\ (H + h1) * H = N + h1 * H
        /\ (H - 1 - h1) * H >= 0 /\ (H - 1 - h1) * H = N - H - h1 * H /\ h1 * H \in Int
        /\ (H + h2) * H >= 0 /\ (H + h2) * H = N + h2 * H
        /\ (H - 1 - h2) * H >= 0 /\ (H - 1 - h2) * H = N - H - h2 * H /\ h2 * H \in Int
    BY <1>2
  <2>2. h1 = -H => h1 * H = -N
    BY <1>2
  <2>3. h2 = -H => h2 * H = -N
    BY <1>2
  <2>4. N >= H
    BY <1>2
  <2> DEFINE i == h1 * H
             j == h2 * H
  <2> HIDE DEF N, i, j
  <2>5. X = i + l1 /\ Y = j + l2
    BY DEF i, j
  <2> HIDE DEF X, Y
  <2>6. (x >= 0 => X >= 0) /\ (y >= 0 => Y >= 0)
    BY <1>1, <1>2, <1>5
  <2> QED
    BY <2>1, <2>2, <2>3, <2>4, <2>5, <2>6, <1>2 DEF i, j
<1> HIDE DEF X, Y
<1>10. /\ u \in Int /\ -4 * N <= u /\ u <= 4 * N - 3
       /\ h1 = -H /\ h2 = -H => u <= 1
       /\ x >= 0 /\ y >= 0 /\ p2 = 0 => 0 <= u /\ u <= 2 * N - 2
  <2> HIDE DEF N
  <2>1. X * p2 \in {0, X} /\ Y * p1 \in {0, Y} /\ p1 * p2 \in {0, 1}
    BY <1>1, <1>2, <1>5
  <2> QED
    BY <2>1, <1>2, <1>5, <1>9
<1>11. z = M * G + R
  <2>1. (2 * X + p1) * (2 * Y + p2) = 4 * (X * Y) + u
    BY <1>2, <1>5
  <2>2. X * Y = N * k + H * a + H * b + c
    <3>1. (h1 * H + l1) * (h2 * H + l2) = (H * H) * (h1 * h2) + H * (l2 * h1) + H * (l1 * h2) + l1 * l2
      BY <1>2
    <3> QED
      BY <3>1 DEF X, Y
  <2>3. H * t = H * a + H * b - N * f1 - N * f2
    <3> HIDE DEF a, b
    <3>1. H * ((a - H * f1) + (b - H * f2)) = H * a + H * b - (H * H) * f1 - (H * H) * f2
      BY <1>2, <1>4, <1>5
    <3> QED
      BY <3>1
  <2>4. M * G = 4 * (N * k) + 4 * (N * f1) + 4 * (N * f2)
    <3> HIDE DEF k, N
    <3>1. (2 * N) * (2 * (k + f1 + f2)) = 4 * (N * k) + 4 * (N * f1) + 4 * (N * f2)
      BY <1>2, <1>4, <1>5
    <3> QED
      BY <3>1, <1>2
  <2>5. z = 4 * (X * Y) + u
    BY <2>1, <1>1
  <2>6. /\ N * k \in Int /\ N * f1 \in Int /\ N * f2 \in Int /\ H * a \in Int /\ H * b \in Int
        /\ X * Y \in Int /\ H * t \in Int /\ M * G \in Int
    <3> HIDE DEF a, b, k, N, t
    <3> QED
      BY <1>2, <1>4, <1>5, <1>6
  <2> DEFINE xy == X * Y
             nk == N * k
             n1 == N * f1
             n2 == N * f2
             ha == H * a
             hb == H * b
             ht == H * t
             mg == M * G
  <2> HIDE DEF xy, nk, n1, n2, ha, hb, ht, mg, c, u, z, t, G, N, a, b, k
  <2>7. /\ xy = nk + ha + hb + c /\ ht = ha + hb - n1 - n2 /\ mg = 4 * nk + 4 * n1 + 4 * n2
        /\ z = 4 * xy + u /\ R = 4 * ht + 4 * c + u
    BY <2>2, <2>3, <2>4, <2>5 DEF xy, nk, n1, n2, ha, hb, ht, mg
  <2>8. /\ xy \in Int /\ nk \in Int /\ n1 \in Int /\ n2 \in Int /\ ha \in Int /\ hb \in Int
        /\ ht \in Int /\ mg \in Int /\ c \in Int /\ u \in Int
    BY <2>6, <1>5, <1>10 DEF xy, nk, n1, n2, ha, hb, ht, mg
  <2> HIDE DEF R
  <2>9. z = mg + R
    BY <2>7, <2>8
  <2> QED
    BY <2>9 DEF mg
<1>12. /\ R \in Int /\ -2 * M <= R /\ R < 8 * M
       /\ h1 = -H /\ h2 = -H => R < 6 * M
       /\ x >= 0 /\ y >= 0 /\ p2 = 0 => 0 <= R /\ R < 7 * M
  <2> DEFINE ht == H * t
  <2> HIDE DEF ht, c, u, N
  <2>1. /\ 0 <= ht /\ ht <= 2 * N - 2 * H /\ ht \in Int /\ R = 4 * ht + 4 * c + u
    BY <1>7 DEF ht
  <2> HIDE DEF R
  <2> QED
    BY <2>1, <1>2, <1>5, <1>8, <1>10
<1> HIDE DEF R
<1>13. extract_h(x) = h1 /\ extract_h(y) = h2
  BY ExtractIs DEF h1, h2
<1>14. ASSUME x >= 0, y >= 0 PROVE G >= 0
  <2>1. h1 >= 0 /\ h2 >= 0
    BY <1>13, <1>14, SignOfHigh
  <2>2. k >= 0 /\ a >= 0 /\ b >= 0
    BY <1>2, <2>1
  <2>3. f1 >= 0 /\ f2 >= 0
    <3> HIDE DEF a, b
    <3>1. f1 < 0 => (-1 - f1) * H >= 0 /\ (-1 - f1) * H = -H - H * f1
      BY <1>2, <1>4
    <3>2. f2 < 0 => (-1 - f2) * H >= 0 /\ (-1 - f2) * H = -H - H * f2
      BY <1>2, <1>4
    <3> QED
      BY <3>1, <3>2, <2>2, <1>2, <1>4, <1>5
  <2> HIDE DEF k
  <2> QED
    BY <2>2, <2>3, <1>4, <1>5
<1> HIDE DEF k
<1>15. /\ G \in Int /\ z - M * G = R
  <2> HIDE DEF e, z
  <2>1. e \in Int
    BY <1>4, <1>5 DEF e
  <2>2. G \in Int
    BY <2>1
  <2> HIDE DEF G
  <2>3. M * G \in Int
    BY <2>2, <1>2
  <2> QED
    BY <2>2, <2>3, <1>11, <1>12, <1>5
<1>16. MpyRest(x, y, G)
  <2> HIDE DEF G
  <2>1. z = x * y
    OBVIOUS
  <2>2. p2 = y % 2
    BY DEF p2
  <2> HIDE DEF z
  <2> QED
    BY <1>12, <1>15, <1>13, <1>14, <2>1, <2>2 DEF MpyRest
<1>17. MpyIs(r, x, y, G)
  <2> DEFINE g == High(h1, h2) + 2 * f1 + 2 * f2
  <2>1. G = 2 * k + 2 * f1 + 2 * f2
    BY <1>4, <1>5
  <2> HIDE DEF G
  <2>2. CASE h1 = -H /\ h2 = -H
    <3>1. k = N
      BY <1>2, <2>2 DEF k
    <3>2. g = G - 1
      BY <3>1, <2>1, <2>2, <1>2, <1>4, <1>15 DEF High
    <3> HIDE DEF g
    <3> QED
      BY <1>3, <1>13, <2>2, <3>2 DEF g, MpyIs
  <2>3. CASE ~(h1 = -H /\ h2 = -H)
    <3>1. g = G
      BY <2>1, <2>3 DEF High, k
    <3> HIDE DEF g
    <3> QED
      BY <1>3, <1>13, <2>3, <3>1 DEF g, MpyIs
  <2> QED
    BY <2>2, <2>3
<1> HIDE DEF G
<1> QED
  BY <1>15, <1>16, <1>17 DEF r, h1, l1, h2, l2

(* Mpy_32(): within a few units of the exact product, also when it saturates. *)
LEMMA Mpy_32Near ==
  ASSUME NEW x \in Word32, NEW y \in Word32
  PROVE  LET a == L_Extract(x)
             b == L_Extract(y)
         IN Near(Mpy_32(a.hi, a.lo, b.hi, b.lo), (x * y) \div M, 7, 2)
<1> DEFINE h1 == extract_h(x)
           h2 == extract_h(y)
           z == x * y
           Q == z \div M
           r == Mpy_32(L_Extract(x).hi, L_Extract(x).lo, L_Extract(y).hi, L_Extract(y).lo)
<1>1. PICK G \in Int : MpyRest(x, y, G) /\ MpyIs(r, x, y, G)
  BY Mpy_32Exact
<1>2. /\ M \in Nat /\ M > 0 /\ x \in Int /\ y \in Int /\ z \in Int
      /\ -M <= x /\ x <= M - 1 /\ -M <= y /\ y <= M - 1
  BY Limits, MIsPositive
<1> HIDE DEF r
<1> DEFINE R == z - M * G
<1>3. /\ -2 * M <= R /\ R < 8 * M
      /\ h1 = -H /\ h2 = -H => R < 6 * M
  BY <1>1 DEF MpyRest
<1>4. r = Near32(IF h1 = -H /\ h2 = -H THEN G - 1 ELSE G)
  BY <1>1 DEF MpyIs
<1> HIDE DEF h1, h2, z, Q
<1>5. M * G \in Int /\ (G - 2) * M = M * G - 2 * M /\ (G + 7) * M = M * G + 7 * M
      /\ (G + 5) * M = M * G + 5 * M
  BY <1>2
<1> DEFINE mg == M * G
<1>6. z = mg + R /\ R \in Int
  BY <1>2, <1>5
<1> HIDE DEF mg, R
<1>7. /\ (G - 2) * M <= z /\ z < (G + 7) * M + M
      /\ h1 = -H /\ h2 = -H => z < (G + 5) * M + M
  <2>1. /\ mg \in Int /\ (G - 2) * M = mg - 2 * M /\ (G + 7) * M = mg + 7 * M /\ (G + 5) * M = mg + 5 * M
        /\ z = mg + R
    BY <1>5, <1>6 DEF mg
  <2> QED
    BY <2>1, <1>2, <1>3, <1>6
<1>8. Q \in G - 2..G + 7 /\ (h1 = -H /\ h2 = -H => Q \in G - 2..G + 5)
  <2> DEFINE low == G - 2
             high == G + 7
             less == G + 5
  <2>1. M \in Nat /\ M > 0 /\ z \in Int /\ low \in Int /\ high \in Int /\ less \in Int
    BY <1>2
  <2>2. /\ low * M <= z /\ z < high * M + M
        /\ h1 = -H /\ h2 = -H => z < less * M + M
    BY <1>7
  <2> HIDE DEF low, high, less
  <2>3. z \div M \in low..high
    <3>1. low * M <= z /\ z < high * M + M
      BY <2>2
    <3> QED
      BY <2>1, <3>1, QuotientBetween
  <2>4. ASSUME h1 = -H, h2 = -H PROVE z \div M \in low..less
    BY <2>1, <2>2, <2>4, QuotientBetween
  <2> QED
    BY <2>3, <2>4 DEF Q, low, high, less
<1>9. Q \in -M..M
  <2>1. (-M) * M <= z /\ z < M * M + M
    <3>1. CASE y >= 0
      <4>1. /\ (M + x) * y >= 0 /\ (M + x) * y = M * y + z /\ (M - 1 - x) * y >= 0
            /\ (M - 1 - x) * y = M * y - y - z /\ M * y \in Int
        BY <1>2, <3>1 DEF z
      <4>2. (M - 1 - y) * M >= 0 /\ (M - 1 - y) * M = M * M - M - M * y /\ M * M \in Int
        BY <1>2
      <4>3. (-M) * M = -(M * M)
        BY <1>2
      <4> DEFINE my == M * y
                 mm == M * M
      <4> HIDE DEF my, mm
      <4>4. /\ my + z >= 0 /\ my - y - z >= 0 /\ my \in Int /\ mm - M - my >= 0 /\ mm \in Int
        BY <4>1, <4>2 DEF my, mm
      <4>5. -mm <= z /\ z < mm + M
        BY <4>4, <3>1, <1>2
      <4> QED
        BY <4>5, <4>3 DEF mm
    <3>2. CASE y < 0
      <4>1. /\ (M + x) * (-y) >= 0 /\ (M + x) * (-y) = -(M * y) - z /\ (M - 1 - x) * (-y) >= 0
            /\ (M - 1 - x) * (-y) = -(M * y) + y + z /\ M * y \in Int
        BY <1>2, <3>2 DEF z
      <4>2. (M + y) * M >= 0 /\ (M + y) * M = M * M + M * y /\ M * M \in Int
        BY <1>2
      <4>3. (-M) * M = -(M * M)
        BY <1>2
      <4> DEFINE my == M * y
                 mm == M * M
      <4> HIDE DEF my, mm
      <4>4. /\ -my - z >= 0 /\ -my + y + z >= 0 /\ my \in Int /\ mm + my >= 0 /\ mm \in Int
        BY <4>1, <4>2 DEF my, mm
      <4>5. -mm <= z /\ z < mm + M
        BY <4>4, <3>2, <1>2
      <4> QED
        BY <4>5, <4>3 DEF mm
    <3> QED
      BY <3>1, <3>2, <1>2
  <2> QED
    BY <2>1, <1>2, QuotientBetween DEF Q
<1>10. r \in Q - 7..Q + 2
  <2>1. CASE h1 = -H /\ h2 = -H
    <3>1. r = Near32(G - 1) /\ Q \in G - 2..G + 5
      BY <1>4, <1>8, <2>1
    <3> QED
      BY <3>1, <1>2, <1>9 DEF Near32
  <2>2. CASE ~(h1 = -H /\ h2 = -H)
    <3>1. r = Near32(G)
      BY <1>4, <2>2
    <3> QED
      BY <3>1, <1>2, <1>8, <1>9 DEF Near32
  <2> QED
    BY <2>1, <2>2
<1> QED
  BY <1>10 DEF Near, r, Q, z

-----------------------------------------------------------------------------
(* A factor that is not negative keeps an order, and a positive one is left
   out of it again. *)
LEMMA Factor ==
  ASSUME NEW k \in Nat, NEW a \in Int, NEW b \in Int
  PROVE  /\ k * a \in Int /\ k * b \in Int
         /\ a <= b => k * a <= k * b
         /\ k > 0 /\ k * a <= k * b => a <= b
         /\ k > 0 /\ a < b => k * a < k * b
<1> DEFINE i == k * a
           j == k * b
<1>1. i \in Int /\ j \in Int /\ k * (b - a) = j - i /\ k * (b - a) \in Int
  BY SMT
<1>2. a <= b => k * (b - a) >= 0
  BY SMT
<1>3. k > 0 /\ a < b => k * (b - a) > 0
  BY SMT
<1>4. k > 0 /\ a > b => k * (b - a) < 0
  BY SMT
<1> DEFINE e == k * (b - a)
<1> HIDE DEF e, i, j
<1>5. i \in Int /\ j \in Int /\ e = j - i /\ (a <= b => e >= 0) /\ (k > 0 /\ a < b => e > 0)
      /\ (k > 0 /\ a > b => e < 0)
  BY <1>1, <1>2, <1>3, <1>4 DEF e, i, j
<1>6. (a <= b => i <= j) /\ (k > 0 /\ i <= j => a <= b) /\ (k > 0 /\ a < b => i < j)
  BY <1>5
<1> QED
  BY <1>5, <1>6 DEF i, j

(* Twice the product of two parts of a number is at most half its square. *)
LEMMA PartsOfSquare ==
  ASSUME NEW k \in Int, NEW s \in Int
  PROVE  4 * ((k - s) * s) = k * k - (k - 2 * s) * (k - 2 * s) /\ (k - 2 * s) * (k - 2 * s) >= 0
<1>1. 4 * ((k - s) * s) = k * k - (k - 2 * s) * (k - 2 * s)
  BY SMT
<1>2. (k - 2 * s) * (k - 2 * s) >= 0
  BY SMT
<1> QED
  BY <1>1, <1>2

(* The quantities of Div_32(): X is the denominator without its last bit, A the
   first approximation of its inverse, P its error, r the correction, I the
   inverse, E the product with the numerator y, and q the exact quotient. *)
Newton(X, A, P, r, I, y, E, q, d) ==
  /\ X \in Nat /\ A \in Nat /\ P \in Int /\ r \in Int /\ I \in Nat /\ y \in Nat /\ E \in Int
  /\ q \in Nat /\ d \in Nat /\ H \in Nat /\ H >= 4 /\ M \in Nat /\ M = 2 * (H * H)
  /\ H * P <= X * A /\ X * A < H * P + 2 * H
  /\ r <= M - 1 - P /\ M - 2 - P <= r
  /\ H * I <= r * A /\ r * A < H * I + 2 * H
  /\ M * E <= y * I /\ y * I < M * E + 7 * M
  /\ d \in {X, X + 1} /\ 1 <= y /\ y <= X /\ X < M /\ M <= 2 * X
  /\ q * d <= y * M /\ y * M < q * d + d /\ q <= M - 1
  /\ 0 <= H * M - 2 * (X * A) /\ H * M - 2 * (X * A) <= 8 * (H * H)

(* The inverse is hardly too large: half the square of one and a unit. *)
LEMMA InverseAbove ==
  ASSUME NEW X, NEW A, NEW P, NEW r, NEW I, NEW y, NEW E, NEW q, NEW d,
         Newton(X, A, P, r, I, y, E, q, d)
  PROVE  4 * (X * I) <= (M + 1) * (M + 1) /\ X * I \in Nat
<1> DEFINE S == X * A
           K == H * (M + 1)
           T == (M + 1) * (M + 1)
           J == X * I
<1>1. /\ X \in Nat /\ A \in Nat /\ P \in Int /\ r \in Int /\ I \in Nat
      /\ H \in Nat /\ H >= 4 /\ M \in Nat
      /\ H * P <= X * A /\ X * A < H * P + 2 * H
      /\ r <= M - 1 - P
      /\ H * I <= r * A
  BY DEF Newton
<1>2. S \in Nat /\ K \in Int /\ T \in Nat /\ J \in Nat /\ H * H \in Nat /\ H * H > 0
  BY <1>1
<1>3. H * r <= K - S
  <2>1. H * r <= H * (M - 1 - P) /\ H * r \in Int
    BY <1>1, Factor
  <2>2. H * (M - 1 - P) = K - 2 * H - H * P /\ H * P \in Int
    BY <1>1
  <2> HIDE DEF S, K
  <2> QED
    BY <2>1, <2>2, <1>1, <1>2 DEF S
<1>4. (H * H) * J <= (K - S) * S
  <2>1. X * (H * I) <= X * (r * A)
    <3>1. H * I \in Int /\ r * A \in Int
      BY <1>1
    <3> QED
      BY <3>1, <1>1, Factor
  <2>2. H * (X * (H * I)) <= H * (X * (r * A))
    <3>1. X * (H * I) \in Int /\ X * (r * A) \in Int
      BY <1>1
    <3> QED
      BY <3>1, <2>1, <1>1, Factor
  <2>3. H * (X * (H * I)) = (H * H) * J
    BY <1>1
  <2>4. H * (X * (r * A)) = S * (H * r)
    BY <1>1
  <2>5. S * (H * r) <= S * (K - S)
    <3>1. H * r \in Int /\ K - S \in Int
      BY <1>1, <1>2
    <3> HIDE DEF S, K
    <3> QED
      BY <3>1, <1>2, <1>3, Factor
  <2>6. S * (K - S) = (K - S) * S /\ (K - S) * S \in Int
    <3> HIDE DEF S, K
    <3> QED
      BY <1>2
  <2>7. (H * H) * J \in Int /\ S * (H * r) \in Int
    BY <1>1, <1>2
  <2> HIDE DEF J, S, K
  <2> QED
    BY <2>2, <2>3, <2>4, <2>5, <2>6, <2>7
<1>5. 4 * ((K - S) * S) <= K * K
  <2> HIDE DEF S, K
  <2>1. 4 * ((K - S) * S) = K * K - (K - 2 * S) * (K - 2 * S) /\ (K - 2 * S) * (K - 2 * S) >= 0
    BY <1>2, PartsOfSquare
  <2>2. K * K \in Int /\ (K - 2 * S) * (K - 2 * S) \in Int
    BY <1>2
  <2> QED
    BY <2>1, <2>2
<1>6. K * K = (H * H) * T
  BY <1>1
<1>7. (H * H) * (4 * J) <= (H * H) * T
  <2> DEFINE N == H * H
  <2>1. N * (4 * J) = 4 * (N * J) /\ N * J \in Int /\ (K - S) * S \in Int /\ N * T \in Int
    <3> HIDE DEF N, J, T, K, S
    <3>1. N \in Int
      BY <1>2 DEF N
    <3> QED
      BY <3>1, <1>2
  <2> HIDE DEF N, J, T, K, S
  <2> QED
    BY <2>1, <1>4, <1>5, <1>6 DEF N
<1>8. 4 * J <= T
  <2> DEFINE N == H * H
  <2>1. N \in Nat /\ N > 0 /\ 4 * J \in Int /\ T \in Int
    BY <1>2
  <2> HIDE DEF N, J, T
  <2> QED
    BY <2>1, <1>7, Factor DEF N
<1> QED
  BY <1>2, <1>8

(* Nor is it too small. *)
LEMMA InverseBelow ==
  ASSUME NEW X, NEW A, NEW P, NEW r, NEW I, NEW y, NEW E, NEW q, NEW d,
         Newton(X, A, P, r, I, y, E, q, d)
  PROVE  M * M - 44 * M <= 4 * (X * I) /\ X * I \in Nat
<1> DEFINE S == X * A
           N == H * H
           K == H * M
           J == X * I
<1>1. /\ X \in Nat /\ A \in Nat /\ P \in Int /\ r \in Int /\ I \in Nat
      /\ H \in Nat /\ H >= 4 /\ M \in Nat /\ M = 2 * N /\ X < M
      /\ H * P <= X * A
      /\ M - 2 - P <= r
      /\ r * A < H * I + 2 * H
      /\ 0 <= K - 2 * S /\ K - 2 * S <= 8 * N
  BY DEF Newton
<1>2. S \in Nat /\ K \in Int /\ N \in Nat /\ J \in Nat /\ N > 0
  BY <1>1
<1>3. K - S - 2 * H <= H * r
  <2>1. H * (M - 2 - P) <= H * r /\ H * r \in Int
    BY <1>1, Factor
  <2>2. H * (M - 2 - P) = K - 2 * H - H * P /\ H * P \in Int
    BY <1>1
  <2> HIDE DEF S, K
  <2> QED
    BY <2>1, <2>2, <1>1, <1>2 DEF S
<1>4. (K - S) * S - 2 * (H * S) <= N * J + 2 * (N * X)
  <2>1. X * (r * A) <= X * (H * I + 2 * H)
    <3>1. H * I + 2 * H \in Int /\ r * A \in Int
      BY <1>1
    <3> QED
      BY <3>1, <1>1, Factor
  <2>2. H * (X * (r * A)) <= H * (X * (H * I + 2 * H))
    <3>1. X * (H * I + 2 * H) \in Int /\ X * (r * A) \in Int
      BY <1>1
    <3> QED
      BY <3>1, <2>1, <1>1, Factor
  <2>3. H * (X * (H * I + 2 * H)) = N * J + 2 * (N * X)
    BY <1>1
  <2>4. H * (X * (r * A)) = S * (H * r)
    BY <1>1
  <2>5. S * (K - S - 2 * H) <= S * (H * r)
    <3>1. H * r \in Int /\ K - S - 2 * H \in Int
      BY <1>1, <1>2
    <3> HIDE DEF S, K
    <3> QED
      BY <3>1, <1>2, <1>3, Factor
  <2>6. S * (K - S - 2 * H) = (K - S) * S - 2 * (H * S) /\ (K - S) * S \in Int /\ H * S \in Int
    <3> HIDE DEF S, K
    <3> QED
      BY <1>1, <1>2
  <2>7. N * J \in Int /\ N * X \in Int /\ S * (H * r) \in Int
    BY <1>1, <1>2
  <2> HIDE DEF J, S, K, N
  <2> QED
    BY <2>2, <2>3, <2>4, <2>5, <2>6, <2>7
<1>5. K * K - 32 * (N * M) <= 4 * ((K - S) * S)
  <2> DEFINE t == K - 2 * S
  <2>1. 4 * ((K - S) * S) = K * K - t * t
    <3> HIDE DEF S, K
    <3> QED
      BY <1>2, PartsOfSquare
  <2>2. t * t <= 32 * (N * M)
    <3>1. t \in Nat /\ t <= 8 * N
      <4> HIDE DEF S, K, N
      <4> QED
        BY <1>1, <1>2
    <3> HIDE DEF t, N
    <3>2. t * t <= t * (8 * N) /\ (8 * N) * t <= (8 * N) * (8 * N)
      <4>1. 8 * N \in Nat
        BY <1>2
      <4> QED
        BY <4>1, <3>1, Factor
    <3>3. t * (8 * N) = (8 * N) * t /\ (8 * N) * (8 * N) = 64 * (N * N) /\ t * t \in Int
          /\ (8 * N) * t \in Int /\ N * N \in Int
      BY <3>1, <1>2
    <3>4. N * M = 2 * (N * N)
      <4>1. N * (2 * N) = 2 * (N * N)
        BY <1>2
      <4> QED
        BY <4>1, <1>1
    <3> QED
      BY <3>2, <3>3, <3>4
  <2>3. K * K \in Int /\ t * t \in Int /\ N * M \in Int
    BY <1>1, <1>2
  <2> HIDE DEF t, K, N, S
  <2> QED
    BY <2>1, <2>2, <2>3
<1>6. K * K = N * (M * M)
  BY <1>1
<1>7. 8 * (H * S) <= 4 * (N * M)
  <2>1. H * (2 * S) <= H * K
    <3> HIDE DEF S, K
    <3> QED
      BY <1>1, <1>2, Factor
  <2>2. H * K = N * M /\ H * (2 * S) = 2 * (H * S) /\ H * S \in Int /\ N * M \in Int
    BY <1>1
  <2> HIDE DEF S, K, N
  <2> QED
    BY <2>1, <2>2
<1>8. N * X <= N * M
  <2> HIDE DEF N
  <2> QED
    BY <1>1, <1>2, Factor
<1>9. N * (M * M - 44 * M) <= N * (4 * J)
  <2> HIDE DEF N, S, K, J
  <2>1. /\ N * (M * M - 44 * M) = N * (M * M) - 44 * (N * M) /\ N * (4 * J) = 4 * (N * J)
        /\ N * (M * M) \in Int /\ N * M \in Int /\ N * J \in Int /\ N * X \in Int /\ H * S \in Int
        /\ (K - S) * S \in Int
    BY <1>1, <1>2
  <2> QED
    BY <2>1, <1>4, <1>5, <1>6, <1>7, <1>8
<1>10. M * M - 44 * M <= 4 * J
  <2>1. M * M - 44 * M \in Int /\ 4 * J \in Int
    BY <1>1, <1>2
  <2> HIDE DEF N, J
  <2> QED
    BY <2>1, <1>2, <1>9, Factor
<1> QED
  BY <1>2, <1>10

(* The quotient is exceeded by a few units at most. *)
LEMMA QuotientAbove ==
  ASSUME NEW X, NEW A, NEW P, NEW r, NEW I, NEW y, NEW E, NEW q, NEW d,
         Newton(X, A, P, r, I, y, E, q, d)
  PROVE  4 * E <= q + 4
<1> DEFINE J == X * I
           T == (M + 1) * (M + 1)
           Z == M * X
<1>1. /\ X \in Nat /\ I \in Nat /\ y \in Nat /\ E \in Int /\ q \in Nat /\ d \in Nat /\ M \in Nat /\ M > 0
      /\ M * E <= y * I /\ d \in {X, X + 1} /\ 1 <= y /\ y <= X /\ X < M /\ M <= 2 * X
      /\ y * M < q * d + d /\ q <= M - 1
  BY MIsPositive DEF Newton
<1>2. 4 * J <= T /\ J \in Nat
  BY InverseAbove
<1>3. T \in Int /\ Z \in Nat
  BY <1>1
<1> SUFFICES ASSUME q + 5 <= 4 * E PROVE FALSE
  BY <1>1
<1>4. Z * (q + 5) <= y * T
  <2>1. Z * (q + 5) <= Z * (4 * E)
    <3> HIDE DEF Z
    <3> QED
      BY <1>1, <1>3, Factor
  <2>2. X * (M * E) <= X * (y * I)
    <3>1. M * E \in Int /\ y * I \in Int
      BY <1>1
    <3> QED
      BY <3>1, <1>1, Factor
  <2>3. Z * (4 * E) = 4 * (X * (M * E)) /\ X * (M * E) \in Int
    BY <1>1
  <2>4. X * (y * I) = y * J /\ y * J \in Int
    BY <1>1
  <2>5. y * (4 * J) <= y * T
    <3> HIDE DEF J, T
    <3> QED
      BY <1>1, <1>2, <1>3, Factor
  <2>6. y * (4 * J) = 4 * (y * J) /\ y * T \in Int /\ Z * (q + 5) \in Int
    BY <1>1, <1>2, <1>3
  <2> HIDE DEF J, T, Z
  <2> QED
    BY <2>1, <2>2, <2>3, <2>4, <2>5, <2>6
<1>5. y * M <= q * X + X + q
  <2>1. q * d + d <= q * X + X + q + 1
    <3>1. q * (X + 1) = q * X + q /\ q * X \in Int
      BY <1>1
    <3> QED
      BY <3>1, <1>1
  <2>2. y * M \in Int /\ q * d \in Int /\ q * X \in Int
    BY <1>1
  <2> QED
    BY <2>1, <2>2, <1>1
<1>6. M * (y * M) <= q * Z + Z + q * M
  <2>1. M * (y * M) <= M * (q * X + X + q)
    <3>1. y * M \in Int /\ q * X + X + q \in Int
      BY <1>1
    <3> QED
      BY <3>1, <1>1, <1>5, Factor
  <2>2. M * (q * X + X + q) = q * Z + Z + q * M
    BY <1>1
  <2> QED
    BY <2>1, <2>2
<1>7. Z * (q + 5) = q * Z + 5 * Z /\ q * Z \in Int
  <2> HIDE DEF Z
  <2> QED
    BY <1>1, <1>3
<1>8. y * T = M * (y * M) + 2 * (y * M) + y /\ M * (y * M) \in Int /\ y * M \in Int
  BY <1>1
<1>9. 4 * Z <= 2 * (y * M) + y + q * M
  <2>1. q * M \in Int
    BY <1>1
  <2> HIDE DEF Z, T
  <2> QED
    BY <2>1, <1>1, <1>3, <1>4, <1>6, <1>7, <1>8
<1>10. y * M <= Z
  <2>1. M * y <= M * X
    BY <1>1, Factor
  <2>2. M * y = y * M
    BY <1>1
  <2> QED
    BY <2>1, <2>2
<1>11. q * M <= 2 * Z - M
  <2>1. M * q <= M * (M - 1) /\ M * M <= M * (2 * X)
    BY <1>1, Factor
  <2>2. M * (M - 1) = M * M - M /\ M * (2 * X) = 2 * Z /\ M * q = q * M /\ M * M \in Int
    BY <1>1
  <2>3. M * q \in Int
    BY <1>1
  <2> HIDE DEF Z
  <2> QED
    BY <2>1, <2>2, <2>3, <1>1, <1>3
<1> HIDE DEF Z
<1>12. q * M \in Int
  BY <1>1
<1> QED
  BY <1>1, <1>3, <1>8, <1>9, <1>10, <1>11, <1>12

(* And what is missing of the quotient is a few units more. *)
LEMMA QuotientMissing ==
  ASSUME NEW X, NEW A, NEW P, NEW r, NEW I, NEW y, NEW E, NEW q, NEW d,
         Newton(X, A, P, r, I, y, E, q, d)
  PROVE  q - 72 <= 4 * E
<1> DEFINE J == X * I
           L == M * M - 44 * M
<1>1. /\ X \in Nat /\ I \in Nat /\ y \in Nat /\ E \in Int /\ q \in Nat /\ d \in Nat /\ M \in Nat /\ M > 0
      /\ y * I < M * E + 7 * M /\ d \in {X, X + 1} /\ 1 <= y /\ y <= X /\ X < M
      /\ q * d <= y * M
  BY MIsPositive DEF Newton
<1>2. L <= 4 * J /\ J \in Nat
  BY InverseBelow
<1>3. L \in Int
  BY <1>1
<1> SUFFICES ASSUME 4 * E <= q - 73 PROVE FALSE
  BY <1>1
<1>4. 4 * (y * I) < M * (q - 45)
  <2>1. M * (4 * E) <= M * (q - 73)
    BY <1>1, Factor
  <2>2. M * (4 * E) = 4 * (M * E) /\ M * (q - 73) = M * q - 73 * M /\ M * (q - 45) = M * q - 45 * M
        /\ M * E \in Int /\ M * q \in Int /\ y * I \in Int
    BY <1>1
  <2> QED
    BY <2>1, <2>2, <1>1
<1>5. X * (4 * (y * I)) < X * (M * (q - 45))
  <2>1. 4 * (y * I) \in Int /\ M * (q - 45) \in Int /\ X > 0
    BY <1>1
  <2> QED
    BY <2>1, <1>1, <1>4, Factor
<1>6. y * L <= y * (4 * J)
  <2> HIDE DEF L, J
  <2> QED
    BY <1>1, <1>2, <1>3, Factor
<1>7. y * (4 * J) = X * (4 * (y * I)) /\ y * (4 * J) \in Int
  BY <1>1
<1>8. y * L = M * (y * M - 44 * y) /\ X * (M * (q - 45)) = M * (X * q - 45 * X)
  BY <1>1
<1>9. M * (y * M - 44 * y) < M * (X * q - 45 * X)
  <2>1. M * (y * M - 44 * y) \in Int /\ M * (X * q - 45 * X) \in Int
    BY <1>1
  <2> HIDE DEF J, L
  <2> QED
    BY <2>1, <1>5, <1>6, <1>7, <1>8
<1>10. y * M - 44 * y < X * q - 45 * X
  <2>1. y * M - 44 * y \in Int /\ X * q - 45 * X \in Int
    BY <1>1
  <2>2. SUFFICES ASSUME X * q - 45 * X <= y * M - 44 * y PROVE FALSE
    BY <2>1
  <2>3. M * (X * q - 45 * X) <= M * (y * M - 44 * y)
    BY <2>1, <2>2, <1>1, Factor
  <2>4. M * (y * M - 44 * y) \in Int /\ M * (X * q - 45 * X) \in Int
    BY <1>1
  <2> QED
    BY <2>3, <2>4, <1>9
<1>11. X * q <= y * M
  <2>1. q * X <= q * d
    BY <1>1, Factor
  <2>2. X * q = q * X /\ q * X \in Int /\ q * d \in Int /\ y * M \in Int
    BY <1>1
  <2> QED
    BY <2>1, <2>2, <1>1
<1>12. X * q \in Int /\ y * M \in Int
  BY <1>1
<1> QED
  BY <1>1, <1>10, <1>11, <1>12

(* The first approximation of the inverse of a normalised denominator is a
   little too small. *)
LEMMA ApproximationIs ==
  ASSUME NEW h \in Word16, h >= H \div 2
  PROVE  LET A == div_s(H \div 2 - 1, h)
         IN /\ A \in Word16 /\ A \in Nat /\ A <= H - 2
            /\ 2 * (h * A) <= H * H - 2 * H /\ H * H - 2 * H - 2 * h < 2 * (h * A)
<1> DEFINE b == H \div 2
           a == b - 1
           z == a * H
           q == z \div h
           t == z % h
<1>1. H \in Nat /\ H >= 4 /\ h \in Int /\ h <= H - 1 /\ MAX_16 = H - 1 /\ MIN_16 = -H
  BY Limits
<1>2. b \in Nat /\ H = 2 * b
  BY WordSizes
<1> HIDE DEF b
<1>3. a \in Word16 /\ Divisible(a, h) /\ a \in Nat /\ a < h /\ h \in Nat /\ h > 0 /\ b <= h
  <2>1. a \in Nat /\ a < h /\ h \in Nat /\ h > 0 /\ b <= h /\ -H <= a /\ a <= H - 1
    BY <1>1, <1>2 DEF b
  <2> HIDE DEF a
  <2> QED
    BY <2>1, <1>1, Limits DEF Divisible
<1>4. div_s(a, h) = Nearest(q, 0, MAX_16)
  <2> HIDE DEF a
  <2> QED
    BY <1>3, DivsIs
<1>5. z \in Nat /\ 2 * z = H * H - 2 * H /\ H * H \in Int
  <2>1. 2 * ((b - 1) * H) = (2 * b) * H - 2 * H /\ (b - 1) * H \in Int
    BY <1>1, <1>2
  <2>2. z >= 0
    <3> HIDE DEF a
    <3> QED
      BY <1>1, <1>3
  <2> QED
    BY <2>1, <2>2, <1>1, <1>2
<1> HIDE DEF z
<1>6. q \in Int /\ t \in Nat /\ t < h /\ z = q * h + t
  BY <1>3, <1>5, IntDivision
<1>7. q \in Nat /\ q < H - 1
  <2>1. z < (H - 1) * h
    <3>1. (H - 1) * (h - b) >= 0 /\ (H - 1) * (h - b) = (H - 1) * h - (H - 1) * b
          /\ (H - 1) * h \in Int /\ (H - 1) * b \in Int
      BY <1>1, <1>2, <1>3
    <3>2. (H - 1) * b = H * b - b /\ H * b \in Int /\ H * H = 2 * (H * b)
      <4>1. (H - 1) * b = H * b - b /\ H * b \in Int
        BY <1>1, <1>2
      <4>2. H * (2 * b) = 2 * (H * b)
        BY <1>1, <1>2
      <4> QED
        BY <4>1, <4>2, <1>2
    <3>3. b < H
      BY <1>1, <1>2
    <3> DEFINE i == (H - 1) * h
               j == (H - 1) * b
    <3> HIDE DEF i, j
    <3>4. i - j >= 0 /\ i \in Int /\ j \in Int /\ j = H * b - b
      BY <3>1, <3>2 DEF i, j
    <3>5. z < i
      BY <3>2, <3>3, <3>4, <1>1, <1>2, <1>5
    <3> QED
      BY <3>5 DEF i
  <2>2. H - 1 \in Nat
    BY <1>1
  <2> DEFINE n == H - 1
  <2> HIDE DEF n
  <2>3. n \in Nat /\ z < n * h
    BY <2>1, <2>2 DEF n
  <2>4. q \in Nat /\ q < n
    BY <2>3, <1>3, <1>5, QuotientBelow
  <2> QED
    BY <2>4 DEF n
<1>8. div_s(a, h) = q
  <2> HIDE DEF q
  <2> QED
    BY <1>1, <1>4, <1>7 DEF Nearest
<1>9. q \in Word16
  <2> HIDE DEF q
  <2> QED
    BY <1>1, <1>7, Limits
<1>10. q * h = h * q /\ h * q \in Int
  <2> HIDE DEF q
  <2> QED
    BY <1>3, <1>7
<1> HIDE DEF q, t
<1> QED
  BY <1>1, <1>3, <1>5, <1>6, <1>7, <1>8, <1>9, <1>10 DEF a, b

(* A product of numbers that are not negative is rounded down to an even one. *)
LEMMA PositiveProduct ==
  ASSUME NEW x \in Word32, NEW a \in Word16, x >= 0, a >= 0
  PROVE  LET X == x - (x % 2)
             r == Mpy_32_16(L_Extract(x).hi, L_Extract(x).lo, a)
         IN /\ r \in Word32 /\ r \in Nat /\ r % 2 = 0
            /\ H * r <= X * a /\ X * a < H * r + 2 * H
<1> DEFINE hi == L_Extract(x).hi
           lo == L_Extract(x).lo
           bit == x % 2
           X == x - bit
           f == (lo * a) \div H
           r == Mpy_32_16(hi, lo, a)
           k == hi * a
           p == lo * a
           e == k + f
<1>1. /\ hi \in Word16 /\ lo \in 0..H - 1 /\ bit \in 0..1 /\ x = 2 * (hi * H + lo) + bit
  BY ExtractIs
<1>2. /\ H \in Nat /\ H >= 4 /\ a \in Nat /\ x \in Int
      /\ hi \in Int /\ lo \in Int /\ lo >= 0 /\ lo <= H - 1 /\ bit \in Int /\ 0 <= bit /\ bit <= 1
  <2> HIDE DEF hi, lo, bit
  <2> QED
    BY <1>1, Limits
<1>3. r = High(hi, a) + 2 * f /\ r \in Word32
  BY <1>1, Mpy_32_16Is
<1>4. f \in Int /\ H * f <= p /\ p < H * f + H
  BY <1>1, MultIs
<1> HIDE DEF hi, lo, bit, f, r
<1>5. hi >= 0
  <2>1. hi < 0 => (-1 - hi) * H >= 0 /\ (-1 - hi) * H = -H - hi * H /\ hi * H \in Int
    BY <1>2
  <2> QED
    BY <2>1, <1>1, <1>2
<1>6. r = 2 * e /\ k \in Nat /\ p \in Nat /\ e \in Int
  <2>1. r = 2 * k + 2 * f
    BY <1>2, <1>3, <1>5 DEF High
  <2>2. k \in Nat /\ p \in Nat
    BY <1>2, <1>5
  <2> HIDE DEF k, p
  <2> QED
    BY <2>1, <2>2, <1>4
<1>7. f >= 0
  <2>1. f < 0 => (-1 - f) * H >= 0 /\ (-1 - f) * H = -H - H * f /\ H * f \in Int
    BY <1>2, <1>4
  <2> HIDE DEF p
  <2> QED
    BY <2>1, <1>2, <1>4, <1>6
<1>8. X * a = 2 * (H * k) + 2 * p
  <2>1. X = 2 * (hi * H + lo)
    <3>1. hi * H \in Int
      BY <1>2
    <3> QED
      BY <3>1, <1>1, <1>2
  <2>2. (2 * (hi * H + lo)) * a = 2 * (H * (hi * a)) + 2 * (lo * a)
    BY <1>2
  <2> QED
    BY <2>1, <2>2
<1> HIDE DEF k, p
<1>9. H * (2 * e) = 2 * (H * k) + 2 * (H * f) /\ H * k \in Int /\ H * f \in Int
  BY <1>2, <1>4, <1>6
<1> HIDE DEF e, X
<1>10. H * r <= X * a /\ X * a < H * r + 2 * H
  BY <1>2, <1>4, <1>6, <1>8, <1>9
<1>11. r \in Nat /\ r % 2 = 0
  <2>1. r = e * 2 + 0 /\ e \in Int /\ r \in Int /\ 0 \in Nat /\ 2 \in Nat
    BY <1>6
  <2>2. r % 2 = 0
    BY <2>1, IntDivisionIsUnique
  <2>3. e >= 0
    BY <1>6, <1>7, <1>4 DEF e
  <2> QED
    BY <2>1, <2>2, <2>3
<1> QED
  BY <1>3, <1>10, <1>11 DEF X, r, hi, lo, bit

(* The quantities of Div_32() are those of the lemmas above. *)
LEMMA Div_32Is ==
  ASSUME NEW d \in Word32, L_Extract(d).hi >= H \div 2, NEW y \in 1..d - 1
  PROVE  LET x == L_Extract(d)
             q == (y * M) \div d
         IN \E X, A, P, r, I, E :
              /\ Newton(X, A, P, r, I, y, E, q, d) /\ E \in 0..M - 1
              /\ Div_32(y, x.hi, x.lo) = L_shl(E, 2).v
<1> DEFINE h == L_Extract(d).hi
           lo == L_Extract(d).lo
           bit == d % 2
           X == d - bit
           N == H * H
           A == div_s(H \div 2 - 1, h)
           P == Mpy_32_16(h, lo, A)
           s == L_sub(MAX_32, P).v
           r == s - (s % 2)
           rest == L_Extract(s)
           I == Mpy_32_16(rest.hi, rest.lo, A)
           inv == L_Extract(I)
           n == L_Extract(y)
           E == Mpy_32(n.hi, n.lo, inv.hi, inv.lo)
           K == H * M
           S == X * A
           q == (y * M) \div d
<1>1. Div_32(y, h, lo) = L_shl(E, 2).v
  BY DEF Div_32
<1>2. /\ H \in Nat /\ H >= 4 /\ M \in Nat /\ M > 0 /\ M = 2 * N /\ N \in Nat /\ N >= 4 * H
      /\ d \in Int /\ d <= M - 1 /\ MAX_32 = M - 1 /\ y \in Nat /\ 1 <= y /\ y <= d - 1 /\ d \in Nat
  BY Limits, MIsPositive
<1>3. /\ h \in Word16 /\ lo \in 0..H - 1 /\ bit \in 0..1 /\ d = 2 * (h * H + lo) + bit
      /\ h \in Int /\ h <= H - 1
  BY ExtractIs, Limits
<1>4. /\ A \in Word16 /\ A \in Nat /\ A <= H - 2
      /\ 2 * (h * A) <= N - 2 * H /\ N - 2 * H - 2 * h < 2 * (h * A)
  BY <1>3, ApproximationIs
<1>5. P \in Word32 /\ P \in Nat /\ H * P <= S /\ S < H * P + 2 * H
  <2> HIDE DEF A
  <2> QED
    BY <1>2, <1>4, PositiveProduct
<1> HIDE DEF h, lo, bit, A, P, E, N, q
<1>6. X = 2 * (h * H + lo) /\ X \in Nat /\ X < M /\ M <= 2 * X /\ d \in {X, X + 1} /\ y <= X
  <2>1. h * H \in Int
    BY <1>2, <1>3
  <2>2. X = 2 * (h * H + lo) /\ bit \in {0, 1} /\ lo \in Int /\ lo >= 0
    BY <1>2, <1>3, <2>1
  <2>3. N <= 2 * (h * H)
    <3>1. H \div 2 \in Nat /\ H = 2 * (H \div 2) /\ H \div 2 <= h
      BY WordSizes DEF h
    <3>2. H <= 2 * h
      BY <3>1, <1>3
    <3>3. H * H <= H * (2 * h) /\ H * (2 * h) = 2 * (h * H)
      <4>1. 2 * h \in Int /\ H \in Int
        BY <1>2, <1>3
      <4>2. H * H <= H * (2 * h)
        BY <3>2, <4>1, <1>2, Factor
      <4> QED
        BY <4>2, <1>2, <1>3
    <3> QED
      BY <3>3 DEF N
  <2> HIDE DEF X
  <2>4. d = X + bit
    BY <1>2, <2>2 DEF X
  <2> QED
    BY <1>2, <2>1, <2>2, <2>3, <2>4
<1>7. 0 <= K - 2 * S /\ K - 2 * S <= 8 * N
  <2> DEFINE k == h * A
             p == lo * A
  <2>1. S = 2 * (H * k) + 2 * p /\ k \in Int /\ p \in Nat
    <3>1. (2 * (h * H + lo)) * A = 2 * (H * (h * A)) + 2 * (lo * A) /\ h * A \in Int /\ lo * A \in Nat
      BY <1>2, <1>3, <1>4
    <3> QED
      BY <3>1, <1>6
  <2>2. p <= N - 3 * H + 2
    <3>1. (H - 1 - lo) * A >= 0 /\ (H - 1 - lo) * A = H * A - A - p /\ H * A \in Int
      BY <1>2, <1>3, <1>4
    <3>2. (H - 2 - A) * (H - 1) >= 0 /\ (H - 2 - A) * (H - 1) = H * H - 3 * H + 2 - H * A + A
      BY <1>2, <1>4
    <3>3. H * H \in Int
      BY <1>2
    <3> HIDE DEF p
    <3> QED
      BY <3>1, <3>2, <3>3, <1>2, <1>4, <2>1 DEF N
  <2> HIDE DEF k, p
  <2>3. /\ H * (2 * k) <= H * (N - 2 * H)
        /\ H * (N - 2 * H - 2 * h) <= H * (2 * k)
        /\ H * h <= H * (H - 1)
    <3>1. /\ 2 * k \in Int /\ N - 2 * H \in Int /\ N - 2 * H - 2 * h \in Int /\ H - 1 \in Int
          /\ 2 * k <= N - 2 * H /\ N - 2 * H - 2 * h <= 2 * k /\ h <= H - 1
      BY <1>2, <1>3, <1>4, <2>1 DEF k
    <3> QED
      BY <3>1, <1>2, <1>3, Factor
  <2>4. /\ H * (2 * k) = 2 * (H * k) /\ H * (N - 2 * H) = H * N - 2 * N
        /\ H * (N - 2 * H - 2 * h) = H * N - 2 * N - 2 * (H * h)
        /\ H * (H - 1) = N - H /\ K = 2 * (H * N)
        /\ H * k \in Int /\ H * N \in Int /\ H * h \in Int
    BY <1>2, <1>3, <2>1 DEF N
  <2> HIDE DEF S, K
  <2> QED
    BY <2>1, <2>2, <2>3, <2>4, <1>2
<1>8. P <= N
  <2>1. H * P <= H * N
    <3>1. K = 2 * (H * N) /\ H * N \in Int /\ H * P \in Int /\ K \in Int /\ S \in Int
      BY <1>2, <1>4, <1>5, <1>6
    <3> HIDE DEF K, S
    <3> QED
      BY <3>1, <1>5, <1>7
  <2> QED
    BY <2>1, <1>2, <1>5, Factor
<1>9. s = M - 1 - P /\ s \in Word32 /\ s >= 0
  <2>1. MAX_32 \in Word32
    BY <1>2, Limits
  <2>2. s = Near32(M - 1 - P)
    BY <1>2, <1>5, <2>1, SubIsNearest
  <2>3. M - 1 - P \in Int /\ -M <= M - 1 - P /\ M - 1 - P <= M - 1 /\ M - 1 - P >= 0
    BY <1>2, <1>5, <1>8
  <2>4. Near32(M - 1 - P) = M - 1 - P
    BY <2>3, NearIs
  <2> HIDE DEF s
  <2> QED
    BY <2>2, <2>3, <2>4, Limits
<1> HIDE DEF s
<1>10. r \in Int /\ r <= M - 1 - P /\ M - 2 - P <= r
  <2>1. s % 2 \in 0..1 /\ s \in Int
    BY <1>9, ExtractIs, Limits
  <2> QED
    BY <2>1, <1>2, <1>5, <1>9
<1>11. /\ I \in Word32 /\ I \in Nat /\ I % 2 = 0
       /\ H * I <= r * A /\ r * A < H * I + 2 * H
  BY <1>4, <1>9, PositiveProduct
<1> HIDE DEF I, r
<1>12. y \in Word32
  BY <1>2, Limits
<1>13. PICK g \in Int : MpyRest(y, I, g) /\ MpyIs(E, y, I, g)
  BY <1>11, <1>12, Mpy_32Exact DEF E
<1>14. g >= 0 /\ M * g <= y * I /\ y * I < M * g + 7 * M
  <2>1. g >= 0 /\ 0 <= y * I - M * g /\ y * I - M * g < 7 * M
    BY <1>2, <1>11, <1>13 DEF MpyRest
  <2>2. y * I \in Int /\ M * g \in Int
    BY <1>2, <1>11
  <2> QED
    BY <2>1, <2>2, <1>2
<1>15. g <= M - 1
  <2>1. y * I <= y * M
    BY <1>2, <1>11, Limits, Factor
  <2>2. y * M = M * y /\ M * g \in Int /\ M * y \in Int /\ y * I \in Int
    BY <1>2, <1>11
  <2>3. M * g <= M * y
    BY <2>1, <2>2, <1>14
  <2>4. g <= y
    BY <2>3, <1>2, Factor
  <2> QED
    BY <2>4, <1>2
<1>16. E = g
  <2>1. extract_h(y) >= 0
    BY <1>2, <1>12, SignOfHigh
  <2>2. ~(extract_h(y) = -H)
    BY <2>1, <1>2
  <2>3. E = Near32(g)
    BY <2>2, <1>13 DEF MpyIs
  <2> QED
    BY <2>3, <1>2, <1>14, <1>15, NearIs
<1>17. q \in Nat /\ q * d <= y * M /\ y * M < q * d + d /\ q <= M - 1
  <2> DEFINE z == y * M
             t == z % d
  <2>1. z \in Nat /\ d > 0
    BY <1>2
  <2>2. z < M * d
    <3>1. (d - y) * M > 0 /\ (d - y) * M = M * d - y * M /\ M * d \in Int
      BY <1>2
    <3> QED
      BY <3>1, <2>1
  <2> HIDE DEF z
  <2>3. q \in Nat /\ q < M
    BY <2>1, <2>2, <1>2, QuotientBelow DEF q, z
  <2>4. t \in Nat /\ t < d /\ z = q * d + t
    BY <2>1, <1>2, IntDivision DEF q, z
  <2>5. q * d \in Int
    BY <2>3, <1>2
  <2> HIDE DEF t
  <2> QED
    BY <2>1, <2>3, <2>4, <2>5, <1>2 DEF z
<1> HIDE DEF X
<1>18. M * E <= y * I /\ y * I < M * E + 7 * M /\ E \in Int /\ E \in 0..M - 1
  BY <1>2, <1>14, <1>15, <1>16
<1>19. Newton(X, A, P, r, I, y, E, q, d)
  BY <1>2, <1>4, <1>5, <1>6, <1>7, <1>10, <1>11, <1>17, <1>18 DEF Newton, N
<1> QED
  BY <1>1, <1>18, <1>19 DEF h, lo, q

(* Div_32(): within a few units of the exact quotient, and not negative. *)
LEMMA Div_32Near ==
  ASSUME NEW d \in Word32, L_Extract(d).hi >= H \div 2, NEW y \in 1..d - 1
  PROVE  LET x == L_Extract(d)
             r == Div_32(y, x.hi, x.lo)
         IN r >= 0 /\ Near(r, (y * M) \div d, 72, 4)
<1> DEFINE D == Div_32(y, L_Extract(d).hi, L_Extract(d).lo)
           q == (y * M) \div d
<1>1. PICK X, A, P, r, I, E : Newton(X, A, P, r, I, y, E, q, d) /\ E \in 0..M - 1 /\ D = L_shl(E, 2).v
  BY Div_32Is
<1> HIDE DEF D, q
<1>2. 4 * E <= q + 4
  BY <1>1, QuotientAbove
<1>3. q - 72 <= 4 * E
  BY <1>1, QuotientMissing
<1>4. q \in Nat /\ q <= M - 1
  BY <1>1 DEF Newton
<1>5. M \in Nat /\ M > 0 /\ E \in Int /\ 0 <= E /\ E <= M - 1 /\ MIN_32 = -M /\ MAX_32 = M - 1
  BY <1>1, Limits, MIsPositive
<1>6. E \in Word32 /\ 0 \in Word16 /\ 2 \in Int
  BY <1>5, Limits
<1>7. L_shl(E, 2) = Scaled(E, 2, MIN_32, MAX_32)
  BY <1>6, ShiftsAre
<1>8. 2^2 = 4
  <2>1. 2^0 = 1 /\ 2^(0 + 1) = 2 * 2^0 /\ 2^(1 + 1) = 2 * 2^1
    BY PowerOfTwo
  <2> QED
    BY <2>1
<1>9. D = Nearest(E * 4, MIN_32, MAX_32)
  <2>1. ~(2 < 0)
    OBVIOUS
  <2> QED
    BY <1>1, <1>7, <1>8, <2>1 DEF Scaled
<1>10. D >= 0 /\ q - 72 <= D /\ D <= q + 4 /\ D \in Int
  BY <1>2, <1>3, <1>4, <1>5, <1>9 DEF Nearest
<1> QED
  BY <1>4, <1>10 DEF Near, D, q

(* The parts of FractionsAgree, one operator after the other. *)
LEMMA FractionsOf == TypeOK => FractionsAgree
<1> SUFFICES ASSUME TypeOK PROVE FractionsAgree
  OBVIOUS
<1> DEFINE x == L_Extract(acc)
<1>1. acc \in Word32 /\ reg \in Word16
  BY DEF TypeOK
<1>2. ASSUME NEW a \in Word16
      PROVE  /\ Divisible(a, reg) => div_s(a, reg) = Nearest((a * H) \div reg, 0, MAX_16)
             /\ a # MIN_16 => L_mls(acc, a).v = Nearest((acc * a) \div H, MIN_32, MAX_32)
             /\ Near(Mpy_32_16(x.hi, x.lo, a), (acc * a) \div H, 2, 1)
  BY <1>1, DivsIs, MlsIs, Mpy_32_16Near
<1>3. L_Divisible(acc, reg) => div_l(acc, reg) = Nearest((acc \div 2) \div reg, 0, MAX_16)
  BY <1>1, DivlIs
<1>4. L_Comp(x.hi, x.lo) = acc - (acc % 2)
  BY <1>1, CompIs
<1>5. ASSUME NEW y \in Operands
      PROVE  /\ Near(Mpy_32(x.hi, x.lo, L_Extract(y).hi, L_Extract(y).lo), (acc * y) \div M, 7, 2)
             /\ x.hi >= H \div 2 /\ y \in 1..(acc - 1) =>
                  /\ Div_32(y, x.hi, x.lo) >= 0
                  /\ Near(Div_32(y, x.hi, x.lo), (y * M) \div acc, 72, 4)
  <2>1. y \in Word32
    BY OperandsAssumption
  <2> QED
    BY <1>1, <2>1, Mpy_32Near, Div_32Near
<1> QED
  BY <1>2, <1>3, <1>4, <1>5 DEF FractionsAgree

(* Whatever the width, and whatever the codec accumulates: what it computes of
   its operands are the fractions the operators promise, to the units they may
   lose (div_s(), div_l(), L_mls(), Mpy_32_16(), Mpy_32(), Div_32()). *)
THEOREM FractionsAlwaysAgree == Spec => []FractionsAgree
BY TypeCorrect, FractionsOf, PTL
===============================================================================
