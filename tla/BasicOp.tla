------------------------------- MODULE BasicOp -------------------------------
(***************************************************************************)
(* The ITU-T basic operators the BV16 codec computes with                  *)
(* (itug191lib/basop32.c) and the double precision format built on them    *)
(* (itug729ilib/oper_32b.c).                                               *)
(*                                                                         *)
(* A Word16 has w bits here and a Word32 twice as many: in the code w is   *)
(* 16, and every mask and limit below is written in terms of w and H, so   *)
(* that all words of a small width can be enumerated.  An operator that    *)
(* may touch the global flags returns a record: v is its value, o what it  *)
(* does to Overflow (TRUE: sets it), and c, where there is one, the new    *)
(* Carry.                                                                  *)
(***************************************************************************)
EXTENDS Integers

CONSTANTS
  w,                   \* bits of a Word16
  H                    \* 2^(w-1), that is 0x8000 in the code

ASSUME WidthAssumption == w \in Nat /\ w >= 3 /\ H \in Nat /\ H >= 4 /\ H = 2^(w - 1)

M == 2 * H * H         \* 2^31 in the code

MAX_16 == H - 1
MIN_16 == -H
MAX_32 == M - 1
MIN_32 == -M

Word16 == MIN_16..MAX_16
Word32 == MIN_32..MAX_32

Exact(x) == [v |-> x, o |-> FALSE]
Bound(x) == [v |-> x, o |-> TRUE]

(* What a Word32 addition leaves of a sum of two words, and a cast to Word16
   of a Word32. *)
Wrap(x)  == IF x > MAX_32 THEN x - 2 * M ELSE IF x < MIN_32 THEN x + 2 * M ELSE x
Cast16(x) == ((x + H) % (2 * H)) - H

(* Values, each followed by what it sets. *)
saturate(x) == IF x > MAX_16 THEN Bound(MAX_16)
               ELSE IF x < MIN_16 THEN Bound(MIN_16) ELSE Exact(Cast16(x))

add(a, b)    == saturate(a + b)
sub(a, b)    == saturate(a - b)
i_mult(a, b) == saturate(a * b)
abs_s(a)     == IF a = MIN_16 THEN MAX_16 ELSE IF a < 0 THEN -a ELSE a
negate(a)    == IF a = MIN_16 THEN MAX_16 ELSE -a

(* The product is masked and shifted right arithmetically by w - 1 bits: the
   sign extension that follows finds nothing to do. *)
mult(a, b)   == saturate((a * b) \div H)
mult_r(a, b) == saturate((a * b + H \div 2) \div H)

extract_h(x)   == x \div (2 * H)
extract_l(x)   == Cast16(x)
L_deposit_h(a) == a * 2 * H
L_deposit_l(a) == a

-----------------------------------------------------------------------------
(* Multiplication and accumulation in 32 bits. *)

L_mult(a, b) == IF a * b # H * H THEN Exact(2 * a * b) ELSE Bound(MAX_32)
L_mult0(a, b) == a * b

(* A sum overflows when the operands agree in sign and the sum does not. *)
L_add(x, y) ==
  LET sum == Wrap(x + y) IN
  IF (x < 0) = (y < 0) /\ (sum < 0) # (x < 0)
  THEN Bound(IF x < 0 THEN MIN_32 ELSE MAX_32) ELSE Exact(sum)

L_sub(x, y) ==
  LET diff == Wrap(x - y) IN
  IF (x < 0) # (y < 0) /\ (diff < 0) # (x < 0)
  THEN Bound(IF x < 0 THEN MIN_32 ELSE MAX_32) ELSE Exact(diff)

L_negate(x) == IF x = MIN_32 THEN MAX_32 ELSE -x
L_abs(x)    == IF x = MIN_32 THEN MAX_32 ELSE IF x < 0 THEN -x ELSE x

L_mac(x, a, b) ==
  LET p == L_mult(a, b)
      s == L_add(x, p.v) IN [v |-> s.v, o |-> p.o \/ s.o]
L_msu(x, a, b) ==
  LET p == L_mult(a, b)
      s == L_sub(x, p.v) IN [v |-> s.v, o |-> p.o \/ s.o]
L_mac0(x, a, b) == L_add(x, L_mult0(a, b))
L_msu0(x, a, b) == L_sub(x, L_mult0(a, b))

(* intround() is called round() in the G.191 library. *)
intround(x) == LET s == L_add(x, H) IN [v |-> extract_h(s.v), o |-> s.o]
mac_r(x, a, b) ==
  LET s == L_mac(x, a, b)
      r == intround(s.v) IN [v |-> r.v, o |-> s.o \/ r.o]
msu_r(x, a, b) ==
  LET s == L_msu(x, a, b)
      r == intround(s.v) IN [v |-> r.v, o |-> s.o \/ r.o]

-----------------------------------------------------------------------------
(* The operators that do not saturate: they wrap and leave in Overflow and
   Carry what L_sat() needs to saturate afterwards. *)

(* Faulty variant of L_add_c: the carry of two negative operands is
   forgotten. *)
L_add_cNoCarry(x, y, carry) ==
  LET test == Wrap(x + y)
      over == (x > 0 /\ y > 0 /\ test < 0) \/ (x < 0 /\ y < 0 /\ test >= 0)
  IN [v |-> Wrap(x + y + (IF carry THEN 1 ELSE 0)),
      o |-> over \/ (carry /\ test = MAX_32),
      c |-> (x < 0) # (y < 0) /\ test >= 0]

L_add_c(x, y, carry) ==
  LET test  == Wrap(x + y)
      over  == (x > 0 /\ y > 0 /\ test < 0) \/ (x < 0 /\ y < 0 /\ test >= 0)
      carry_int == \/ x < 0 /\ y < 0
                   \/ (x < 0) # (y < 0) /\ test >= 0
  IN [v |-> Wrap(x + y + (IF carry THEN 1 ELSE 0)),
      o |-> over \/ (carry /\ test = MAX_32),
      c |-> carry_int \/ (carry /\ test = -1)]

(* With the carry set there is no borrow, and the code adds the negated
   operand with the carry cleared.  Overflow is not cleared by every path:
   over is its value before. *)
L_sub_c(x, y, over, carry) ==
  IF carry
  THEN IF y # MIN_32 THEN L_add_c(x, -y, FALSE)
       ELSE [v |-> Wrap(x - y), o |-> over \/ x > 0, c |-> FALSE]
  ELSE LET test  == Wrap(x - y)
           above == test < 0 /\ x > 0 /\ y < 0
           below == test > 0 /\ x < 0 /\ y > 0
           same  == test > 0 /\ (x < 0) = (y < 0) /\ x # y
       IN [v |-> Wrap(x - y - 1),
           o |-> test = MIN_32 \/ above \/ below \/ (over /\ ~same),
           c |-> below \/ same]

L_macNs(x, a, b, over, carry) ==
  LET p == L_mult(a, b) IN L_add_c(x, p.v, carry)
L_msuNs(x, a, b, over, carry) ==
  LET p == L_mult(a, b) IN L_sub_c(x, p.v, over \/ p.o, carry)

L_sat(x, over, carry) ==
  IF over THEN [v |-> IF carry THEN MIN_32 ELSE MAX_32, o |-> FALSE, c |-> FALSE]
  ELSE [v |-> x, o |-> FALSE, c |-> carry]

-----------------------------------------------------------------------------
(* Shifts.  A negative count shifts the other way, by at most the width. *)

Least(i, j) == IF i < j THEN i ELSE j

(* Two arithmetic shifts to the right: a negative operand is complemented,
   shifted and complemented again. *)
ShiftedDown(x, n) == IF x < 0 THEN -1 - ((-1 - x) \div 2^n) ELSE x \div 2^n
Bit(x, n) == (x \div 2^n) % 2

ShrUp(a, n)   == IF n >= w - 1 THEN IF a < 0 THEN -1 ELSE 0 ELSE ShiftedDown(a, n)
L_ShrUp(x, n) == IF n >= 2 * w - 1 THEN IF x < 0 THEN -1 ELSE 0 ELSE ShiftedDown(x, n)

ShlUp(a, n) ==
  IF a # 0 /\ (n > w - 1 \/ a * 2^n \notin Word16)
  THEN Bound(IF a > 0 THEN MAX_16 ELSE MIN_16)
  ELSE Exact(a * 2^n)

(* Faulty variant of L_ShlUp: the loop tests the operand it was called with. *)
L_ShlOnce(x, n) ==
  IF x > H * H - 1 THEN Bound(MAX_32) ELSE IF x < -(H * H) THEN Bound(MIN_32)
  ELSE Exact(Wrap(x * 2^Least(n, w)))

(* One doubling after the other, until the next one would overflow. *)
L_ShlUp(x, n) ==
  LET doubled[i \in 0..n] ==
        IF i = 0 THEN Exact(x)
        ELSE LET y == doubled[i - 1] IN
             IF y.o THEN y
             ELSE IF y.v > H * H - 1 THEN Bound(MAX_32)
             ELSE IF y.v < -(H * H) THEN Bound(MIN_32) ELSE Exact(2 * y.v)
  IN doubled[n]

shl(a, n) == IF n < 0 THEN Exact(ShrUp(a, Least(-n, w))) ELSE ShlUp(a, n)
shr(a, n) == IF n < 0 THEN ShlUp(a, Least(-n, w)) ELSE Exact(ShrUp(a, n))
L_shl(x, n) == IF n <= 0 THEN Exact(L_ShrUp(x, Least(-n, 2 * w))) ELSE L_ShlUp(x, n)
L_shr(x, n) == IF n < 0 THEN L_ShlUp(x, Least(-n, 2 * w)) ELSE Exact(L_ShrUp(x, n))

(* Rounding shifts: the last bit shifted out is added. *)
shr_r(a, n) ==
  IF n > w - 1 THEN Exact(0)
  ELSE LET r == shr(a, n) IN
       [r EXCEPT !.v = @ + (IF n > 0 THEN Bit(a, n - 1) ELSE 0)]
L_shr_r(x, n) ==
  IF n > 2 * w - 1 THEN Exact(0)
  ELSE LET r == L_shr(x, n) IN
       [r EXCEPT !.v = @ + (IF n > 0 THEN Bit(x, n - 1) ELSE 0)]

(* How far an operand can be shifted to the left. *)
FirstAtLeast(y, limit, n) ==
  CHOOSE k \in 0..n : y * 2^k >= limit /\ (k > 0 => y * 2^(k - 1) < limit)
norm_s(a) == IF a = 0 THEN 0 ELSE IF a = -1 THEN w - 1
             ELSE FirstAtLeast(IF a < 0 THEN -1 - a ELSE a, H \div 2, w)
norm_l(x) == IF x = 0 THEN 0 ELSE IF x = -1 THEN 2 * w - 1
             ELSE FirstAtLeast(IF x < 0 THEN -1 - x ELSE x, H * H, 2 * w)

-----------------------------------------------------------------------------
(* Divisions, one bit of the quotient after the other. *)

LongDivision(num, den) ==
  LET after[i \in 0..(w - 1)] ==
        IF i = 0 THEN [q |-> 0, rest |-> num]
        ELSE LET p == after[i - 1] IN
             IF 2 * p.rest >= den THEN [q |-> 2 * p.q + 1, rest |-> 2 * p.rest - den]
             ELSE [q |-> 2 * p.q, rest |-> 2 * p.rest]
  IN after[w - 1].q

(* The process aborts on any other operands. *)
Divisible(a, b)  == 0 <= a /\ a <= b /\ b # 0
L_Divisible(x, b) == 0 <= x /\ 0 < b

div_s(a, b) ==
  IF a = 0 THEN 0 ELSE IF a = b THEN MAX_16 ELSE LongDivision(a, b)

div_l(x, b) ==
  IF x >= L_deposit_h(b) THEN MAX_16
  ELSE LongDivision(L_ShrUp(x, 1), L_ShrUp(L_deposit_h(b), 1))

(* The low half is taken without its sign. *)
L_mls(x, a) ==
  L_mac(L_ShrUp((x % (2 * H)) * a, w - 1), a, extract_h(x))

-----------------------------------------------------------------------------
(* Double precision format: a Word32 as hi * 2^w + lo * 2. *)

L_Extract(x) ==
  LET hi == extract_h(x)
  IN [hi |-> hi, lo |-> extract_l(L_msu(L_ShrUp(x, 1), hi, H \div 2).v)]

L_Comp(hi, lo) == L_mac(L_deposit_h(hi), lo, 1).v

(* Faulty variant of Mpy_32: the product of one low half is left out. *)
Mpy_32High(hi1, lo1, hi2, lo2) ==
  L_mac(L_mult(hi1, hi2).v, mult(hi1, lo2).v, 1).v

Mpy_32(hi1, lo1, hi2, lo2) ==
  L_mac(L_mac(L_mult(hi1, hi2).v, mult(hi1, lo2).v, 1).v, mult(lo1, hi2).v, 1).v

Mpy_32_16(hi, lo, n) == L_mac(L_mult(hi, n).v, mult(lo, n).v, 1).v

(* One step of Newton's iteration on 1 / denominator. *)
Div_32(num, denom_hi, denom_lo) ==
  LET approx == div_s(H \div 2 - 1, denom_hi)
      rest   == L_Extract(L_sub(MAX_32, Mpy_32_16(denom_hi, denom_lo, approx)).v)
      inv    == L_Extract(Mpy_32_16(rest.hi, rest.lo, approx))
      n      == L_Extract(num)
  IN L_shl(Mpy_32(n.hi, n.lo, inv.hi, inv.lo), 2).v
=============================================================================
