--------------------------------- MODULE Dsp ---------------------------------
(***************************************************************************)
(* A codec that accumulates in a Word32 with the basic operators, whose    *)
(* flags Overflow and Carry are global variables of basop32.c: what one    *)
(* operator leaves in them is what the next one finds.                     *)
(*                                                                         *)
(* L_sub_c() does not test the difference after it has taken the borrow,   *)
(* and it does not clear Overflow on every path: MissesBorrow names the    *)
(* operands for which its flags do not say what happened, and for them     *)
(* nothing is claimed.                                                     *)
(***************************************************************************)
EXTENDS BasicOp

CONSTANT Operands      \* the Word32 operands the codec brings

ASSUME OperandsAssumption == Operands \subseteq Word32

VARIABLES
  acc,                 \* the accumulator of the codec
  reg,                 \* a Word16 operand
  Overflow, Carry,     \* the global flags
  exact,               \* history: the exact result of the last operator
  last                 \* history: what the last operator promised of acc

vars == <<acc, reg, Overflow, Carry, exact, last>>

TypeOK ==
  /\ acc \in Word32 /\ reg \in Word16
  /\ Overflow \in BOOLEAN /\ Carry \in BOOLEAN
  /\ exact \in Int
  /\ last \in {"free", "saturated", "deferred", "repaired"}

Init ==
  /\ acc = 0 /\ reg \in Word16
  /\ Overflow = FALSE /\ Carry = FALSE
  /\ exact = 0 /\ last = "free"

(* The codec starts another sum, or assigns the flags. *)
Load(x, overflow, carry) ==
  /\ acc' = x /\ exact' = x /\ last' = "free"
  /\ Overflow' = overflow /\ Carry' = carry
  /\ UNCHANGED reg

Saturating(r, e) ==
  /\ acc' = r.v /\ exact' = e /\ last' = "saturated"
  /\ Overflow' = (Overflow \/ r.o)
  /\ UNCHANGED <<reg, Carry>>

NonSaturating(r, e, promise) ==
  /\ acc' = r.v /\ exact' = e /\ last' = promise
  /\ Overflow' = r.o /\ Carry' = r.c
  /\ UNCHANGED reg

Add(y) == Saturating(L_add(acc, y), acc + y)
Sub(y) == Saturating(L_sub(acc, y), acc - y)
Mac(a) == Saturating(L_mac(acc, reg, a), acc + L_mult(reg, a).v)
Msu(a) == Saturating(L_msu(acc, reg, a), acc - L_mult(reg, a).v)
Mac0(a) == Saturating(L_mac0(acc, reg, a), acc + reg * a)
Msu0(a) == Saturating(L_msu0(acc, reg, a), acc - reg * a)

CarryIn  == IF Carry THEN 1 ELSE 0
BorrowIn == IF Carry THEN 0 ELSE 1

(* The flags of L_sub_c() say what happened, except where the borrow or the
   negation is what overflows, and where Overflow was raised before. *)
MissesBorrow(x, y, over, carry) ==
  IF carry THEN y = MIN_32 /\ (x = 0 \/ over) ELSE x - y = MIN_32 \/ over
SubPromise(y, over) == IF MissesBorrow(acc, y, over, Carry) THEN "free" ELSE "deferred"

AddC(y) == NonSaturating(L_add_c(acc, y, Carry), acc + y + CarryIn, "deferred")
MacNs(a) == NonSaturating(L_macNs(acc, reg, a, Overflow, Carry),
                          acc + L_mult(reg, a).v + CarryIn, "deferred")
SubC(y) == NonSaturating(L_sub_c(acc, y, Overflow, Carry), acc - y - BorrowIn,
                         SubPromise(y, Overflow))
MsuNs(a) == LET p == L_mult(reg, a) IN
  NonSaturating(L_msuNs(acc, reg, a, Overflow, Carry), acc - p.v - BorrowIn,
                SubPromise(p.v, Overflow \/ p.o))

Sat ==
  LET r == L_sat(acc, Overflow, Carry) IN
  /\ acc' = r.v /\ exact' = r.v
  /\ last' = IF last = "deferred" THEN "repaired" ELSE "free"
  /\ Overflow' = r.o /\ Carry' = r.c
  /\ UNCHANGED reg

Next ==
  \/ \E x \in Operands, o, c \in BOOLEAN : Load(x, o, c)
  \/ \E y \in Operands : Add(y) \/ Sub(y) \/ AddC(y) \/ SubC(y)
  \/ \E a \in Word16 : Mac(a) \/ Msu(a) \/ Mac0(a) \/ Msu0(a) \/ MacNs(a) \/ MsuNs(a)
  \/ Sat

Spec == Init /\ [][Next]_vars

-----------------------------------------------------------------------------
(* Every operator that accumulates keeps the promises of basop32.c: it
   saturates, or leaves in the flags what L_sat() needs to saturate after it. *)
Ideal == INSTANCE SaturatingDsp
IdealSpec == Ideal!Spec

Counts == -(2 * w + 2) .. (2 * w + 2)

Nearest(x, low, high) == IF x > high THEN high ELSE IF x < low THEN low ELSE x
Scaled(x, n, low, high) ==
  IF n < 0 THEN Exact(x \div 2^(-n))
  ELSE [v |-> Nearest(x * 2^n, low, high), o |-> x * 2^n \notin low..high]
Rounded(x, n) == (x + 2^(n - 1)) \div 2^n

(* A shift multiplies by a power of two, saturating, or divides by it, rounded
   down or to the nearest, whatever the sign of the operand and of the count:
   shl(), shr(), L_shl() and L_shr() are defined by each other.  A shift by
   what norm_s() or norm_l() returns fills the word and does not overflow. *)
ShiftsScale ==
  /\ \A n \in Counts :
       /\ shl(reg, n) = Scaled(reg, n, MIN_16, MAX_16)
       /\ shr(reg, n) = Scaled(reg, -n, MIN_16, MAX_16)
       /\ L_shl(acc, n) = Scaled(acc, n, MIN_32, MAX_32)
       /\ L_shr(acc, n) = Scaled(acc, -n, MIN_32, MAX_32)
       /\ n > 0 => /\ shr_r(reg, n).v = Rounded(reg, n)
                   /\ L_shr_r(acc, n).v = Rounded(acc, n)
  /\ LET s == shl(reg, norm_s(reg))
         l == L_shl(acc, norm_l(acc))
     IN /\ ~s.o /\ (reg # 0 => s.v \notin -(H \div 2) .. H \div 2 - 1)
        /\ ~l.o /\ (acc # 0 => l.v \notin -(H * H) .. H * H - 1)

(* Within k units below and above of an exact value. *)
Near(x, exactly, below, above) == x \in exactly - below .. exactly + above

(* Fractions: a quotient is truncated, and MAX_16 stands for one; a product of
   double precision numbers is within a few units of the last place, and a
   quotient of them within less than 2^7, whatever the width: the "24 bits
   precision" oper_32b.c:13 claims for Div_32() in the code, where the last
   place is that of 32 bits.  Taking a Word32 apart and composing it again
   clears its last bit. *)
FractionsAgree ==
  LET x == L_Extract(acc) IN
  /\ \A a \in Word16 :
       /\ Divisible(a, reg) => div_s(a, reg) = Nearest((a * H) \div reg, 0, MAX_16)
       /\ a # MIN_16 => L_mls(acc, a).v = Nearest((acc * a) \div H, MIN_32, MAX_32)
       /\ Near(Mpy_32_16(x.hi, x.lo, a), (acc * a) \div H, 2, 1)
  /\ L_Divisible(acc, reg) =>
       div_l(acc, reg) = Nearest((acc \div 2) \div reg, 0, MAX_16)
  /\ L_Comp(x.hi, x.lo) = acc - (acc % 2)
  /\ \A y \in Operands :
       LET z == L_Extract(y) IN
       /\ Near(Mpy_32(x.hi, x.lo, z.hi, z.lo), (acc * y) \div M, 7, 2)
       /\ x.hi >= H \div 2 /\ y \in 1..(acc - 1) =>
            LET d == Div_32(y, x.hi, x.lo) IN
            d >= 0 /\ Near(d, (y * M) \div acc, 72, 4)
=============================================================================
