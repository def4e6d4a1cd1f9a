---------------------------- MODULE SaturatingDsp ----------------------------
(***************************************************************************)
(* What the comments of basop32.c promise to a codec that accumulates in   *)
(* a Word32: a saturating operator leaves the exact result, or the nearest *)
(* Word32 and Overflow raised; an operator that does not saturate leaves   *)
(* the exact result modulo the size of the word, and L_sat() after it      *)
(* makes of that what saturation at once would have made.                  *)
(***************************************************************************)
EXTENDS Integers

CONSTANT M             \* Word32 is -M .. M - 1

VARIABLES
  acc,                 \* the accumulator
  Overflow,
  exact,               \* the exact result of the last operator
  last                 \* the kind of operator that left it

vars == <<acc, Overflow, exact, last>>

Word == -M .. M - 1

Nearest(x) == IF x > M - 1 THEN M - 1 ELSE IF x < -M THEN -M ELSE x

Init == acc = 0 /\ ~Overflow /\ exact = 0 /\ last = "free"

(* Overflow stays raised.  The largest product of two Word16 is saturated
   before it is an operand, and raises it too. *)
Saturated ==
  /\ last' = "saturated"
  /\ exact' - acc \in -M .. M
  /\ acc' = Nearest(exact')
  /\ Overflow \/ exact' \notin Word => Overflow'
  /\ Overflow' => \/ Overflow \/ exact' \notin Word
                  \/ exact' - acc \in {M - 1, 1 - M}

(* A result that only just fits may be reported as an overflow: L_sat() makes
   the same of it. *)
Deferred ==
  /\ last' = "deferred"
  /\ exact' - acc \in -M .. M
  /\ acc' \in Word /\ acc' \in {exact' - 2 * M, exact', exact' + 2 * M}
  /\ exact' \notin Word => Overflow'
  /\ Overflow' => exact' \notin Word \/ exact' \in {-M, M - 1}

Repair ==
  /\ last = "deferred" /\ last' = "repaired"
  /\ acc' = Nearest(exact) /\ exact' = acc'
  /\ ~Overflow'

(* The codec starts another sum or assigns a flag, or an operator makes no
   promise. *)
Free == last' = "free" /\ acc' \in Word

Next == Saturated \/ Deferred \/ Repair \/ Free

Spec == Init /\ [][Next]_vars
=============================================================================
