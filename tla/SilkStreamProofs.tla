-------------------------- MODULE SilkStreamProofs --------------------------
(***************************************************************************)
(* The stream for bytes of any width of two bits or more, any tables that  *)
(* are tables, and any frames, payloads and stale bytes.                   *)
(*                                                                         *)
(* The range coder.  First what is needed of the natural numbers; then one *)
(* symbol: the encoder keeps a range of a byte's resolution and never      *)
(* carries out of its buffer (EncoderStaysNormal), and the checks the      *)
(* decoder makes after a symbol never fail (DecoderStaysNormal); then a    *)
(* whole stream, up to the round trip: the decoder returns the symbols     *)
(* that were encoded (RoundTrip).  The round trip reads the bytes of a     *)
(* stream as one number.  An encoder stands for the interval of the        *)
(* numbers it may still become, Lower(e) and as long as the range: a       *)
(* symbol cuts a part out of it, wrapping up picks a number inside, and a  *)
(* decoder that is in step has as its base how far that number lies above  *)
(* the lower end.                                                          *)
(*                                                                         *)
(* The pulses and the frames.  What the encoder makes of a frame are       *)
(* symbols that their tables leave an interval for (FrameSymbolsAre): a    *)
(* block that was scaled down splits into sums that the shell tables can   *)
(* take, at every level.  What the decoder makes of any payload is a frame *)
(* whose sums split within their tables too (DecodePulsesAre).             *)
(*                                                                         *)
(* The two ends.  SenderInv and ReceiverInv are kept by every step, and    *)
(* with them no carry is lost (CarriesStayInside) and no range too narrow  *)
(* (IntervalsAreNormal), whatever the network does.                        *)
(*                                                                         *)
(* A walk through a sequence (Walk) is a recursive function: each use of   *)
(* it has a lemma, ...Follows or ...Follow, that a function which takes    *)
(* the same steps ends where the walk does.                                *)
(***************************************************************************)
EXTENDS SilkStream, FiniteSets, FiniteSetTheorems, WellFoundedInduction, TLAPS

-----------------------------------------------------------------------------
(* Induction.  A set takes the place of the predicate. *)

(* A set of natural numbers that is not empty has a least element. *)
LEMMA LeastElement ==
  ASSUME NEW T \in SUBSET Nat, T # {}
  PROVE  \E x \in T : \A y \in T : x <= y
<1> DEFINE R == OpToRel(<, Nat)
<1>1. IsWellFoundedOn(R, Nat)
  BY NatLessThanWellFounded
<1>2. R = {ss \in Nat \X Nat : ss[1] < ss[2]}
  BY DEF OpToRel
<1> HIDE DEF R
<1>3. PICK x \in T : \A y \in T : ~ (<<y, x>> \in R)
  BY <1>1, WFMin
<1>4. \A y \in T : ~(y < x)
  BY <1>2, <1>3
<1> QED
  BY <1>4

(* A set that holds 0, and with each number the next, holds them all. *)
LEMMA Induction ==
  ASSUME NEW S, 0 \in S, \A n \in Nat : n \in S => n + 1 \in S
  PROVE  Nat \subseteq S
<1> SUFFICES ASSUME Nat \ S # {} PROVE FALSE
  OBVIOUS
<1>1. PICK x \in Nat \ S : \A y \in Nat \ S : x <= y
  BY LeastElement
<1>2. x # 0 /\ x - 1 \in Nat /\ x - 1 \in S
  BY <1>1
<1> QED
  BY <1>1, <1>2

(* The same up to a number n, in both directions. *)
LEMMA InductionUpTo ==
  ASSUME NEW S, NEW n \in Nat, 0 \in S, \A i \in 0..n - 1 : i \in S => i + 1 \in S
  PROVE  0..n \subseteq S
<1> DEFINE T == {i \in Nat : i <= n => i \in S}
<1>1. 0 \in T
  OBVIOUS
<1>2. \A i \in Nat : i \in T => i + 1 \in T
  OBVIOUS
<1>3. Nat \subseteq T
  <2> HIDE DEF T
  <2> QED
    BY <1>1, <1>2, Induction
<1> QED
  BY <1>3

(* The same from a number n down to zero. *)
LEMMA InductionDownFrom ==
  ASSUME NEW S, NEW n \in Nat, n \in S, \A i \in 0..n - 1 : i + 1 \in S => i \in S
  PROVE  0..n \subseteq S
<1> DEFINE T == {i \in Nat : i <= n => n - i \in S}
<1>1. 0 \in T
  OBVIOUS
<1>2. \A i \in Nat : i \in T => i + 1 \in T
  <2> SUFFICES ASSUME NEW i \in Nat, i \in T, i + 1 <= n PROVE n - (i + 1) \in S
    OBVIOUS
  <2>1. n - i \in S /\ n - (i + 1) \in 0..n - 1 /\ (n - (i + 1)) + 1 = n - i
    OBVIOUS
  <2> QED
    BY <2>1
<1>3. Nat \subseteq T
  <2> HIDE DEF T
  <2> QED
    BY <1>1, <1>2, Induction
<1>4. \A i \in 0..n : n - i \in T /\ n - i \in Nat /\ n - i <= n /\ n - (n - i) = i
  BY <1>3
<1> QED
  BY <1>4

-----------------------------------------------------------------------------
(* Recursion.  A function is defined along 1..n by its first value and by what
   each step makes of the value before. *)
Follows(f, n, start, step) ==
  f = [i \in 0..n |-> IF i = 0 THEN start ELSE step[i][f[i - 1]]]

(* A recursive definition over 0..n has a function that follows it. *)
LEMMA Recursion ==
  ASSUME NEW S, NEW n \in Nat, NEW start \in S, NEW step \in [1..n -> [S -> S]]
  PROVE  \E f \in [0..n -> S] : Follows(f, n, start, step)
<1> DEFINE D == {m \in Nat : m <= n => \E f \in [0..m -> S] : Follows(f, m, start, step)}
<1>1. 0 \in D
  <2>1. [i \in 0..0 |-> start] \in [0..0 -> S] /\ Follows([i \in 0..0 |-> start], 0, start, step)
    BY DEF Follows
  <2> QED
    BY <2>1
<1>2. ASSUME NEW m \in Nat, m \in D, m + 1 <= n
      PROVE  \E f \in [0..m + 1 -> S] : Follows(f, m + 1, start, step)
  <2>1. PICK f \in [0..m -> S] : Follows(f, m, start, step)
    BY <1>2
  <2> DEFINE g == [i \in 0..m + 1 |-> IF i = m + 1 THEN step[m + 1][f[m]] ELSE f[i]]
  <2>2. step[m + 1][f[m]] \in S
    BY <1>2
  <2>3. g \in [0..m + 1 -> S]
    BY <2>2
  <2>4. \A i \in 0..m : f[i] = IF i = 0 THEN start ELSE step[i][f[i - 1]]
    BY <2>1 DEF Follows
  <2>5. \A i \in 0..m + 1 : g[i] = IF i = 0 THEN start ELSE step[i][g[i - 1]]
    <3> TAKE i \in 0..m + 1
    <3>1. CASE i = m + 1
      BY <3>1
    <3>2. CASE i \in 0..m
      BY <2>4, <3>2
    <3> QED
      BY <3>1, <3>2
  <2> HIDE DEF g
  <2>6. g = [i \in 0..m + 1 |-> g[i]]
    BY <2>3
  <2>7. Follows(g, m + 1, start, step)
    BY <2>5, <2>6 DEF Follows
  <2> QED
    BY <2>3, <2>7
<1>3. \A m \in Nat : m \in D => m + 1 \in D
  BY <1>2
<1>4. Nat \subseteq D
  <2> HIDE DEF D
  <2> QED
    BY <1>1, <1>3, Induction
<1> QED
  BY <1>4

-----------------------------------------------------------------------------
(* Division with remainder. *)

(* Quotient and remainder of a natural number. *)
LEMMA Division ==
  ASSUME NEW x \in Nat, NEW d \in Nat, d > 0
  PROVE  /\ x \div d \in Nat /\ x % d \in Nat /\ x % d < d
         /\ x = (x \div d) * d + (x % d)
BY SMT

(* The same of an integer. *)
LEMMA IntDivision ==
  ASSUME NEW x \in Int, NEW d \in Nat, d > 0
  PROVE  /\ x \div d \in Int /\ x % d \in Nat /\ x % d < d
         /\ x = (x \div d) * d + (x % d)
BY SMT

(* They are the only ones. *)
LEMMA IntDivisionIsUnique ==
  ASSUME NEW x \in Int, NEW d \in Nat, NEW q \in Int, NEW t \in Nat,
         t < d, x = q * d + t
  PROVE  x \div d = q /\ x % d = t
<1> DEFINE p == x \div d
           s == x % d
<1>2. p \in Int /\ s \in Nat /\ s < d /\ q * d + t = p * d + s
  BY IntDivision
<1> HIDE DEF p, s
<1>3. ~(p > q)
  <2>1. SUFFICES ASSUME p > q PROVE FALSE
    OBVIOUS
  <2>2. (p - (q + 1)) * d >= 0 /\ (p - (q + 1)) * d = p * d - (q * d + d)
    BY <1>2, <2>1
  <2> QED
    BY <1>2, <2>2
<1>4. ~(q > p)
  <2>1. SUFFICES ASSUME q > p PROVE FALSE
    OBVIOUS
  <2>2. (q - (p + 1)) * d >= 0 /\ (q - (p + 1)) * d = q * d - (p * d + d)
    BY <1>2, <2>1
  <2> QED
    BY <1>2, <2>2
<1>5. p = q
  BY <1>2, <1>3, <1>4
<1>6. s = t
  BY <1>2, <1>5
<1> QED
  BY <1>5, <1>6 DEF p, s

(* The same of natural numbers. *)
LEMMA DivisionIsUnique ==
  ASSUME NEW x \in Nat, NEW d \in Nat, NEW q \in Nat, NEW t \in Nat,
         t < d, x = q * d + t
  PROVE  x \div d = q /\ x % d = t
BY IntDivisionIsUnique

-----------------------------------------------------------------------------
(* Powers of two, which the provers know nothing of: they come from the size
   of the sets of subsets. *)
LEMMA PowerOfTwo == 2^0 = 1 /\ \A n \in Nat : 2^n \in Nat /\ 2^(n + 1) = 2 * 2^n
<1>1. \A n \in Nat : IsFiniteSet(1..n) /\ Cardinality(1..n) = n
  BY FS_Interval
<1>2. \A n \in Nat : /\ IsFiniteSet(SUBSET (1..n))
                     /\ Cardinality(SUBSET (1..n)) = 2^n
                     /\ Cardinality(SUBSET (1..n)) \in Nat
  <2> TAKE n \in Nat
  <2>1. IsFiniteSet(1..n) /\ Cardinality(1..n) = n
    BY <1>1
  <2> QED
    BY <2>1, FS_SUBSET, FS_CardinalityType
<1>3. 2^0 = 1
  <2>1. SUBSET (1..0) = {{}}
    OBVIOUS
  <2>2. Cardinality({{}}) = 1
    BY FS_Singleton
  <2>3. 0 \in Nat
    OBVIOUS
  <2> QED
    BY <2>1, <2>2, <2>3, <1>2
<1>4. ASSUME NEW n \in Nat PROVE 2^(n + 1) = 2 * 2^n
  <2> DEFINE S == SUBSET (1..n)
             with(A) == A \cup {n + 1}
             T == {with(A) : A \in S}
             f == [A \in S |-> with(A)]
  <2>1. SUBSET (1..n + 1) = S \cup T
    <3>1. ASSUME NEW A \in SUBSET (1..n + 1) PROVE A \in S \cup T
      <4>1. CASE n + 1 \in A
        <5>1. A \ {n + 1} \in S /\ A = with(A \ {n + 1})
          BY <4>1
        <5> QED
          BY <5>1
      <4>2. CASE n + 1 \notin A
        BY <4>2
      <4> QED
        BY <4>1, <4>2
    <3>2. ASSUME NEW A \in S \cup T PROVE A \in SUBSET (1..n + 1)
      OBVIOUS
    <3> QED
      BY <3>1, <3>2
  <2>2. S \cap T = {}
    OBVIOUS
  <2>3. f \in Bijection(S, T)
    <3>1. f \in [S -> T]
      OBVIOUS
    <3>2. ASSUME NEW A \in S, NEW C \in S, f[A] = f[C] PROVE A = C
      <4>1. A \cup {n + 1} = C \cup {n + 1} /\ n + 1 \notin A /\ n + 1 \notin C
        BY <3>2
      <4> QED
        BY <4>1
    <3>3. IsInjective(f)
      BY <3>1, <3>2 DEF IsInjective
    <3>4. \A t \in T : \E s \in S : f[s] = t
      OBVIOUS
    <3> QED
      BY <3>1, <3>3, <3>4 DEF Bijection, Injection, Surjection
  <2>4. IsFiniteSet(S) /\ Cardinality(S) = 2^n /\ Cardinality(S) \in Nat
    BY <1>2
  <2>5. IsFiniteSet(T) /\ Cardinality(T) = Cardinality(S)
    <3>1. ExistsBijection(S, T)
      BY <2>3 DEF ExistsBijection
    <3> HIDE DEF S, T
    <3> QED
      BY <3>1, <2>4, FS_Bijection
  <2>6. Cardinality(S \cup T) = Cardinality(S) + Cardinality(T) - Cardinality(S \cap T)
    <3> HIDE DEF S, T
    <3> QED
      BY <2>4, <2>5, FS_Union
  <2>7. Cardinality(S \cap T) = 0
    BY <2>2, FS_EmptySet
  <2>8. Cardinality(SUBSET (1..n + 1)) = 2^(n + 1)
    <3>1. n + 1 \in Nat
      OBVIOUS
    <3> QED
      BY <3>1, <1>2
  <2> HIDE DEF S, T, f
  <2>9. Cardinality(S \cup T) = 2 * Cardinality(S)
    BY <2>4, <2>5, <2>6, <2>7
  <2> QED
    BY <2>1, <2>4, <2>8, <2>9, Zenon
<1> QED
  BY <1>2, <1>3, <1>4

(* Powers of two grow faster than their exponents, and multiply as the
   exponents add up. *)
LEMMA PowersGrow ==
  /\ \A n \in Nat : 2^n \in Nat /\ 2^n >= 1 /\ 2^n > n
  /\ \A m, n \in Nat : 2^(m + n) = 2^m * 2^n
  /\ \A m, n \in Nat : m <= n => 2^m <= 2^n
<1>1. 2^0 = 1 /\ \A n \in Nat : 2^n \in Nat /\ 2^(n + 1) = 2 * 2^n
  BY PowerOfTwo
<1>2. \A n \in Nat : 2^n >= 1 /\ 2^n > n
  <2> DEFINE S == {n \in Nat : 2^n >= 1 /\ 2^n > n}
  <2>1. 0 \in S
    BY <1>1
  <2>2. \A n \in Nat : n \in S => n + 1 \in S
    BY <1>1
  <2> HIDE DEF S
  <2>3. Nat \subseteq S
    BY <2>1, <2>2, Induction
  <2> QED
    BY <2>3 DEF S
<1>3. ASSUME NEW m \in Nat PROVE \A n \in Nat : 2^(m + n) = 2^m * 2^n
  <2> DEFINE S == {n \in Nat : 2^(m + n) = 2^m * 2^n}
  <2>1. 0 \in S
    <3>1. m + 0 = m /\ 2^m \in Nat
      BY <1>1
    <3> QED
      BY <1>1, <3>1
  <2>2. ASSUME NEW n \in Nat, n \in S PROVE n + 1 \in S
    <3>1. m + (n + 1) = (m + n) + 1 /\ m + n \in Nat
      OBVIOUS
    <3>2. 2^((m + n) + 1) = 2 * 2^(m + n)
      BY <1>1, <3>1
    <3>3. 2^(m + n) = 2^m * 2^n /\ 2^m \in Nat /\ 2^n \in Nat /\ 2^(n + 1) = 2 * 2^n
      BY <1>1, <2>2
    <3>4. 2 * (2^m * 2^n) = 2^m * (2 * 2^n)
      BY <3>3
    <3> QED
      BY <3>1, <3>2, <3>3, <3>4
  <2> HIDE DEF S
  <2>3. Nat \subseteq S
    BY <2>1, <2>2, Induction
  <2> QED
    BY <2>3 DEF S
<1>4. ASSUME NEW m \in Nat, NEW n \in Nat, m <= n PROVE 2^m <= 2^n
  <2> DEFINE k == n - m
  <2>1. k \in Nat /\ n = m + k
    BY <1>4
  <2> HIDE DEF k
  <2>2. 2^n = 2^m * 2^k /\ 2^m \in Nat /\ 2^k \in Nat /\ 2^k >= 1
    BY <1>1, <1>2, <1>3, <2>1
  <2>3. 2^m * 2^k >= 2^m
    BY <2>2
  <2> QED
    BY <2>2, <2>3
<1> QED
  BY <1>1, <1>2, <1>3, <1>4

-----------------------------------------------------------------------------
(* The powers of B are natural numbers, and each is B times the one below. *)
LEMMA Powers ==
  /\ B \in Nat /\ B >= 2
  /\ B2 \in Nat /\ B2 = B * B /\ B2 > B
  /\ B3 \in Nat /\ B3 = B * B2 /\ B3 > B2
  /\ B4 \in Nat /\ B4 = B * B3 /\ B4 = B2 * B2 /\ B4 > B3
<1>1. B \in Nat /\ B >= 2
  BY ByteAssumption
<1>2. B2 \in Nat /\ B2 = B * B /\ B2 > B
  BY <1>1 DEF B2
<1>3. B3 \in Nat /\ B3 = B * B2 /\ B3 > B2
  BY <1>1, <1>2 DEF B3
<1>4. B4 \in Nat /\ B4 = B * B3 /\ B4 > B3
  BY <1>1, <1>2, <1>3 DEF B4
<1>5. B4 = B2 * B2
  BY <1>1, <1>2, <1>3, <1>4
<1> QED
  BY <1>1, <1>2, <1>3, <1>4, <1>5

-----------------------------------------------------------------------------
(* A coder between two symbols: a range of a byte's resolution, and, as long as
   every byte in the buffer is all ones, no room above the interval for a
   carry. *)
Coder == [base : 0..B4 - 1, range : B..B2 - 1, buffer : Seq(Byte), error : {OK, WRITE_BEYOND}]

NoRoomAbove(rc) == AllOnes(rc.buffer) => rc.base + rc.range * B2 <= B4

(* A symbol that its table leaves an interval for. *)
HasInterval(cdf, data) ==
  /\ cdf[data] \in Nat /\ cdf[data + 1] \in Nat
  /\ cdf[data] < cdf[data + 1] /\ cdf[data + 1] <= B2 - 1

(* The widths that a range and a symbol make. *)
Widths == B..B4 - 1

(* A normal range times a step of a table. *)
LEMMA WidthOfSymbol ==
  ASSUME NEW range \in B..B2 - 1, NEW low \in Nat, NEW high \in Nat,
         low < high, high <= B2 - 1
  PROVE  /\ range * (high - low) \in Widths
         /\ range * low \in Nat
         /\ range * low + range * (high - low) < range * B2
         /\ range * B2 < B4
<1>1. /\ range \in Nat /\ range >= B /\ range <= B2 - 1 /\ range >= 1
      /\ high - low \in Nat /\ high - low >= 1 /\ high - low <= B2 - 1
  BY Powers
<1>2. range * 1 <= range * (high - low)
  BY <1>1
<1>3. range * low + range * (high - low) = range * high /\ range * low \in Nat
  BY <1>1
<1>4. range * high <= range * (B2 - 1)
  BY <1>1, Powers
<1>5. range * (B2 - 1) = range * B2 - range /\ range * B2 \in Nat
  BY <1>1, Powers
<1>6. range * B2 <= (B2 - 1) * B2 /\ (B2 - 1) * B2 = B4 - B2
  BY <1>1, Powers
<1>7. range * high \in Nat /\ range * (high - low) \in Nat
  BY <1>1
<1> QED
  BY <1>1, <1>2, <1>3, <1>4, <1>5, <1>6, <1>7, Powers DEF Widths

(* The three cases of the normalization: what the range is, and that as many
   bytes as are let out do not make more of it than it was. *)
LEMMA Normalized ==
  ASSUME NEW width \in Widths
  PROVE  /\ Narrowed(width) \in B..B2 - 1
         /\ Normalization(width) \in 0..2
         /\ Normalization(width) = 0 => Narrowed(width) * B2 <= width
         /\ Normalization(width) = 1 => Narrowed(width) * B <= width
         /\ Normalization(width) = 2 => Narrowed(width) = width
<1>1. width \in Nat /\ width >= B /\ width < B4
  BY Powers DEF Widths
<1>2. CASE width >= B3
  <2> DEFINE q == width \div B2
             r == width % B2
  <2>1. q \in Nat /\ r \in Nat /\ r < B2 /\ width = q * B2 + r
    BY <1>1, Powers, Division
  <2>2. Narrowed(width) = q /\ Normalization(width) = 0
    BY <1>2 DEF Narrowed, Normalization
  <2> HIDE DEF q, r
  <2>3. q >= B
    <3>1. SUFFICES ASSUME q <= B - 1 PROVE FALSE
      BY <2>1, Powers
    <3>2. q * B2 <= (B - 1) * B2 /\ (B - 1) * B2 = B3 - B2
      BY <3>1, <2>1, Powers
    <3> QED
      BY <3>2, <2>1, <1>2, Powers
  <2>4. q < B2
    <3>1. SUFFICES ASSUME q >= B2 PROVE FALSE
      BY <2>1, Powers
    <3>2. q * B2 >= B2 * B2
      BY <3>1, <2>1, Powers
    <3> QED
      BY <3>2, <2>1, <1>1, Powers
  <2> QED
    BY <2>1, <2>2, <2>3, <2>4, Powers
<1>3. CASE width < B3 /\ width >= B2
  <2> DEFINE q == width \div B
             r == width % B
  <2>1. q \in Nat /\ r \in Nat /\ r < B /\ width = q * B + r
    BY <1>1, Powers, Division
  <2>2. Narrowed(width) = q /\ Normalization(width) = 1
    BY <1>1, <1>3, Powers DEF Narrowed, Normalization
  <2> HIDE DEF q, r
  <2>3. q >= B
    <3>1. SUFFICES ASSUME q <= B - 1 PROVE FALSE
      BY <2>1, Powers
    <3>2. q * B <= (B - 1) * B /\ (B - 1) * B = B2 - B
      BY <3>1, <2>1, Powers
    <3> QED
      BY <3>2, <2>1, <1>3, Powers
  <2>4. q < B2
    <3>1. SUFFICES ASSUME q >= B2 PROVE FALSE
      BY <2>1, Powers
    <3>2. q * B >= B2 * B /\ B2 * B = B3
      BY <3>1, <2>1, Powers
    <3> QED
      BY <3>2, <2>1, <1>3, Powers
  <2> QED
    BY <2>1, <2>2, <2>3, <2>4, Powers
<1>4. CASE width < B2
  BY <1>1, <1>4, Powers DEF Narrowed, Normalization
<1> QED
  BY <1>1, <1>2, <1>3, <1>4, Powers

-----------------------------------------------------------------------------
(* The bytes that are let out are bytes. *)
LEMMA HighBytes ==
  ASSUME NEW base \in 0..B4 - 1
  PROVE  base \div B3 \in Byte /\ (base \div B2) % B \in Byte
<1> DEFINE g == base \div B3
           h == base \div B2
<1>1. base \in Nat /\ base < B4
  BY Powers
<1>2. g \in Nat /\ base % B3 \in Nat /\ base = g * B3 + (base % B3)
  <2>1. B3 \in Nat /\ B3 > 0
    BY Powers
  <2> QED
    BY <2>1, <1>1, Division
<1>3. h \in Nat
  BY <1>1, Powers, Division
<1>4. h % B \in Nat /\ h % B < B
  <2>1. B \in Nat /\ B > 0
    BY Powers
  <2> HIDE DEF h
  <2> QED
    BY <2>1, <1>3, Division
<1> HIDE DEF g, h
<1>5. g < B
  <2>1. SUFFICES ASSUME g >= B PROVE FALSE
    BY <1>2, Powers
  <2>2. g * B3 >= B * B3
    BY <2>1, <1>2, Powers
  <2> QED
    BY <2>2, <1>1, <1>2, Powers
<1>6. g \in Byte /\ h % B \in Byte
  BY <1>2, <1>4, <1>5, Powers DEF Byte
<1> QED
  BY <1>6 DEF g, h

(* What letting bytes out does to the upper end of the interval: if all of them
   are all ones, and the interval ended within the base, it still does. *)
LEMMA ShiftKeepsEnd ==
  ASSUME NEW base \in 0..B4 - 1, NEW width \in Widths
  PROVE  LET n == Normalization(width) IN
         /\ ShiftedOut(base, n) \in 0..B4 - 1
         /\ TopBytes(base, n) \in Seq(Byte)
         /\ AllOnes(TopBytes(base, n)) /\ base + width <= B4 =>
              ShiftedOut(base, n) + Narrowed(width) * B2 <= B4
<1> DEFINE n == Normalization(width)
<1>1. base \in Nat /\ base < B4 /\ width \in Nat /\ Narrowed(width) \in Nat
  BY Normalized, Powers DEF Widths
<1>2. CASE n = 0
  BY <1>1, <1>2, Normalized, Powers DEF ShiftedOut, TopBytes
<1>3. CASE n = 1
  <2>1. ShiftedOut(base, n) = (base * B) % B4 /\ TopBytes(base, n) = <<base \div B3>>
    BY <1>3 DEF ShiftedOut, TopBytes
  <2>2. base * B \in Nat
    BY <1>1, Powers
  <2>3. (base * B) % B4 \in 0..B4 - 1
    BY <2>2, Powers, Division
  <2>4. base \div B3 \in Byte
    BY HighBytes
  <2>5. ASSUME AllOnes(TopBytes(base, n)), base + width <= B4
        PROVE  ((base * B) % B4) + Narrowed(width) * B2 <= B4
    <3> DEFINE t == base % B3
               q == Narrowed(width)
    <3>1. base \div B3 = B - 1
      BY <2>1, <2>5 DEF AllOnes
    <3>2. t \in Nat /\ t < B3 /\ base = (B - 1) * B3 + t
      BY <3>1, <1>1, Powers, Division
    <3>3. q * B <= width /\ q \in Nat
      BY <1>1, <1>3, Normalized
    <3> HIDE DEF t, q
    <3>4. base * B = (B - 1) * B4 + t * B
      BY <3>2, Powers
    <3>5. t * B \in Nat /\ t * B < B4
      BY <3>2, Powers
    <3>6. (base * B) % B4 = t * B
      <4>1. B - 1 \in Nat /\ B4 \in Nat
        BY Powers
      <4> QED
        BY <4>1, <3>4, <3>5, <2>2, DivisionIsUnique
    <3>7. t + q * B <= B3
      <4>1. (B - 1) * B3 = B4 - B3 /\ q * B \in Nat
        BY <3>3, Powers
      <4> QED
        BY <4>1, <3>2, <3>3, <2>5, <1>1, Powers
    <3>8. (t + q * B) * B <= B3 * B
      BY <3>7, <3>2, <3>3, Powers
    <3>9. (t + q * B) * B = t * B + q * B2 /\ B3 * B = B4
      BY <3>2, <3>3, Powers
    <3> QED
      BY <3>6, <3>8, <3>9 DEF q
  <2> QED
    BY <2>1, <2>3, <2>4, <2>5
<1>4. CASE n = 2
  <2>1. /\ ShiftedOut(base, n) = (base * B2) % B4
        /\ TopBytes(base, n) = <<base \div B3, (base \div B2) % B>>
    BY <1>4 DEF ShiftedOut, TopBytes
  <2>2. base * B2 \in Nat
    BY <1>1, Powers
  <2>3. (base * B2) % B4 \in 0..B4 - 1
    BY <2>2, Powers, Division
  <2>4. base \div B3 \in Byte /\ (base \div B2) % B \in Byte
    BY HighBytes
  <2>5. ASSUME AllOnes(TopBytes(base, n)), base + width <= B4
        PROVE  ((base * B2) % B4) + Narrowed(width) * B2 <= B4
    <3> DEFINE h == base \div B2
               t == base % B2
               u == base % B3
               g == h \div B
    <3>1. base \div B3 = B - 1 /\ h % B = B - 1
      BY <2>1, <2>5 DEF AllOnes
    <3>2. u \in Nat /\ u < B3 /\ base = (B - 1) * B3 + u
      BY <3>1, <1>1, Powers, Division
    <3>3. h \in Nat /\ t \in Nat /\ t < B2 /\ base = h * B2 + t
      <4>1. B2 \in Nat /\ B2 > 0
        BY Powers
      <4> QED
        BY <4>1, <1>1, Division
    <3>4. g \in Nat /\ h = g * B + (B - 1)
      BY <3>1, <3>3, Powers, Division
    <3> HIDE DEF h, t, u, g
    <3>5. base = g * B3 + ((B - 1) * B2 + t) /\ (B - 1) * B2 + t < B3
      BY <3>3, <3>4, Powers
    <3>6. g = B - 1
      <4>1. (B - 1) * B2 + t \in Nat
        BY <3>3, Powers
      <4>2. base \div B3 = g
        BY <1>1, <3>4, <3>5, <4>1, DivisionIsUnique, Powers
      <4> QED
        BY <3>1, <4>2
    <3>7. base = (B2 - 1) * B2 + t
      BY <3>3, <3>4, <3>6, Powers
    <3>8. base * B2 = (B2 - 1) * B4 + t * B2 /\ t * B2 \in Nat /\ t * B2 < B4
      BY <3>3, <3>7, Powers
    <3>9. (base * B2) % B4 = t * B2
      <4>1. B2 - 1 \in Nat /\ B4 \in Nat
        BY Powers
      <4> QED
        BY <4>1, <3>8, <2>2, DivisionIsUnique
    <3>10. t + width <= B2
      BY <3>7, <3>3, <2>5, <1>1, Powers
    <3>11. (t + width) * B2 <= B4 /\ (t + width) * B2 = t * B2 + width * B2
      BY <3>10, <3>3, <1>1, Powers
    <3> QED
      BY <3>9, <3>11, <1>4, Normalized
  <2> QED
    BY <2>1, <2>3, <2>4, <2>5
<1> QED
  BY <1>2, <1>3, <1>4, Normalized

(* Where a carry into bytes ends: at the last one that is not all ones, or
   before them all. *)
LEMMA CarryIs ==
  ASSUME NEW buffer \in Seq(Byte)
  PROVE  \E last \in 0..Len(buffer) :
           /\ last > 0 => buffer[last] # B - 1
           /\ last = 0 => AllOnes(buffer)
           /\ \A j \in last + 1..Len(buffer) : buffer[j] = B - 1
           /\ Carry(buffer) = [i \in 1..Len(buffer) |->
                IF i < last THEN buffer[i] ELSE IF i = last THEN buffer[i] + 1 ELSE 0]
<1> DEFINE ends(i) == /\ i > 0 => buffer[i] # B - 1
                      /\ \A j \in i + 1..Len(buffer) : buffer[j] = B - 1
           last == CHOOSE i \in 0..Len(buffer) : ends(i)
           ones == {i \in 0..Len(buffer) : \A j \in i + 1..Len(buffer) : buffer[j] = B - 1}
<1>1. Len(buffer) \in Nat
  OBVIOUS
<1>2. \E i \in 0..Len(buffer) : ends(i)
  <2>1. ones \in SUBSET Nat /\ Len(buffer) \in ones
    BY <1>1
  <2> HIDE DEF ones
  <2>2. PICK i \in ones : \A j \in ones : i <= j
    BY <2>1, LeastElement
  <2>3. i \in 0..Len(buffer) /\ \A j \in i + 1..Len(buffer) : buffer[j] = B - 1
    BY <2>2 DEF ones
  <2>4. ASSUME i > 0, buffer[i] = B - 1 PROVE FALSE
    <3>1. i - 1 \in ones
      BY <2>3, <2>4 DEF ones
    <3>2. i \in Nat /\ i <= i - 1
      BY <2>2, <2>1, <3>1
    <3> QED
      BY <3>2
  <2> QED
    BY <2>3, <2>4
<1>3. last \in 0..Len(buffer) /\ ends(last)
  BY <1>2
<1>4. Carry(buffer) = [i \in 1..Len(buffer) |->
                IF i < last THEN buffer[i] ELSE IF i = last THEN buffer[i] + 1 ELSE 0]
  BY DEF Carry
<1>5. last = 0 => AllOnes(buffer)
  BY <1>3 DEF AllOnes
<1> HIDE DEF last
<1> QED
  BY <1>3, <1>4, <1>5

(* The carry changes bytes, not their number. *)
LEMMA CarryKeepsBytes ==
  ASSUME NEW buffer \in Seq(Byte), ~AllOnes(buffer)
  PROVE  Carry(buffer) \in Seq(Byte) /\ Len(Carry(buffer)) = Len(buffer)
<1>1. PICK last \in 0..Len(buffer) :
           /\ last > 0 => buffer[last] # B - 1
           /\ last = 0 => AllOnes(buffer)
           /\ Carry(buffer) = [i \in 1..Len(buffer) |->
                IF i < last THEN buffer[i] ELSE IF i = last THEN buffer[i] + 1 ELSE 0]
  BY CarryIs
<1> DEFINE byte(i) == IF i < last THEN buffer[i] ELSE IF i = last THEN buffer[i] + 1 ELSE 0
<1>2. \A i \in 1..Len(buffer) : buffer[i] \in Byte
  OBVIOUS
<1>3. \A i \in 1..Len(buffer) : byte(i) \in Byte
  BY <1>1, <1>2, Powers DEF Byte
<1>4. Carry(buffer) = [i \in 1..Len(buffer) |-> byte(i)]
  BY <1>1
<1> HIDE DEF byte
<1>5. Carry(buffer) \in [1..Len(buffer) -> Byte]
  BY <1>3, <1>4
<1> QED
  BY <1>5

(* Two sequences are all ones if their concatenation is. *)
LEMMA OnesOfBoth ==
  ASSUME NEW s \in Seq(Byte), NEW t \in Seq(Byte), AllOnes(s \o t)
  PROVE  AllOnes(s) /\ AllOnes(t)
<1>1. Len(s) \in Nat /\ Len(t) \in Nat /\ Len(s \o t) = Len(s) + Len(t)
  OBVIOUS
<1>2. \A i \in 1..Len(s) : i \in 1..Len(s \o t) /\ s[i] = (s \o t)[i]
  BY <1>1
<1>3. \A i \in 1..Len(t) : Len(s) + i \in 1..Len(s \o t) /\ t[i] = (s \o t)[Len(s) + i]
  BY <1>1
<1> QED
  BY <1>2, <1>3 DEF AllOnes

-----------------------------------------------------------------------------
(* The invariant of an encoder. *)
Normal(rc) == rc \in Coder /\ (rc.error = OK => NoRoomAbove(rc))

(* An encoder starts without room for a carry (SKP_Silk_range_enc_init()). *)
LEMMA EncoderStartsNormal == Normal(RangeEncInit)
<1>1. RangeEncInit \in Coder
  BY Powers DEF RangeEncInit, Coder
<1>2. 0 + (B2 - 1) * B2 <= B4
  BY Powers
<1> QED
  BY <1>1, <1>2 DEF Normal, NoRoomAbove, RangeEncInit

(* The base after a symbol: where it carries there was room for a carry, and
   the interval ends within the base again. *)
LEMMA SumOfSymbol ==
  ASSUME NEW base \in Nat, base < B4, NEW low \in Nat, NEW width \in Nat, NEW room \in Nat,
         low + width < room, room < B4
  PROVE  /\ base + low \in Nat
         /\ (base + low) % B4 \in 0..B4 - 1
         /\ base + low >= B4 => /\ base + room > B4 /\ ((base + low) % B4) + width <= B4
                                /\ (base + low) % B4 = (base + low) - B4
         /\ base + low < B4  => (base + low) % B4 = base + low
<1> DEFINE sum == base + low
<1>1. sum \in Nat /\ B4 \in Nat /\ B4 > 0
  BY Powers
<1>2. sum % B4 \in 0..B4 - 1
  BY <1>1, Division
<1>3. ASSUME sum < B4 PROVE sum % B4 = sum
  <2>1. sum = 0 * B4 + sum
    BY <1>1
  <2> QED
    BY <2>1, <1>1, <1>3, DivisionIsUnique
<1>4. ASSUME sum >= B4 PROVE sum % B4 = sum - B4
  <2>1. sum = 1 * B4 + (sum - B4) /\ sum - B4 \in Nat /\ sum - B4 < B4
    BY <1>1, <1>4
  <2> QED
    BY <2>1, <1>1, DivisionIsUnique
<1> QED
  BY <1>1, <1>2, <1>3, <1>4

(* The coder after bytes were let out. *)
LEMMA WrittenIsNormal ==
  ASSUME NEW rc \in Coder, NEW base \in 0..B4 - 1, NEW range \in B..B2 - 1,
         NEW buffer \in Seq(Byte), NEW top \in Seq(Byte),
         AllOnes(buffer) /\ AllOnes(top) => base + range * B2 <= B4
  PROVE  Normal([rc EXCEPT !.base = base, !.range = range, !.buffer = buffer \o top])
<1>1. buffer \o top \in Seq(Byte)
  OBVIOUS
<1>2. AllOnes(buffer \o top) => base + range * B2 <= B4
  BY OnesOfBoth
<1> DEFINE s == buffer \o top
<1> HIDE DEF s
<1>3. [rc EXCEPT !.base = base, !.range = range, !.buffer = s] \in Coder
  BY <1>1 DEF Coder, s
<1>4. NoRoomAbove([rc EXCEPT !.base = base, !.range = range, !.buffer = s])
  BY <1>2 DEF NoRoomAbove, Coder, s
<1> QED
  BY <1>3, <1>4 DEF Normal, s

(* A symbol with an interval of its own in a normal coder that has no error:
   where its sum carries there is a byte to carry to. *)
LEMMA SymbolFits ==
  ASSUME NEW rc, Normal(rc), rc.error = OK, NEW cdf, NEW data, HasInterval(cdf, data)
  PROVE  LET low   == Low(rc, cdf, data)
             width == Width(rc, cdf, data)
             sum   == rc.base + low
         IN /\ low \in Nat /\ width \in Widths /\ width \in Nat
            /\ low + width < rc.range * B2 /\ rc.range * B2 < B4
            /\ sum \in Nat /\ sum % B4 \in 0..B4 - 1
            /\ sum >= B4 => /\ sum % B4 = sum - B4 /\ (sum % B4) + width <= B4
                            /\ ~AllOnes(rc.buffer)
            /\ sum < B4 => sum % B4 = sum
<1> DEFINE low    == Low(rc, cdf, data)
           sum    == rc.base + low
           width  == Width(rc, cdf, data)
<1>1. /\ rc.base \in Nat /\ rc.base < B4
      /\ rc.range \in B..B2 - 1 /\ rc.range * B2 \in Nat
  BY Powers DEF Normal, Coder
<1>2. AllOnes(rc.buffer) => rc.base + rc.range * B2 <= B4
  BY DEF Normal, NoRoomAbove
<1>3. /\ low \in Nat /\ width \in Widths /\ width \in Nat
      /\ low + width < rc.range * B2 /\ rc.range * B2 < B4
  <2>1. /\ cdf[data] \in Nat /\ cdf[data + 1] \in Nat
        /\ cdf[data] < cdf[data + 1] /\ cdf[data + 1] <= B2 - 1
    BY DEF HasInterval
  <2>2. /\ rc.range * (cdf[data + 1] - cdf[data]) \in Widths
        /\ rc.range * cdf[data] \in Nat
        /\ rc.range * cdf[data] + rc.range * (cdf[data + 1] - cdf[data]) < rc.range * B2
        /\ rc.range * B2 < B4
    BY <1>1, <2>1, WidthOfSymbol
  <2>3. rc.range * (cdf[data + 1] - cdf[data]) \in Nat
    BY <2>2, Powers DEF Widths
  <2> QED
    BY <2>2, <2>3 DEF Low, Width
<1> HIDE DEF low, width
<1>4. /\ sum \in Nat /\ sum % B4 \in 0..B4 - 1
      /\ sum >= B4 => /\ rc.base + rc.range * B2 > B4 /\ (sum % B4) + width <= B4
                      /\ sum % B4 = sum - B4
      /\ sum < B4 => sum % B4 = sum
  BY <1>1, <1>3, SumOfSymbol
<1>5. ~(sum >= B4 /\ AllOnes(rc.buffer))
  <2> DEFINE room == rc.range * B2
  <2>1. rc.base \in Nat /\ room \in Nat /\ B4 \in Nat
    BY <1>1, Powers
  <2>2. sum >= B4 => rc.base + room > B4
    BY <1>4
  <2>3. AllOnes(rc.buffer) => rc.base + room <= B4
    BY <1>2
  <2> HIDE DEF room, sum
  <2> QED
    BY <2>1, <2>2, <2>3
<1> QED
  BY <1>3, <1>4, <1>5 DEF low, width

(* Whatever symbols are encoded, from whatever tables that leave them an
   interval, the range keeps a byte of resolution and no carry leaves the
   buffer: the loop over --bufferIx_tmp in SKP_Silk_range_encoder() ends within
   it, for no other error than a full buffer is ever found. *)
THEOREM EncoderStaysNormal ==
  ASSUME NEW rc, Normal(rc), NEW cdf, NEW data, HasInterval(cdf, data)
  PROVE  Normal(RangeEncode(rc, cdf, data))
<1> DEFINE low    == Low(rc, cdf, data)
           sum    == rc.base + low
           width  == Width(rc, cdf, data)
           n      == Normalization(width)
           buffer == IF sum >= B4 THEN Carry(rc.buffer) ELSE rc.buffer
           base   == ShiftedOut(sum % B4, n)
           top    == TopBytes(sum % B4, n)
           full   == [rc EXCEPT !.buffer = buffer, !.error = WRITE_BEYOND]
           next   == [rc EXCEPT !.base = base, !.range = Narrowed(width),
                                !.buffer = buffer \o top]
<1>1. CASE rc.error # OK
  BY <1>1 DEF RangeEncode
<1>2. CASE rc.error = OK
  <2>1. /\ rc \in Coder
        /\ rc.base \in Nat /\ rc.base < B4
        /\ rc.range \in B..B2 - 1 /\ rc.range * B2 \in Nat
        /\ rc.buffer \in Seq(Byte)
    BY Powers DEF Normal, Coder
  <2>2. AllOnes(rc.buffer) => rc.base + rc.range * B2 <= B4
    BY <1>2 DEF Normal, NoRoomAbove
  <2>3. /\ low \in Nat /\ width \in Widths /\ width \in Nat
        /\ low + width < rc.range * B2 /\ rc.range * B2 < B4
        /\ sum \in Nat /\ sum % B4 \in 0..B4 - 1
        /\ sum >= B4 => (sum % B4) + width <= B4 /\ ~AllOnes(rc.buffer)
        /\ sum < B4 => sum % B4 = sum
    BY <1>2, SymbolFits
  <2>4. RangeEncode(rc, cdf, data) =
          IF sum >= B4 /\ AllOnes(rc.buffer) THEN [rc EXCEPT !.error = CARRY_LOST]
          ELSE IF Len(buffer) + n > MAX_ARITHM_BYTES THEN full ELSE next
    BY <1>2 DEF RangeEncode
  <2> HIDE DEF low, width
  <2>5. /\ sum \in Nat /\ sum % B4 \in 0..B4 - 1
        /\ sum >= B4 => (sum % B4) + width <= B4
        /\ sum < B4 => sum % B4 = sum
    BY <2>3
  <2>6. ~(sum >= B4 /\ AllOnes(rc.buffer))
    BY <2>3
  <2>7. buffer \in Seq(Byte)
    <3>1. sum >= B4 => Carry(rc.buffer) \in Seq(Byte)
      BY <2>1, <2>6, CarryKeepsBytes
    <3> QED
      BY <3>1, <2>1
  <2>8. AllOnes(buffer) => (sum % B4) + width <= B4
    <3>1. CASE sum >= B4
      BY <3>1, <2>5
    <3>2. CASE ~(sum >= B4)
      <4>1. buffer = rc.buffer
        BY <3>2
      <4>2. sum % B4 = sum
        BY <3>2, <2>5, Powers
      <4>3. AllOnes(rc.buffer) => sum + width <= B4
        <5> DEFINE room == rc.range * B2
        <5>1. /\ rc.base \in Nat /\ room \in Nat /\ low \in Nat /\ width \in Nat /\ B4 \in Nat
              /\ low + width < room
          BY <2>1, <2>3, Powers
        <5>2. AllOnes(rc.buffer) => rc.base + room <= B4
          BY <2>2
        <5> HIDE DEF room
        <5> QED
          BY <5>1, <5>2
      <4> QED
        BY <4>1, <4>2, <4>3
    <3> QED
      BY <3>1, <3>2
  <2>9. /\ base \in 0..B4 - 1
        /\ top \in Seq(Byte)
        /\ AllOnes(top) /\ (sum % B4) + width <= B4 => base + Narrowed(width) * B2 <= B4
    BY <2>3, <2>5, ShiftKeepsEnd
  <2>10. Narrowed(width) \in B..B2 - 1
    BY <2>3, Normalized
  <2>11. RangeEncode(rc, cdf, data) \in {full, next}
    BY <2>4, <2>6
  <2> HIDE DEF sum, base, top, buffer
  <2>12. Normal(full)
    BY <2>1, <2>7 DEF Normal, Coder, OK, WRITE_BEYOND
  <2>13. Normal(next)
    BY <2>1, <2>7, <2>8, <2>9, <2>10, WrittenIsNormal
  <2> QED
    BY <2>11, <2>12, <2>13
<1> QED
  BY <1>1, <1>2

-----------------------------------------------------------------------------
(* A decoder between two symbols. *)
Decoder == [base : Nat, range : B..B2 - 1, ix : Nat, length : Nat, buffer : Seq(Byte),
            error : {OK}]

(* What is decoded once an interval that holds the base has been found. *)
LEMMA DecodedIs ==
  ASSUME NEW rc \in Decoder, NEW cdf, NEW data, HasInterval(cdf, data),
         rc.range * cdf[data] <= rc.base, rc.base < rc.range * cdf[data + 1]
  PROVE  LET base  == rc.base - rc.range * cdf[data]
             width == rc.range * (cdf[data + 1] - cdf[data])
             n     == Normalization(width)
         IN /\ base \in Nat /\ base < width /\ width \in Widths /\ n \in 0..2
            /\ Narrowed(width) \in B..B2 - 1
            /\ Decoded(rc, cdf, data) =
                 [rc |-> Shifted([rc EXCEPT !.base = base, !.range = Narrowed(width)], n),
                  data |-> data]
<1> DEFINE base  == rc.base - rc.range * cdf[data]
           width == rc.range * (cdf[data + 1] - cdf[data])
           n     == Normalization(width)
<1>1. /\ rc.base \in Nat /\ rc.range \in Nat /\ rc.range \in B..B2 - 1
      /\ cdf[data] \in Nat /\ cdf[data + 1] \in Nat
  BY Powers DEF Decoder, HasInterval
<1>2. width \in Widths
  <2>1. cdf[data] < cdf[data + 1] /\ cdf[data + 1] <= B2 - 1
    BY DEF HasInterval
  <2> QED
    BY <1>1, <2>1, WidthOfSymbol
<1>3. width = rc.range * cdf[data + 1] - rc.range * cdf[data]
  BY <1>1
<1>4. base \in Nat /\ base < width
  BY <1>1, <1>3
<1>5. base < Limit(n) /\ n \in 0..2
  BY <1>2, <1>4, Powers DEF Limit, Normalization, Widths
<1>6. Narrowed(width) \in B..B2 - 1 /\ Narrowed(width) # 0
  BY <1>2, Normalized, Powers
<1>7. Decoded(rc, cdf, data) = Within(rc, data, base, width)
  BY DEF Decoded
<1> HIDE DEF base, width
<1>8. ~(base >= Limit(n))
  BY <1>4, <1>5, Powers DEF Limit
<1>9. Within(rc, data, base, width) =
        [rc |-> Shifted([rc EXCEPT !.base = base, !.range = Narrowed(width)], n), data |-> data]
  BY <1>6, <1>8 DEF Within
<1> QED
  BY <1>2, <1>4, <1>5, <1>6, <1>7, <1>9 DEF base, width

(* Once the search has found an interval that holds the base, the symbol is
   decoded: the errors RANGE_CODER_NORMALIZATION_FAILED and
   RANGE_CODER_ZERO_INTERVAL_WIDTH of SKP_Silk_range_decoder() cannot occur,
   whatever the payload, and the range keeps a byte of resolution. *)
THEOREM DecoderStaysNormal ==
  ASSUME NEW rc \in Decoder, NEW cdf, NEW data, HasInterval(cdf, data),
         rc.range * cdf[data] <= rc.base, rc.base < rc.range * cdf[data + 1]
  PROVE  LET d == Decoded(rc, cdf, data) IN
         d.data = data /\ d.rc.error = OK /\ d.rc.range \in B..B2 - 1
<1> DEFINE base  == rc.base - rc.range * cdf[data]
           width == rc.range * (cdf[data + 1] - cdf[data])
           n     == Normalization(width)
           next  == [rc EXCEPT !.base = base, !.range = Narrowed(width)]
<1>1. /\ n \in 0..2 /\ Narrowed(width) \in B..B2 - 1
      /\ Decoded(rc, cdf, data) = [rc |-> Shifted(next, n), data |-> data]
  BY DecodedIs
<1> HIDE DEF base, width
<1>2. next.error = OK /\ next.range = Narrowed(width)
  BY DEF Decoder
<1>3. Shifted(next, n).error = OK /\ Shifted(next, n).range = Narrowed(width)
  BY <1>1, <1>2 DEF Shifted, ReadByte, Decoder
<1> QED
  BY <1>1, <1>3

-----------------------------------------------------------------------------
(* The number that bytes make, the first one the highest: the values of their
   beginnings, and the value of all. *)
AreValues(v, s) ==
  /\ v \in [0..Len(s) -> Nat] /\ v[0] = 0
  /\ \A i \in 1..Len(s) : v[i] = v[i - 1] * B + s[i]

Values(s) == CHOOSE v : AreValues(v, s)
Value(s)  == Values(s)[Len(s)]

(* The value of a stream of bytes is defined for every stream. *)
LEMMA ValuesExist ==
  ASSUME NEW s \in Seq(Byte)
  PROVE  AreValues(Values(s), s)
<1> DEFINE step == [i \in 1..Len(s) |-> [x \in Nat |-> x * B + s[i]]]
<1>1. Len(s) \in Nat /\ \A i \in 1..Len(s) : s[i] \in Nat
  <2>1. \A x \in Byte : x \in Nat
    BY Powers DEF Byte
  <2>2. \A i \in 1..Len(s) : s[i] \in Byte
    OBVIOUS
  <2> QED
    BY <2>1, <2>2
<1>2. step \in [1..Len(s) -> [Nat -> Nat]]
  <2>1. ASSUME NEW i \in 1..Len(s) PROVE [x \in Nat |-> x * B + s[i]] \in [Nat -> Nat]
    <3>1. \A c, y \in Nat : \A x \in Nat : x * c + y \in Nat
      OBVIOUS
    <3>2. s[i] \in Nat /\ B \in Nat
      BY <1>1, Powers
    <3> QED
      BY <3>1, <3>2
  <2> QED
    BY <2>1
<1>3. \A i \in 1..Len(s) : \A x \in Nat : step[i][x] = x * B + s[i]
  OBVIOUS
<1> HIDE DEF step
<1>4. PICK v \in [0..Len(s) -> Nat] : Follows(v, Len(s), 0, step)
  BY <1>1, <1>2, Recursion
<1>5. \A i \in 0..Len(s) : v[i] = IF i = 0 THEN 0 ELSE step[i][v[i - 1]]
  BY <1>4 DEF Follows
<1>6. v[0] = 0
  BY <1>1, <1>5
<1>7. ASSUME NEW i \in 1..Len(s) PROVE v[i] = v[i - 1] * B + s[i]
  <2>1. i \in 0..Len(s) /\ i # 0 /\ i - 1 \in 0..Len(s)
    BY <1>1
  <2>2. v[i - 1] \in Nat /\ v[i] = step[i][v[i - 1]]
    BY <2>1, <1>5
  <2> QED
    BY <2>2, <1>3
<1>8. AreValues(v, s)
  BY <1>6, <1>7 DEF AreValues
<1> QED
  BY <1>8 DEF Values

(* The values of a beginning that two sequences share are the same. *)
LEMMA ValuesOfPrefix ==
  ASSUME NEW s \in Seq(Byte), NEW t \in Seq(Byte), NEW n \in Nat,
         n <= Len(s), n <= Len(t), \A i \in 1..n : s[i] = t[i]
  PROVE  \A i \in 0..n : Values(s)[i] = Values(t)[i]
<1> DEFINE S == {i \in 0..n : Values(s)[i] = Values(t)[i]}
<1>1. AreValues(Values(s), s) /\ AreValues(Values(t), t)
  BY ValuesExist
<1>2. 0 \in S
  BY <1>1 DEF AreValues
<1>3. ASSUME NEW i \in 0..n - 1, i \in S PROVE i + 1 \in S
  <2>1. i + 1 \in 1..n /\ i + 1 \in 1..Len(s) /\ i + 1 \in 1..Len(t) /\ (i + 1) - 1 = i
    OBVIOUS
  <2>2. Values(s)[i + 1] = Values(s)[i] * B + s[i + 1] /\ Values(t)[i + 1] = Values(t)[i] * B + t[i + 1]
    BY <1>1, <2>1 DEF AreValues
  <2> QED
    BY <1>3, <2>1, <2>2
<1> HIDE DEF S
<1>4. 0..n \subseteq S
  BY <1>2, <1>3, InductionUpTo
<1> QED
  BY <1>4 DEF S

(* One byte more. *)
LEMMA ValueOfAppend ==
  ASSUME NEW s \in Seq(Byte), NEW x \in Byte
  PROVE  s \o <<x>> \in Seq(Byte) /\ Value(s \o <<x>>) = Value(s) * B + x /\ Value(s) \in Nat
<1> DEFINE t == s \o <<x>>
           n == Len(s)
<1>1. n \in Nat /\ t \in Seq(Byte) /\ Len(t) = n + 1 /\ t[n + 1] = x /\ \A i \in 1..n : s[i] = t[i]
  OBVIOUS
<1> HIDE DEF t
<1>2. \A i \in 0..n : Values(s)[i] = Values(t)[i]
  BY <1>1, ValuesOfPrefix
<1>3. AreValues(Values(t), t) /\ AreValues(Values(s), s)
  BY <1>1, ValuesExist
<1>4. Values(t)[n + 1] = Values(t)[n] * B + x
  <2>1. n + 1 \in 1..Len(t) /\ (n + 1) - 1 = n
    BY <1>1
  <2> QED
    BY <1>1, <1>3, <2>1 DEF AreValues
<1>5. Values(t)[n] = Values(s)[n] /\ Values(s)[n] \in Nat
  BY <1>1, <1>2, <1>3 DEF AreValues
<1> QED
  BY <1>1, <1>4, <1>5 DEF Value, t

(* A carry adds one. *)
LEMMA ValueOfCarry ==
  ASSUME NEW s \in Seq(Byte), ~AllOnes(s)
  PROVE  Value(Carry(s)) = Value(s) + 1
<1> DEFINE t == Carry(s)
           v == Values(s)
           u == Values(t)
<1>1. PICK last \in 0..Len(s) :
           /\ last > 0 => s[last] # B - 1
           /\ last = 0 => AllOnes(s)
           /\ \A j \in last + 1..Len(s) : s[j] = B - 1
           /\ t = [i \in 1..Len(s) |->
                IF i < last THEN s[i] ELSE IF i = last THEN s[i] + 1 ELSE 0]
  BY CarryIs
<1>2. t \in Seq(Byte) /\ Len(t) = Len(s) /\ Len(s) \in Nat
  BY CarryKeepsBytes
<1>3. last \in 1..Len(s)
  BY <1>1, <1>2
<1>4. AreValues(v, s) /\ AreValues(u, t)
  BY <1>2, ValuesExist
<1> DEFINE S == {i \in 0..Len(s) : u[i] = v[i] + (IF i < last THEN 0 ELSE 1)}
<1>5. 0 \in S
  BY <1>2, <1>3, <1>4 DEF AreValues
<1>6. ASSUME NEW i \in 0..Len(s) - 1, i \in S PROVE i + 1 \in S
  <2>1. i + 1 \in 1..Len(s) /\ (i + 1) - 1 = i /\ i \in 0..Len(s)
    BY <1>2
  <2>2. /\ v[i + 1] = v[i] * B + s[i + 1] /\ u[i + 1] = u[i] * B + t[i + 1]
        /\ v[i] \in Nat /\ u[i] \in Nat
    BY <1>2, <1>4, <2>1 DEF AreValues
  <2>3. s[i + 1] \in Nat
    BY <2>1, Powers DEF Byte
  <2>4. CASE i + 1 < last
    <3>1. t[i + 1] = s[i + 1] /\ u[i] = v[i]
      BY <1>1, <1>6, <2>1, <2>2, <2>4
    <3> QED
      BY <3>1, <2>1, <2>2, <2>3, <2>4, Powers
  <2>5. CASE i + 1 = last
    <3>1. t[i + 1] = s[i + 1] + 1 /\ u[i] = v[i]
      BY <1>1, <1>6, <2>1, <2>2, <2>5
    <3>2. v[i] * B \in Nat
      BY <2>2, Powers
    <3>3. u[i + 1] = v[i + 1] + 1
      BY <3>1, <3>2, <2>2, <2>3
    <3> QED
      BY <3>3, <2>1, <2>5
  <2>6. CASE i + 1 > last
    <3>1. t[i + 1] = 0 /\ s[i + 1] = B - 1 /\ u[i] = v[i] + 1
      <4>1. i + 1 \in last + 1..Len(s) /\ i + 1 \in 1..Len(s)
            /\ ~(i + 1 < last) /\ ~(i + 1 = last) /\ ~(i < last)
        BY <1>3, <2>1, <2>6
      <4>2. s[i + 1] = B - 1 /\ t[i + 1] = 0
        BY <1>1, <4>1
      <4>3. u[i] = v[i] + 1
        BY <1>6, <4>1
      <4> QED
        BY <4>2, <4>3
    <3>2. v[i] * B \in Nat /\ (v[i] + 1) * B = v[i] * B + B
      BY <2>2, Powers
    <3>3. u[i + 1] = v[i] * B + B /\ v[i + 1] = v[i] * B + (B - 1)
      <4>1. v[i] * B + B \in Nat /\ (v[i] * B + B) + 0 = v[i] * B + B
        BY <3>2, Powers
      <4> QED
        BY <4>1, <3>1, <3>2, <2>2
    <3> HIDE DEF u, v
    <3>4. u[i + 1] = v[i + 1] + 1
      BY <3>2, <3>3, Powers
    <3>5. ~(i + 1 < last)
      BY <1>3, <2>6
    <3> QED
      BY <3>4, <3>5, <2>1
  <2> QED
    BY <2>1, <2>4, <2>5, <2>6
<1> HIDE DEF S
<1>7. 0..Len(s) \subseteq S
  BY <1>2, <1>5, <1>6, InductionUpTo
<1>8. Len(s) \in S
  BY <1>2, <1>7
<1> QED
  BY <1>2, <1>3, <1>8 DEF Value, S

(* A value of a beginning is one of bytes: later values are it, shifted, and a
   remainder. *)
LEMMA ValuesBetween ==
  ASSUME NEW s \in Seq(Byte), NEW k \in Nat, k < Len(s)
  PROVE  /\ Values(s)[k] \in Nat /\ Values(s)[k + 1] \in Nat
         /\ Values(s)[k + 1] = Values(s)[k] * B + s[k + 1]
         /\ s[k + 1] \in Byte
<1>1. AreValues(Values(s), s)
  BY ValuesExist
<1>2. Len(s) \in Nat /\ k \in 0..Len(s) /\ k + 1 \in 0..Len(s) /\ k + 1 \in 1..Len(s) /\ (k + 1) - 1 = k
  OBVIOUS
<1> QED
  BY <1>1, <1>2 DEF AreValues

-----------------------------------------------------------------------------
(* n bytes to the left. *)
Scale(n) == IF n = 0 THEN 1 ELSE IF n = 1 THEN B ELSE B2

(* The lower end of the interval of an encoder: its bytes and its base, as one
   number. *)
Lower(rc) == Value(rc.buffer) * B4 + rc.base

(* What is let out of the base, and what stays in it. *)
LEMMA ShiftedOutIs ==
  ASSUME NEW base \in 0..B4 - 1
  PROVE  /\ base * B = (base \div B3) * B4 + ShiftedOut(base, 1)
         /\ base * B2 = ((base \div B3) * B + ((base \div B2) % B)) * B4 + ShiftedOut(base, 2)
<1> DEFINE g == base \div B3
           r == base % B3
           h == base \div B2
           t == base % B2
           k == h % B
<1>1. base \in Nat /\ base * B \in Nat /\ base * B2 \in Nat
  BY Powers
<1>2. g \in Nat /\ r \in Nat /\ r < B3 /\ base = g * B3 + r
  <2>1. B3 \in Nat /\ B3 > 0
    BY Powers
  <2> QED
    BY <2>1, <1>1, Division
<1>3. h \in Nat /\ t \in Nat /\ t < B2 /\ base = h * B2 + t
  <2>1. B2 \in Nat /\ B2 > 0
    BY Powers
  <2> QED
    BY <2>1, <1>1, Division
<1>4. k \in Nat /\ k < B /\ h = (h \div B) * B + k /\ h \div B \in Nat
  <2>1. B \in Nat /\ B > 0
    BY Powers
  <2> HIDE DEF h
  <2> QED
    BY <2>1, <1>3, Division
<1>5. ShiftedOut(base, 1) = (base * B) % B4 /\ ShiftedOut(base, 2) = (base * B2) % B4
  BY DEF ShiftedOut
<1> DEFINE q == h \div B
<1> HIDE DEF g, r, h, t, k
<1>6. q \in Nat /\ h = q * B + k
  BY <1>4
<1> HIDE DEF q
<1>7. base * B = g * B4 + r * B /\ r * B \in Nat /\ r * B < B4
  BY <1>2, Powers
<1>8. (base * B) % B4 = r * B
  <2>1. B4 \in Nat
    BY Powers
  <2> QED
    BY <2>1, <1>1, <1>2, <1>7, DivisionIsUnique
<1>9. base = q * B3 + (k * B2 + t) /\ k * B2 + t \in Nat /\ k * B2 + t < B3
  <2>1. h * B2 = q * B3 + k * B2
    BY <1>4, <1>6, Powers
  <2>2. k * B2 <= (B - 1) * B2 /\ (B - 1) * B2 = B3 - B2 /\ k * B2 \in Nat
    BY <1>4, Powers
  <2>3. q * B3 \in Nat
    BY <1>6, Powers
  <2> QED
    BY <2>1, <2>2, <2>3, <1>3, Powers
<1>10. q = g
  <2>1. B3 \in Nat
    BY Powers
  <2>2. base \div B3 = q
    BY <2>1, <1>1, <1>6, <1>9, DivisionIsUnique
  <2> QED
    BY <2>2 DEF g
<1>11. base * B2 = h * B4 + t * B2 /\ t * B2 \in Nat /\ t * B2 < B4
  BY <1>3, Powers
<1>12. (base * B2) % B4 = t * B2
  <2>1. B4 \in Nat
    BY Powers
  <2> QED
    BY <2>1, <1>1, <1>3, <1>11, DivisionIsUnique
<1>13. base * B = g * B4 + ShiftedOut(base, 1)
  BY <1>5, <1>7, <1>8
<1>14. base * B2 = (g * B + k) * B4 + ShiftedOut(base, 2)
  BY <1>5, <1>6, <1>10, <1>11, <1>12
<1> QED
  BY <1>13, <1>14 DEF g, k, h

(* Letting bytes out shifts the number that the coder stands for. *)
LEMMA LetOut ==
  ASSUME NEW buffer \in Seq(Byte), NEW base \in 0..B4 - 1, NEW n \in 0..2
  PROVE  /\ Value(buffer \o TopBytes(base, n)) * B4 + ShiftedOut(base, n)
              = (Value(buffer) * B4 + base) * Scale(n)
         /\ Len(buffer \o TopBytes(base, n)) = Len(buffer) + n
<1> DEFINE g    == base \div B3
           k    == (base \div B2) % B
           v    == Value(buffer)
           one  == ShiftedOut(base, 1)
           two  == ShiftedOut(base, 2)
           more == buffer \o <<g>>
<1>1. g \in Byte /\ k \in Byte /\ g \in Nat /\ k \in Nat
  <2>1. g \in Byte /\ k \in Byte
    BY HighBytes
  <2> HIDE DEF g, k
  <2> QED
    BY <2>1, Powers DEF Byte
<1>2. base * B = g * B4 + one /\ base * B2 = (g * B + k) * B4 + two
  BY ShiftedOutIs
<1>3. base \in Nat /\ one \in Int /\ two \in Int
  BY Powers DEF ShiftedOut
<1>4. TopBytes(base, 0) = <<>> /\ TopBytes(base, 1) = <<g>> /\ TopBytes(base, 2) = <<g, k>>
  BY DEF TopBytes
<1>5. Scale(0) = 1 /\ Scale(1) = B /\ Scale(2) = B2 /\ ShiftedOut(base, 0) = base
  BY DEF Scale, ShiftedOut
<1> HIDE DEF g, k
<1>6. v \in Nat /\ more \in Seq(Byte) /\ Value(more) = v * B + g
  BY <1>1, ValueOfAppend
<1>7. Value(more \o <<k>>) = Value(more) * B + k
  <2> HIDE DEF more
  <2> QED
    BY <1>1, <1>6, ValueOfAppend
<1>8. more \o <<k>> = buffer \o <<g, k>>
  <2> DEFINE s == more \o <<k>>
             t == buffer \o <<g, k>>
  <2>1. s \in Seq(Byte) /\ t \in Seq(Byte) /\ Len(s) = Len(buffer) + 2 /\ Len(t) = Len(buffer) + 2
    BY <1>1
  <2>2. \A i \in 1..Len(buffer) + 2 : s[i] = t[i]
    <3> TAKE i \in 1..Len(buffer) + 2
    <3>1. i \in 1..Len(buffer) \/ i = Len(buffer) + 1 \/ i = Len(buffer) + 2
      OBVIOUS
    <3> QED
      BY <1>1, <3>1
  <2> HIDE DEF s, t
  <2>3. s = t
    BY <2>1, <2>2
  <2> QED
    BY <2>3 DEF s, t
<1>9. buffer \o <<>> = buffer /\ Len(buffer) \in Nat /\ Len(buffer \o <<g>>) = Len(buffer) + 1
      /\ Len(buffer \o <<g, k>>) = Len(buffer) + 2
  OBVIOUS
<1>10. CASE n = 0
  <2>1. (v * B4 + base) * 1 = v * B4 + base
    <3> HIDE DEF v
    <3> QED
      BY <1>3, <1>6, Powers
  <2>2. buffer \o TopBytes(base, n) = buffer /\ ShiftedOut(base, n) = base /\ Scale(n) = 1
    BY <1>4, <1>5, <1>9, <1>10
  <2>3. Len(buffer) = Len(buffer) + n
    BY <1>9, <1>10
  <2> QED
    BY <2>1, <2>2, <2>3
<1>11. CASE n = 1
  <2>1. (v * B + g) * B4 + one = (v * B4 + base) * B
    <3> HIDE DEF v, one
    <3>1. (v * B4 + base) * B = (v * B) * B4 + base * B
      BY <1>3, <1>6, Powers
    <3>2. (v * B + g) * B4 = (v * B) * B4 + g * B4
      BY <1>1, <1>6, Powers
    <3>3. (v * B) * B4 \in Nat /\ g * B4 \in Nat
      BY <1>1, <1>6, Powers
    <3> QED
      BY <3>1, <3>2, <3>3, <1>2, <1>3
  <2> QED
    BY <2>1, <1>4, <1>5, <1>6, <1>9, <1>11
<1>12. CASE n = 2
  <2>1. ((v * B + g) * B + k) * B4 + two = (v * B4 + base) * B2
    <3> HIDE DEF v, two
    <3>1. (v * B4 + base) * B2 = (v * B2) * B4 + base * B2
      BY <1>3, <1>6, Powers
    <3>2. ((v * B + g) * B + k) * B4 = (v * B2) * B4 + (g * B + k) * B4
      BY <1>1, <1>6, Powers
    <3>3. (v * B2) * B4 \in Nat /\ (g * B + k) * B4 \in Nat
      BY <1>1, <1>6, Powers
    <3> QED
      BY <3>1, <3>2, <3>3, <1>2, <1>3
  <2> QED
    BY <2>1, <1>4, <1>5, <1>6, <1>7, <1>8, <1>9, <1>12
<1> QED
  BY <1>10, <1>11, <1>12

(* What the parts of a normal encoder are. *)
LEMMA NormalTypes ==
  ASSUME NEW e, Normal(e)
  PROVE  /\ e.buffer \in Seq(Byte) /\ Len(e.buffer) \in Nat /\ Value(e.buffer) \in Nat
         /\ e.base \in 0..B4 - 1 /\ e.base \in Nat
         /\ e.range \in B..B2 - 1 /\ e.range \in Nat /\ e.range * B2 \in Nat
         /\ Lower(e) \in Nat
<1>1. e.buffer \in Seq(Byte) /\ e.base \in 0..B4 - 1 /\ e.range \in B..B2 - 1
  BY DEF Normal, Coder
<1>2. e.base \in Nat /\ e.range \in Nat
  BY <1>1, Powers
<1>3. 0 \in Byte
  BY Powers DEF Byte
<1>4. Value(e.buffer) \in Nat
  BY <1>1, <1>3, ValueOfAppend
<1>5. e.range * B2 \in Nat
  BY <1>2, Powers
<1>6. Lower(e) \in Nat
  BY <1>2, <1>4, Powers DEF Lower
<1>7. Len(e.buffer) \in Nat
  BY <1>1
<1> QED
  BY <1>1, <1>2, <1>4, <1>5, <1>6, <1>7

(* A symbol moves the lower end of the interval to that of its own, and both
   are shifted. *)
LEMMA EncodeMoves ==
  ASSUME NEW rc, Normal(rc), NEW cdf, NEW data, HasInterval(cdf, data),
         RangeEncode(rc, cdf, data).error = OK
  PROVE  LET next == RangeEncode(rc, cdf, data)
             n    == Normalization(Width(rc, cdf, data))
         IN /\ rc.error = OK
            /\ next.range = Narrowed(Width(rc, cdf, data))
            /\ Len(next.buffer) = Len(rc.buffer) + n
            /\ Lower(next) = (Lower(rc) + Low(rc, cdf, data)) * Scale(n)
<1> DEFINE low    == Low(rc, cdf, data)
           sum    == rc.base + low
           width  == Width(rc, cdf, data)
           n      == Normalization(width)
           buffer == IF sum >= B4 THEN Carry(rc.buffer) ELSE rc.buffer
           base   == sum % B4
           full   == [rc EXCEPT !.buffer = buffer, !.error = WRITE_BEYOND]
           next   == [rc EXCEPT !.base = ShiftedOut(base, n), !.range = Narrowed(width),
                                !.buffer = buffer \o TopBytes(base, n)]
<1>1. rc.error = OK
  BY DEF RangeEncode
<1>2. /\ low \in Nat /\ width \in Widths /\ width \in Nat
      /\ sum \in Nat /\ base \in 0..B4 - 1
      /\ sum >= B4 => base = sum - B4 /\ ~AllOnes(rc.buffer)
      /\ sum < B4 => base = sum
  BY <1>1, SymbolFits
<1>3. /\ rc \in Coder /\ rc.buffer \in Seq(Byte) /\ rc.base \in Nat
      /\ Value(rc.buffer) \in Nat
  BY NormalTypes DEF Normal
<1>4. RangeEncode(rc, cdf, data) = IF Len(buffer) + n > MAX_ARITHM_BYTES THEN full ELSE next
  BY <1>1, <1>2 DEF RangeEncode
<1>5. n \in 0..2
  BY <1>2, Normalized
<1> HIDE DEF low, width, n
<1>6. full.error = WRITE_BEYOND
  BY <1>3 DEF Coder
<1>7. RangeEncode(rc, cdf, data) = next
  BY <1>4, <1>6 DEF OK, WRITE_BEYOND
<1>8. /\ buffer \in Seq(Byte) /\ Len(buffer) = Len(rc.buffer)
      /\ Value(buffer) * B4 + base = (Value(rc.buffer) * B4 + rc.base) + low
  <2>1. CASE sum >= B4
    <3>1. /\ Carry(rc.buffer) \in Seq(Byte) /\ Len(Carry(rc.buffer)) = Len(rc.buffer)
          /\ Value(Carry(rc.buffer)) = Value(rc.buffer) + 1
      BY <2>1, <1>2, <1>3, CarryKeepsBytes, ValueOfCarry
    <3>2. base = sum - B4
      BY <2>1, <1>2
    <3>3. buffer = Carry(rc.buffer)
      BY <2>1
    <3>4. (Value(rc.buffer) + 1) * B4 = Value(rc.buffer) * B4 + B4 /\ Value(rc.buffer) * B4 \in Nat
      BY <1>3, Powers
    <3>5. Value(buffer) * B4 + base = (Value(rc.buffer) * B4 + B4) + (sum - B4)
      BY <3>1, <3>2, <3>3, <3>4
    <3>6. sum = rc.base + low /\ sum \in Nat
      BY <1>2
    <3> HIDE DEF buffer, base, sum
    <3>7. Value(buffer) * B4 + base = (Value(rc.buffer) * B4 + rc.base) + low
      <4> DEFINE v == Value(rc.buffer) * B4
                 u == Value(buffer) * B4 + base
      <4>1. v \in Nat /\ u = (v + B4) + (sum - B4)
        BY <3>4, <3>5
      <4>2. B4 \in Int /\ rc.base \in Int /\ low \in Int
        BY <1>2, <1>3, Powers
      <4> HIDE DEF u, v
      <4>3. u = (v + rc.base) + low
        BY <4>1, <4>2, <3>6
      <4> QED
        BY <4>3 DEF u, v
    <3> QED
      BY <3>1, <3>3, <3>7
  <2>2. CASE ~(sum >= B4)
    <3>1. sum < B4
      BY <2>2, <1>2, Powers
    <3>2. base = sum /\ buffer = rc.buffer
      BY <3>1, <2>2, <1>2
    <3>3. Value(rc.buffer) * B4 \in Nat
      BY <1>3, Powers
    <3> HIDE DEF buffer, base
    <3> QED
      BY <3>2, <3>3, <1>2, <1>3
  <2> QED
    BY <2>1, <2>2
<1> HIDE DEF buffer, base, sum
<1>9. /\ Value(buffer \o TopBytes(base, n)) * B4 + ShiftedOut(base, n)
           = (Value(buffer) * B4 + base) * Scale(n)
      /\ Len(buffer \o TopBytes(base, n)) = Len(buffer) + n
  BY <1>2, <1>5, <1>8, LetOut
<1>10. /\ next.base = ShiftedOut(base, n) /\ next.range = Narrowed(width)
       /\ next.buffer = buffer \o TopBytes(base, n)
  BY <1>3 DEF Coder
<1> HIDE DEF next, full
<1> QED
  BY <1>1, <1>7, <1>8, <1>9, <1>10 DEF Lower, low, width, n

-----------------------------------------------------------------------------
(* A symbol that is found again: its table has an entry for every symbol, and
   those up to it do not decrease beyond its own. *)
Codeable(cdf, data) ==
  /\ \E m \in Nat : DOMAIN cdf = 0..m /\ data \in 0..m - 1
  /\ \A j \in 0..data : cdf[j] \in Nat /\ cdf[j] <= cdf[data]
  /\ HasInterval(cdf, data)

(* The search of the decoder ends at the symbol whose interval holds its base. *)
LEMMA SymbolIsFound ==
  ASSUME NEW rc, rc.range \in Nat, rc.base \in Nat, NEW cdf, NEW data, Codeable(cdf, data),
         rc.range * cdf[data] <= rc.base, rc.base < rc.range * cdf[data + 1]
  PROVE  Found(rc, cdf) = data + 1
<1> DEFINE R == rc.range
           x == rc.base
           above(i) == x < R * cdf[i] /\ \A j \in 0..i - 1 : R * cdf[j] <= x
<1>1. PICK m \in Nat : DOMAIN cdf = 0..m /\ data \in 0..m - 1
  BY DEF Codeable
<1>2. \A j \in 0..data : cdf[j] \in Nat /\ cdf[j] <= cdf[data]
  BY DEF Codeable
<1>3. cdf[data + 1] \in Nat
  BY DEF Codeable, HasInterval
<1>4. data + 1 \in DOMAIN cdf /\ data \in 0..data /\ data \in Nat
  BY <1>1
<1>5. \A j \in 0..data : R * cdf[j] <= x
  <2> TAKE j \in 0..data
  <2>1. cdf[j] \in Nat /\ cdf[data] \in Nat /\ cdf[j] <= cdf[data]
    BY <1>2, <1>4
  <2>2. \A p, q, r \in Nat : p <= q => r * p <= r * q
    BY SMT
  <2>3. R * cdf[j] <= R * cdf[data]
    BY <2>1, <2>2
  <2>4. R * cdf[j] \in Nat /\ R * cdf[data] \in Nat
    BY <2>1
  <2> QED
    BY <2>3, <2>4
<1>6. above(data + 1)
  BY <1>4, <1>5
<1>7. ASSUME NEW i \in DOMAIN cdf, above(i) PROVE i = data + 1
  <2>1. i \in Nat
    BY <1>1
  <2>2. ~(i <= data)
    <3>1. SUFFICES ASSUME i <= data PROVE FALSE
      OBVIOUS
    <3>2. i \in 0..data
      BY <2>1, <3>1, <1>4
    <3>3. R * cdf[i] \in Nat
      BY <3>2, <1>2
    <3> QED
      BY <3>2, <3>3, <1>5, <1>7
  <2>3. ~(i > data + 1)
    <3>1. SUFFICES ASSUME i > data + 1 PROVE FALSE
      OBVIOUS
    <3>2. data + 1 \in 0..i - 1
      BY <2>1, <3>1, <1>4
    <3>3. R * cdf[data + 1] \in Nat
      BY <1>3
    <3> QED
      BY <3>2, <3>3, <1>7
  <2> QED
    BY <2>1, <2>2, <2>3, <1>4
<1>8. Found(rc, cdf) = CHOOSE i \in DOMAIN cdf : above(i)
  BY DEF Found
<1> HIDE DEF above
<1> QED
  BY <1>4, <1>6, <1>7, <1>8

(* A decoder that has as many bytes before it as it reads: its base takes them
   in. *)
LEMMA ReadMoves ==
  ASSUME NEW d \in Decoder, Len(d.buffer) = d.length + 4,
         NEW n \in 0..2, d.ix + n <= d.length
  PROVE  LET T    == Values(d.buffer)
             tail == T[d.ix + n + 4] - T[d.ix + 4] * Scale(n)
         IN /\ Shifted(d, n) = [d EXCEPT !.base = d.base * Scale(n) + tail, !.ix = d.ix + n]
            /\ T[d.ix + n + 4] \in Nat /\ T[d.ix + 4] \in Nat
            /\ tail \in 0..Scale(n) - 1
<1> DEFINE T == Values(d.buffer)
           s == d.buffer
           x == T[d.ix + 4]
           p == s[d.ix + 5]
           q == s[d.ix + 6]
<1>1. /\ s \in Seq(Byte) /\ d.ix \in Nat /\ d.length \in Nat /\ d.base \in Nat
      /\ Len(s) \in Nat /\ Len(s) = d.length + 4
  BY DEF Decoder
<1>2. \A k \in Nat : k < Len(s) => /\ T[k] \in Nat /\ T[k + 1] \in Nat
                                  /\ T[k + 1] = T[k] * B + s[k + 1]
                                  /\ s[k + 1] \in Byte
  BY <1>1, ValuesBetween
<1>3. \A y \in Byte : y \in Nat /\ y < B
  BY Powers DEF Byte
<1>4. ASSUME n >= 1
      PROVE  /\ x \in Nat /\ p \in Byte /\ T[d.ix + 5] = x * B + p /\ T[d.ix + 5] \in Nat
             /\ ReadByte(d) = [d EXCEPT !.base = d.base * B + p, !.ix = d.ix + 1]
  <2>1. d.ix + 4 \in Nat /\ d.ix + 4 < Len(s) /\ (d.ix + 4) + 1 = d.ix + 5 /\ d.ix < d.length
    BY <1>1, <1>4
  <2>2. x \in Nat /\ p \in Byte /\ T[d.ix + 5] = x * B + p /\ T[d.ix + 5] \in Nat
    BY <1>2, <2>1
  <2>3. ReadByte(d) = [d EXCEPT !.base = d.base * B + p, !.ix = d.ix + 1]
    BY <2>1 DEF ReadByte
  <2> QED
    BY <2>2, <2>3
<1>5. x \in Nat
  <2>1. d.ix + 3 \in Nat /\ d.ix + 3 < Len(s) /\ (d.ix + 3) + 1 = d.ix + 4
    BY <1>1
  <2> QED
    BY <1>2, <2>1
<1>6. Scale(0) = 1 /\ Scale(1) = B /\ Scale(2) = B2
  BY DEF Scale
<1>7. CASE n = 0
  <2>1. Shifted(d, 0) = [d EXCEPT !.base = d.base, !.ix = d.ix]
    <3>1. Shifted(d, 0) = d
      BY DEF Shifted
    <3>2. d = [d EXCEPT !.base = d.base, !.ix = d.ix]
      BY DEF Decoder
    <3> QED
      BY <3>1, <3>2
  <2>2. d.ix + 0 + 4 = d.ix + 4 /\ d.ix + 0 = d.ix
    BY <1>1
  <2>3. T[d.ix + 4] - x * 1 = 0 /\ d.base * 1 + 0 = d.base /\ 0 \in 0..1 - 1
    <3> HIDE DEF T
    <3> QED
      BY <1>1, <1>5
  <2> HIDE DEF T
  <2>4. Shifted(d, 0) = [d EXCEPT !.base = d.base * 1 + (T[d.ix + 4] - x * 1), !.ix = d.ix]
    BY <2>1, <2>3
  <2> QED
    BY <2>2, <2>3, <2>4, <1>5, <1>6, <1>7 DEF T
<1>8. CASE n = 1
  <2>1. Shifted(d, 1) = [d EXCEPT !.base = d.base * B + p, !.ix = d.ix + 1]
    BY <1>4, <1>8 DEF Shifted
  <2>2. d.ix + 1 + 4 = d.ix + 5
    BY <1>1
  <2>3. T[d.ix + 5] - x * B = p /\ p \in 0..B - 1 /\ T[d.ix + 5] \in Nat
    <3>1. x \in Nat /\ p \in Nat /\ p < B /\ T[d.ix + 5] = x * B + p /\ T[d.ix + 5] \in Nat
      <4> HIDE DEF x, T, p
      <4> QED
        BY <1>3, <1>4, <1>8
    <3> DEFINE i == x * B
    <3>2. i \in Nat /\ B \in Nat
      <4> HIDE DEF x
      <4> QED
        BY <3>1, Powers
    <3>3. T[d.ix + 5] = i + p
      BY <3>1
    <3> HIDE DEF x, T, p, i
    <3>4. T[d.ix + 5] - i = p /\ p \in 0..B - 1
      BY <3>1, <3>2, <3>3
    <3> QED
      BY <3>1, <3>4 DEF i
  <2> HIDE DEF p, T
  <2> QED
    BY <2>1, <2>2, <2>3, <1>5, <1>6, <1>8 DEF T
<1>9. CASE n = 2
  <2> DEFINE e == [d EXCEPT !.base = d.base * B + p, !.ix = d.ix + 1]
  <2>1. /\ ReadByte(d) = e /\ p \in Byte /\ p \in Nat /\ p < B
        /\ T[d.ix + 5] = x * B + p /\ T[d.ix + 5] \in Nat
    BY <1>3, <1>4, <1>9
  <2>2. /\ e.ix = d.ix + 1 /\ e.length = d.length /\ e.buffer = s
        /\ e.base = d.base * B + p /\ e.ix < e.length
    BY <1>1, <1>9 DEF Decoder
  <2>3. ReadByte(e) = [e EXCEPT !.base = e.base * B + s[e.ix + 5], !.ix = e.ix + 1]
    BY <2>2 DEF ReadByte
  <2>4. e.ix + 5 = d.ix + 6 /\ e.ix + 1 = d.ix + 2
    BY <1>1, <2>2
  <2>5. Shifted(d, 2) = [d EXCEPT !.base = (d.base * B + p) * B + q, !.ix = d.ix + 2]
    <3>1. Shifted(d, 2) = ReadByte(e)
      BY <2>1 DEF Shifted
    <3>2. ReadByte(e) = [e EXCEPT !.base = (d.base * B + p) * B + q, !.ix = d.ix + 2]
      BY <2>2, <2>3, <2>4
    <3>3. [e EXCEPT !.base = (d.base * B + p) * B + q, !.ix = d.ix + 2]
             = [d EXCEPT !.base = (d.base * B + p) * B + q, !.ix = d.ix + 2]
      BY DEF Decoder
    <3> QED
      BY <3>1, <3>2, <3>3
  <2>6. q \in Nat /\ q < B /\ T[d.ix + 6] = T[d.ix + 5] * B + q /\ T[d.ix + 6] \in Nat
    <3>1. d.ix + 5 \in Nat /\ d.ix + 5 < Len(s) /\ (d.ix + 5) + 1 = d.ix + 6
      BY <1>1, <1>9
    <3> QED
      BY <1>2, <1>3, <3>1
  <2>7. d.ix + 2 + 4 = d.ix + 6
    BY <1>1
  <2> HIDE DEF p, q, x, T, e
  <2>8. (d.base * B + p) * B + q = d.base * B2 + (p * B + q)
    <3> DEFINE i == d.base
    <3>1. i \in Nat /\ p \in Nat /\ q \in Nat /\ B \in Nat
      BY <2>1, <2>6, <1>1, Powers
    <3> HIDE DEF i
    <3>2. (i * B + p) * B + q = i * (B * B) + (p * B + q)
      BY <3>1
    <3> QED
      BY <3>2, Powers DEF i
  <2>9. T[d.ix + 6] - x * B2 = p * B + q
    <3>1. (x * B + p) * B = x * B2 + p * B /\ x * B2 \in Nat /\ p * B \in Nat
      BY <2>1, <1>5, Powers
    <3> QED
      BY <3>1, <2>1, <2>6
  <2>10. p * B + q \in 0..B2 - 1
    <3>1. p * B <= (B - 1) * B /\ (B - 1) * B = B2 - B /\ p * B \in Nat
      BY <2>1, Powers
    <3> QED
      BY <3>1, <2>6, Powers
  <2> QED
    BY <2>5, <2>6, <2>7, <2>8, <2>9, <2>10, <1>5, <1>6, <1>9 DEF x, T
<1> QED
  BY <1>7, <1>8, <1>9

-----------------------------------------------------------------------------
(* An encoder and a decoder between two symbols: the same range, as many bytes
   read as written, and the bytes before the decoder are as far into the
   interval of the encoder as its base says. *)
InStep(e, d) ==
  /\ d \in Decoder /\ Len(d.buffer) = d.length + 4
  /\ d.range = e.range
  /\ d.ix = Len(e.buffer)
  /\ d.base = Values(d.buffer)[d.ix + 4] - Lower(e)

(* The symbol that was encoded is decoded, if the bytes lie within its
   interval, and coder and decoder are in step again. *)
LEMMA DecodeMoves ==
  ASSUME NEW e, Normal(e), NEW d, InStep(e, d),
         NEW cdf, NEW data, Codeable(cdf, data),
         RangeEncode(e, cdf, data).error = OK,
         Len(RangeEncode(e, cdf, data).buffer) <= d.length,
         Low(e, cdf, data) <= d.base, d.base < Low(e, cdf, data) + Width(e, cdf, data)
  PROVE  LET r == RangeDecode(d, cdf) IN
         /\ r.data = data
         /\ InStep(RangeEncode(e, cdf, data), r.rc)
         /\ r.rc.buffer = d.buffer /\ r.rc.length = d.length
<1> DEFINE low   == d.range * cdf[data]
           width == d.range * (cdf[data + 1] - cdf[data])
           n     == Normalization(width)
           S     == Scale(n)
           x     == d.base - low
           next  == RangeEncode(e, cdf, data)
           mid   == [d EXCEPT !.base = x, !.range = Narrowed(width)]
           T     == Values(d.buffer)
           tail  == T[d.ix + n + 4] - T[d.ix + 4] * S
<1>1. HasInterval(cdf, data)
  BY DEF Codeable
<1>2. /\ e.error = OK /\ e.range = d.range
      /\ low = Low(e, cdf, data) /\ width = Width(e, cdf, data)
      /\ next.range = Narrowed(width)
      /\ Len(next.buffer) = Len(e.buffer) + n
      /\ Lower(next) = (Lower(e) + low) * S
  BY <1>1, EncodeMoves DEF InStep, Low, Width
<1>3. /\ d \in Decoder /\ d.base \in Nat /\ d.range \in Nat /\ d.range \in B..B2 - 1 /\ d.error = OK
      /\ d.ix \in Nat /\ d.length \in Nat
      /\ cdf[data] \in Nat /\ cdf[data + 1] \in Nat /\ cdf[data + 1] <= B2 - 1
  <2>1. cdf[data] \in Nat /\ cdf[data + 1] \in Nat /\ cdf[data + 1] <= B2 - 1
    BY <1>1 DEF HasInterval
  <2>2. d \in Decoder
    BY DEF InStep
  <2>3. /\ d.base \in Nat /\ d.range \in B..B2 - 1 /\ d.error = OK
        /\ d.ix \in Nat /\ d.length \in Nat
    BY <2>2 DEF Decoder
  <2>4. d.range \in Nat
    BY <2>3, Powers
  <2> QED
    BY <2>1, <2>2, <2>3, <2>4
<1>4. low + width = d.range * cdf[data + 1] /\ low \in Nat /\ width \in Int
  <2> DEFINE i == d.range
             p == cdf[data]
             q == cdf[data + 1]
  <2>1. i \in Nat /\ p \in Nat /\ q \in Nat
    BY <1>3
  <2>2. low = i * p /\ width = i * (q - p)
    OBVIOUS
  <2> HIDE DEF i, p, q, low, width
  <2>3. i * p + i * (q - p) = i * q /\ i * p \in Nat /\ i * (q - p) \in Int
    BY <2>1
  <2> QED
    BY <2>2, <2>3 DEF i, q
<1>5. d.range * cdf[data] <= d.base /\ d.base < d.range * cdf[data + 1]
  BY <1>2, <1>4
<1>6. ~(d.base >= d.range * (B2 - 1))
  <2>1. \A p, q, r \in Nat : p <= q => r * p <= r * q
    BY SMT
  <2>2. d.range * cdf[data + 1] <= d.range * (B2 - 1)
    BY <2>1, <1>3, Powers
  <2>3. d.range * cdf[data + 1] \in Nat /\ d.range * (B2 - 1) \in Nat
    <3>1. \A i, j \in Nat : i * j \in Nat
      BY SMT
    <3>2. d.range \in Nat /\ cdf[data + 1] \in Nat /\ B2 - 1 \in Nat
      BY <1>3, Powers
    <3> QED
      BY <3>1, <3>2
  <2> QED
    BY <2>2, <2>3, <1>3, <1>5
<1>7. Found(d, cdf) = data + 1
  BY <1>3, <1>5, SymbolIsFound
<1>8. data \in Nat
  BY DEF Codeable
<1>9. RangeDecode(d, cdf) = Decoded(d, cdf, data)
  <2>1. (data + 1) - 1 = data
    BY <1>8
  <2> QED
    BY <2>1, <1>3, <1>6, <1>7 DEF RangeDecode
<1>10. /\ x \in Nat /\ n \in 0..2 /\ Narrowed(width) \in B..B2 - 1
       /\ Decoded(d, cdf, data) = [rc |-> Shifted(mid, n), data |-> data]
  BY <1>1, <1>3, <1>5, DecodedIs
<1> HIDE DEF low, width, n, x
<1>11. /\ mid \in Decoder /\ mid.buffer = d.buffer /\ mid.length = d.length /\ mid.ix = d.ix
       /\ mid.base = x /\ mid.range = Narrowed(width)
  BY <1>3, <1>10 DEF Decoder
<1>12. d.ix = Len(e.buffer) /\ Len(d.buffer) = d.length + 4 /\ d.base = T[d.ix + 4] - Lower(e)
  BY DEF InStep
<1>13. d.ix + n = Len(next.buffer) /\ d.ix + n <= d.length
  BY <1>2, <1>12
<1> HIDE DEF mid
<1>14. /\ Shifted(mid, n) = [mid EXCEPT !.base = x * S + tail, !.ix = d.ix + n]
       /\ T[d.ix + n + 4] \in Nat /\ T[d.ix + 4] \in Nat
       /\ tail \in 0..S - 1
  <2>1. Len(mid.buffer) = mid.length + 4 /\ mid.ix + n <= mid.length
    BY <1>11, <1>12, <1>13
  <2>2. LET U == Values(mid.buffer)
            rest == U[mid.ix + n + 4] - U[mid.ix + 4] * Scale(n)
        IN /\ Shifted(mid, n) = [mid EXCEPT !.base = mid.base * Scale(n) + rest, !.ix = mid.ix + n]
           /\ U[mid.ix + n + 4] \in Nat /\ U[mid.ix + 4] \in Nat
           /\ rest \in 0..Scale(n) - 1
    BY <2>1, <1>10, <1>11, ReadMoves
  <2> QED
    BY <2>2, <1>11
<1>15. S \in Nat
  BY <1>10, Powers DEF Scale
<1>16. Lower(e) \in Int
  BY NormalTypes
<1> HIDE DEF S, next
<1>17. x * S + tail = T[d.ix + n + 4] - Lower(next) /\ x * S + tail \in Nat
  <2> DEFINE p == T[d.ix + 4]
             q == T[d.ix + n + 4]
             l == Lower(e)
  <2>1. x = (p - l) - low
    BY <1>12 DEF x
  <2>2. tail = q - p * S
    OBVIOUS
  <2>3. Lower(next) = (l + low) * S
    BY <1>2
  <2>4. p \in Nat /\ q \in Nat /\ l \in Int /\ x \in Nat /\ S \in Nat /\ low \in Int
    BY <1>4, <1>10, <1>14, <1>15, <1>16
  <2>5. x * S \in Nat /\ tail \in Nat
    BY <2>4, <1>14, <1>15
  <2> HIDE DEF p, q, l, tail
  <2>6. x * S = p * S - (l + low) * S /\ p * S \in Int /\ (l + low) * S \in Int
    BY <2>1, <2>4
  <2>7. x * S + tail = q - Lower(next) /\ x * S + tail \in Nat
    BY <2>2, <2>3, <2>4, <2>5, <2>6
  <2> QED
    BY <2>7 DEF q, tail
<1> HIDE DEF tail
<1> DEFINE y     == x * S + tail
           after == [mid EXCEPT !.base = y, !.ix = d.ix + n]
<1> HIDE DEF y
<1>18. /\ after \in Decoder /\ after.buffer = d.buffer /\ after.length = d.length
       /\ after.range = Narrowed(width) /\ after.ix = d.ix + n
       /\ after.base = y
  <2>1. y \in Nat
    BY <1>17 DEF y
  <2>2. d.ix + n \in Nat
    BY <1>3, <1>10
  <2> QED
    BY <2>1, <2>2, <1>11 DEF Decoder
<1>19. InStep(next, after)
  <2>1. y = T[after.ix + 4] - Lower(next)
    BY <1>17, <1>18 DEF y
  <2> QED
    BY <2>1, <1>2, <1>12, <1>13, <1>18 DEF InStep
<1>20. RangeDecode(d, cdf) = [rc |-> after, data |-> data]
  BY <1>9, <1>10, <1>14 DEF y
<1>21. after.buffer = d.buffer /\ after.length = d.length
  BY <1>18
<1> HIDE DEF after
<1>22. RangeDecode(d, cdf).rc = after /\ RangeDecode(d, cdf).data = data
  BY <1>20
<1> QED
  BY <1>19, <1>21, <1>22 DEF next

-----------------------------------------------------------------------------
(* Streams: an encoder that is given one symbol after the other, and a decoder
   that is given the tables of the same symbols. *)
IsEncoding(encs, symbols) ==
  /\ encs[0] = RangeEncInit
  /\ \A i \in 1..Len(symbols) : encs[i] = RangeEncode(encs[i - 1], symbols[i].cdf, symbols[i].data)

IsDecoding(decs, symbols, payload, stale) ==
  /\ decs[0] = RangeDecInit(payload, stale)
  /\ \A i \in 1..Len(symbols) : decs[i] = RangeDecode(decs[i - 1], symbols[i].cdf).rc

(* Whatever symbols are encoded one after the other, from whatever tables that
   leave them an interval, the range keeps a byte of resolution and no carry
   leaves the bytes written: the loop over --bufferIx_tmp in
   SKP_Silk_range_encoder() ends within them. *)
THEOREM StreamStaysNormal ==
  ASSUME NEW S, NEW symbols \in Seq(S), NEW encs, IsEncoding(encs, symbols),
         \A i \in 1..Len(symbols) : HasInterval(symbols[i].cdf, symbols[i].data)
  PROVE  \A i \in 0..Len(symbols) : Normal(encs[i]) /\ encs[i].error # CARRY_LOST
<1> DEFINE n == Len(symbols)
           N == {i \in 0..n : Normal(encs[i])}
<1>1. n \in Nat
  OBVIOUS
<1>2. 0 \in N
  BY EncoderStartsNormal DEF IsEncoding
<1>3. ASSUME NEW i \in 0..n - 1, i \in N PROVE i + 1 \in N
  <2>1. i + 1 \in 1..n /\ (i + 1) - 1 = i /\ i + 1 \in 0..n /\ Normal(encs[i])
    BY <1>1, <1>3
  <2>2. encs[i + 1] = RangeEncode(encs[i], symbols[i + 1].cdf, symbols[i + 1].data)
    BY <2>1 DEF IsEncoding
  <2>3. HasInterval(symbols[i + 1].cdf, symbols[i + 1].data)
    BY <2>1
  <2>4. Normal(encs[i + 1])
    BY <2>1, <2>2, <2>3, EncoderStaysNormal
  <2> QED
    BY <2>1, <2>4
<1> HIDE DEF N
<1>4. 0..n \subseteq N
  BY <1>1, <1>2, <1>3, InductionUpTo
<1>5. ASSUME NEW i \in 0..n PROVE Normal(encs[i]) /\ encs[i].error # CARRY_LOST
  <2>1. Normal(encs[i])
    BY <1>4 DEF N
  <2>2. encs[i].error \in {OK, WRITE_BEYOND}
    BY <2>1 DEF Normal, Coder
  <2> QED
    BY <2>1, <2>2 DEF OK, WRITE_BEYOND, CARRY_LOST
<1> QED
  BY <1>5

(* Once there has been an error, nothing is encoded any more. *)
LEMMA ErrorsStay ==
  ASSUME NEW S, NEW symbols \in Seq(S), NEW encs, IsEncoding(encs, symbols),
         encs[Len(symbols)].error = OK
  PROVE  \A i \in 0..Len(symbols) : encs[i].error = OK
<1> DEFINE n == Len(symbols)
           N == {i \in 0..n : encs[i].error = OK}
<1>1. n \in Nat /\ n \in N
  OBVIOUS
<1>2. ASSUME NEW i \in 0..n - 1, i + 1 \in N PROVE i \in N
  <2>1. i + 1 \in 1..n /\ (i + 1) - 1 = i /\ i \in 0..n
    BY <1>1
  <2>2. encs[i + 1] = RangeEncode(encs[i], symbols[i + 1].cdf, symbols[i + 1].data)
    BY <2>1 DEF IsEncoding
  <2>3. encs[i].error # OK => encs[i + 1] = encs[i]
    BY <2>2 DEF RangeEncode
  <2> QED
    BY <1>2, <2>1, <2>3
<1> HIDE DEF N
<1>3. 0..n \subseteq N
  BY <1>1, <1>2, InductionDownFrom
<1> QED
  BY <1>3 DEF N

-----------------------------------------------------------------------------
(* The bytes of a stream lie within the interval of an encoder. *)
Inside(e, s) ==
  LET t == Values(s)[Len(e.buffer) + 4]
  IN Lower(e) <= t /\ t < Lower(e) + e.range * B2

(* Bytes that lie within the interval after a symbol lie within that of the
   symbol. *)
LEMMA InsideSymbol ==
  ASSUME NEW e, Normal(e), NEW cdf, NEW data, HasInterval(cdf, data),
         RangeEncode(e, cdf, data).error = OK,
         NEW s \in Seq(Byte), Len(RangeEncode(e, cdf, data).buffer) + 4 <= Len(s),
         Inside(RangeEncode(e, cdf, data), s)
  PROVE  LET t == Values(s)[Len(e.buffer) + 4]
             l == Lower(e) + Low(e, cdf, data)
         IN /\ l <= t /\ t < l + Width(e, cdf, data)
            /\ Inside(e, s)
<1> DEFINE low   == Low(e, cdf, data)
           width == Width(e, cdf, data)
           n     == Normalization(width)
           next  == RangeEncode(e, cdf, data)
           K     == Len(e.buffer)
           Z     == Scale(n)
           d     == [base |-> 0, range |-> B, ix |-> K, length |-> Len(s) - 4, buffer |-> s,
                     error |-> OK]
           l     == Lower(e)
           p     == Values(s)[K + 4]
           q     == Values(s)[K + n + 4]
           R     == Narrowed(width)
<1>1. /\ e.error = OK /\ next.range = R /\ Len(next.buffer) = K + n
      /\ Lower(next) = (l + low) * Z
  BY EncodeMoves
<1>2. K \in Nat /\ e.range * B2 \in Nat /\ l \in Nat
  BY NormalTypes
<1>4. /\ low \in Nat /\ width \in Nat /\ width \in Widths
      /\ low + width < e.range * B2
  BY <1>1, SymbolFits
<1>5. n \in 0..2 /\ Z \in Nat /\ Z >= 1 /\ R \in Nat
      /\ R * B2 <= width * Z
  <2>1. /\ R \in B..B2 - 1 /\ n \in 0..2
        /\ n = 0 => R * B2 <= width
        /\ n = 1 => R * B <= width
        /\ n = 2 => R = width
    BY <1>4, Normalized
  <2>2. /\ n = 0 => Z = 1
        /\ n = 1 => Z = B
        /\ n = 2 => Z = B2
    BY DEF Scale
  <2> HIDE DEF R, n, Z, width
  <2>3. R \in Nat /\ R >= B
    BY <2>1, Powers
  <2>4. CASE n = 0
    BY <2>1, <2>2, <2>3, <2>4, <1>4
  <2>5. CASE n = 1
    <3>1. R * B \in Nat /\ (R * B) * B <= width * B
      BY <2>1, <2>3, <2>5, <1>4, Powers
    <3>2. (R * B) * B = R * B2
      BY <2>3, Powers
    <3> QED
      BY <2>1, <2>2, <2>3, <2>5, <3>1, <3>2, Powers
  <2>6. CASE n = 2
    BY <2>1, <2>2, <2>3, <2>6, <1>4, Powers
  <2> QED
    BY <2>1, <2>4, <2>5, <2>6
<1>6. d \in Decoder /\ d.ix = K /\ d.length = Len(s) - 4 /\ d.buffer = s /\ K + n <= Len(s) - 4
  <2>1. Len(s) - 4 \in Nat /\ K + n <= Len(s) - 4 /\ B \in B..B2 - 1 /\ 0 \in Nat
    <3> HIDE DEF K, n
    <3> QED
      BY <1>1, <1>2, <1>5, Powers
  <2> HIDE DEF K
  <2> QED
    BY <2>1, <1>2 DEF Decoder
<1>7. p \in Nat /\ q \in Nat /\ q - p * Z \in 0..Z - 1
  <2> HIDE DEF d, n
  <2>1. Len(d.buffer) = d.length + 4 /\ d.ix + n <= d.length
    BY <1>6
  <2>2. LET T    == Values(d.buffer)
            tail == T[d.ix + n + 4] - T[d.ix + 4] * Scale(n)
        IN T[d.ix + n + 4] \in Nat /\ T[d.ix + 4] \in Nat /\ tail \in 0..Scale(n) - 1
    BY <1>5, <1>6, <2>1, ReadMoves
  <2> QED
    BY <1>6, <2>2
<1>8. (l + low) * Z <= q /\ q < (l + low) * Z + R * B2
  BY <1>1 DEF Inside
<1> HIDE DEF low, width, n, Z, l, p, q, R, next
<1>9. l + low <= p
  <2>1. SUFFICES ASSUME p < l + low PROVE FALSE
    BY <1>2, <1>4, <1>7
  <2>2. (p + 1) * Z <= (l + low) * Z /\ (p + 1) * Z = p * Z + Z
    BY <2>1, <1>2, <1>4, <1>5, <1>7
  <2>3. p * Z \in Nat /\ (l + low) * Z \in Nat
    BY <1>2, <1>4, <1>5, <1>7
  <2> QED
    BY <2>2, <2>3, <1>5, <1>7, <1>8
<1>10. p < l + low + width
  <2>1. SUFFICES ASSUME p >= l + low + width PROVE FALSE
    BY <1>2, <1>4, <1>7
  <2>2. p * Z >= (l + low + width) * Z /\ (l + low + width) * Z = (l + low) * Z + width * Z
    BY <2>1, <1>2, <1>4, <1>5, <1>7
  <2>3. p * Z \in Nat /\ (l + low) * Z \in Nat /\ width * Z \in Nat /\ R * B2 \in Nat
    BY <1>2, <1>4, <1>5, <1>7, Powers
  <2> QED
    BY <2>2, <2>3, <1>5, <1>7, <1>8
<1>11. l <= p /\ p < l + e.range * B2
  BY <1>2, <1>4, <1>7, <1>9, <1>10
<1> QED
  BY <1>9, <1>10, <1>11 DEF Inside, l, low, width, p

-----------------------------------------------------------------------------
(* What the decoder has before it: the payload, and the four bytes behind it. *)
WithinReach(payload, stale) == payload \o <<stale, stale, stale, stale>>

(* What the decoder begins with: the payload and the bytes after it that it
   can still read, the first four of them in its base. *)
LEMMA ReachIs ==
  ASSUME NEW payload \in Seq(Byte), NEW stale \in Byte
  PROVE  LET s == WithinReach(payload, stale) IN
         /\ s \in Seq(Byte) /\ Len(s) = Len(payload) + 4 /\ Len(payload) \in Nat
         /\ RangeDecInit(payload, stale) =
              [base |-> Values(s)[4], range |-> B2 - 1, ix |-> 0, length |-> Len(payload),
               buffer |-> s, error |-> OK]
         /\ Values(s)[4] \in Nat
<1> DEFINE t == <<stale, stale, stale, stale>>
           s == WithinReach(payload, stale)
           v == Values(s)
<1>1. t \in Seq(Byte) /\ Len(t) = 4
  OBVIOUS
<1> HIDE DEF t
<1>2. s \in Seq(Byte) /\ Len(s) = Len(payload) + 4 /\ Len(payload) \in Nat
  BY <1>1 DEF WithinReach, t
<1>3. RangeDecInit(payload, stale) =
        [base |-> ((s[1] * B + s[2]) * B + s[3]) * B + s[4], range |-> B2 - 1, ix |-> 0,
         length |-> Len(payload), buffer |-> s, error |-> OK]
  BY DEF RangeDecInit, WithinReach
<1> HIDE DEF s
<1>4. AreValues(v, s)
  BY <1>2, ValuesExist
<1>5. /\ v[0] = 0
      /\ v[1] = v[0] * B + s[1] /\ v[2] = v[1] * B + s[2]
      /\ v[3] = v[2] * B + s[3] /\ v[4] = v[3] * B + s[4]
  <2>1. \A i \in 1..Len(s) : v[i] = v[i - 1] * B + s[i]
    BY <1>4 DEF AreValues
  <2>2. 1 \in 1..Len(s) /\ 2 \in 1..Len(s) /\ 3 \in 1..Len(s) /\ 4 \in 1..Len(s)
    BY <1>2
  <2>3. 1 - 1 = 0 /\ 2 - 1 = 1 /\ 3 - 1 = 2 /\ 4 - 1 = 3 /\ v[0] = 0
    BY <1>4 DEF AreValues
  <2> HIDE DEF v
  <2> QED
    BY <2>1, <2>2, <2>3
<1>6. v[4] \in Nat
  BY <1>2, <1>4 DEF AreValues
<1>7. v[1] = s[1]
  <2>1. s[1] \in Nat
    <3>1. s[1] \in Byte
      BY <1>2
    <3> QED
      BY <3>1, Powers DEF Byte
  <2>2. v[1] = 0 * B + s[1] /\ B \in Nat
    BY <1>5, Powers
  <2> HIDE DEF v
  <2>3. \A x, y \in Nat : 0 * x + y = y
    OBVIOUS
  <2> QED
    BY <2>1, <2>2, <2>3
<1>8. v[4] = ((s[1] * B + s[2]) * B + s[3]) * B + s[4]
  <2> HIDE DEF v
  <2> QED
    BY <1>5, <1>7
<1>9. RangeDecInit(payload, stale) =
        [base |-> v[4], range |-> B2 - 1, ix |-> 0, length |-> Len(payload),
         buffer |-> s, error |-> OK]
  <2> HIDE DEF v
  <2> QED
    BY <1>3, <1>8
<1> QED
  BY <1>2, <1>6, <1>9 DEF s

(* An encoder and a decoder of the same stream are in step before the first
   symbol. *)
LEMMA StartsInStep ==
  ASSUME NEW payload \in Seq(Byte), NEW stale \in Byte
  PROVE  InStep(RangeEncInit, RangeDecInit(payload, stale))
<1> DEFINE s == WithinReach(payload, stale)
           d == RangeDecInit(payload, stale)
<1>1. /\ s \in Seq(Byte) /\ Len(s) = Len(payload) + 4 /\ Len(payload) \in Nat
      /\ d = [base |-> Values(s)[4], range |-> B2 - 1, ix |-> 0, length |-> Len(payload),
              buffer |-> s, error |-> OK]
      /\ Values(s)[4] \in Nat
  BY ReachIs
<1> HIDE DEF s, d
<1>2. d \in Decoder /\ Len(d.buffer) = d.length + 4
  <2>1. B2 - 1 \in B..B2 - 1
    BY Powers
  <2> QED
    BY <1>1, <2>1 DEF Decoder
<1>3. Lower(RangeEncInit) = 0
  <2>1. <<>> \in Seq(Byte) /\ Len(<<>>) = 0
    OBVIOUS
  <2>2. AreValues(Values(<<>>), <<>>)
    BY <2>1, ValuesExist
  <2>3. Value(<<>>) = 0
    BY <2>1, <2>2 DEF AreValues, Value
  <2> QED
    BY <2>3, Powers DEF Lower, RangeEncInit
<1>4. d.base = Values(d.buffer)[d.ix + 4] - 0
  BY <1>1
<1>5. d.range = RangeEncInit.range /\ d.ix = Len(RangeEncInit.buffer)
  BY <1>1 DEF RangeEncInit
<1> QED
  BY <1>2, <1>3, <1>4, <1>5 DEF InStep, d

(* Bytes that lie within the interval of an encoder lie within those it had
   before. *)
LEMMA InsideAll ==
  ASSUME NEW S, NEW symbols \in Seq(S), NEW encs, IsEncoding(encs, symbols),
         \A i \in 1..Len(symbols) : HasInterval(symbols[i].cdf, symbols[i].data),
         encs[Len(symbols)].error = OK,
         NEW s \in Seq(Byte), Len(encs[Len(symbols)].buffer) + 4 <= Len(s),
         Inside(encs[Len(symbols)], s)
  PROVE  \A i \in 0..Len(symbols) : Len(encs[i].buffer) + 4 <= Len(s) /\ Inside(encs[i], s)
<1> DEFINE n == Len(symbols)
           N == {i \in 0..n : Len(encs[i].buffer) + 4 <= Len(s) /\ Inside(encs[i], s)}
<1>1. n \in Nat /\ n \in N
  OBVIOUS
<1>2. \A i \in 0..n : Normal(encs[i]) /\ encs[i].error = OK
  BY StreamStaysNormal, ErrorsStay
<1>3. ASSUME NEW i \in 0..n - 1, i + 1 \in N PROVE i \in N
  <2>1. i + 1 \in 1..n /\ (i + 1) - 1 = i /\ i \in 0..n /\ i + 1 \in 0..n
    BY <1>1
  <2> DEFINE cdf  == symbols[i + 1].cdf
             data == symbols[i + 1].data
  <2>2. encs[i + 1] = RangeEncode(encs[i], cdf, data)
    BY <2>1 DEF IsEncoding
  <2>3. HasInterval(cdf, data)
    BY <2>1
  <2>4. /\ Normal(encs[i]) /\ encs[i + 1].error = OK
        /\ Len(encs[i + 1].buffer) + 4 <= Len(s) /\ Inside(encs[i + 1], s)
    BY <1>2, <1>3, <2>1
  <2> HIDE DEF cdf, data
  <2>5. Inside(encs[i], s)
    BY <2>2, <2>3, <2>4, InsideSymbol
  <2>6. Len(encs[i].buffer) <= Len(encs[i + 1].buffer) /\ Len(encs[i].buffer) \in Nat
        /\ Len(encs[i + 1].buffer) \in Nat
    <3> DEFINE w == Normalization(Width(encs[i], cdf, data))
    <3>1. Len(encs[i + 1].buffer) = Len(encs[i].buffer) + w
      BY <2>2, <2>3, <2>4, EncodeMoves
    <3>2. w \in 0..2
      BY DEF Normalization
    <3>3. Len(encs[i].buffer) \in Nat
      BY <2>4, NormalTypes
    <3> HIDE DEF w
    <3> QED
      BY <3>1, <3>2, <3>3
  <2>7. Len(encs[i].buffer) + 4 <= Len(s)
    BY <2>4, <2>6
  <2> QED
    BY <2>1, <2>5, <2>7
<1> HIDE DEF N
<1>4. 0..n \subseteq N
  BY <1>1, <1>3, InductionDownFrom
<1> QED
  BY <1>4 DEF N

(* Every stream within the interval that the last symbol has left decodes to
   the symbols that were encoded: what SKP_Silk_range_enc_wrap_up() writes only
   has to be such a stream. *)
THEOREM InsideDecodes ==
  ASSUME NEW S, NEW symbols \in Seq(S), NEW encs, IsEncoding(encs, symbols),
         \A i \in 1..Len(symbols) : Codeable(symbols[i].cdf, symbols[i].data),
         encs[Len(symbols)].error = OK,
         NEW payload \in Seq(Byte), NEW stale \in Byte,
         Len(encs[Len(symbols)].buffer) <= Len(payload),
         Inside(encs[Len(symbols)], WithinReach(payload, stale)),
         NEW decs, IsDecoding(decs, symbols, payload, stale)
  PROVE  /\ \A i \in 1..Len(symbols) :
              RangeDecode(decs[i - 1], symbols[i].cdf).data = symbols[i].data
         /\ InStep(encs[Len(symbols)], decs[Len(symbols)])
         /\ decs[Len(symbols)].length = Len(payload)
         /\ decs[Len(symbols)].buffer = WithinReach(payload, stale)
<1> DEFINE n == Len(symbols)
           s == WithinReach(payload, stale)
           same(i) == /\ InStep(encs[i], decs[i])
                      /\ decs[i].buffer = s /\ decs[i].length = Len(payload)
           N == {i \in 0..n : same(i)}
<1>1. n \in Nat /\ s \in Seq(Byte) /\ Len(s) = Len(payload) + 4 /\ Len(payload) \in Nat
  BY ReachIs
<1>2. \A i \in 1..n : HasInterval(symbols[i].cdf, symbols[i].data)
  BY DEF Codeable
<1>3. \A i \in 0..n : Normal(encs[i]) /\ encs[i].error = OK
  BY <1>2, StreamStaysNormal, ErrorsStay
<1>4. \A i \in 0..n : Len(encs[i].buffer) + 4 <= Len(s) /\ Inside(encs[i], s)
  <2>1. Len(encs[n].buffer) + 4 <= Len(s)
    <3>1. n \in 0..n
      BY <1>1
    <3>2. Len(encs[n].buffer) \in Nat
      BY <3>1, <1>3, NormalTypes
    <3> HIDE DEF s
    <3> QED
      BY <1>1, <3>2
  <2> HIDE DEF s
  <2>2. Inside(encs[n], s)
    BY DEF s
  <2> QED
    BY <1>1, <1>2, <2>1, <2>2, InsideAll
<1>5. 0 \in N
  <2>1. decs[0] = RangeDecInit(payload, stale) /\ encs[0] = RangeEncInit
    BY DEF IsDecoding, IsEncoding
  <2>2. decs[0].buffer = s /\ decs[0].length = Len(payload)
    BY <2>1 DEF RangeDecInit, WithinReach
  <2>3. InStep(encs[0], decs[0])
    BY <2>1, StartsInStep
  <2> QED
    BY <1>1, <2>2, <2>3
<1>6. ASSUME NEW i \in 0..n - 1, i \in N
      PROVE  /\ RangeDecode(decs[i], symbols[i + 1].cdf).data = symbols[i + 1].data
             /\ i + 1 \in N
  <2>1. i + 1 \in 1..n /\ (i + 1) - 1 = i /\ i \in 0..n /\ i + 1 \in 0..n
    BY <1>1
  <2> DEFINE cdf  == symbols[i + 1].cdf
             data == symbols[i + 1].data
             e    == encs[i]
             d    == decs[i]
             t    == Values(s)[Len(e.buffer) + 4]
             l    == Lower(e) + Low(e, cdf, data)
  <2>2. encs[i + 1] = RangeEncode(e, cdf, data) /\ decs[i + 1] = RangeDecode(d, cdf).rc
    BY <2>1 DEF IsEncoding, IsDecoding
  <2>3. Codeable(cdf, data) /\ HasInterval(cdf, data)
    BY <2>1, <1>2
  <2>4. Normal(e) /\ RangeEncode(e, cdf, data).error = OK
        /\ Len(RangeEncode(e, cdf, data).buffer) + 4 <= Len(s)
        /\ Inside(RangeEncode(e, cdf, data), s)
    BY <2>1, <2>2, <1>3, <1>4
  <2>5. InStep(e, d) /\ d.buffer = s /\ d.length = Len(payload)
    BY <1>6
  <2> HIDE DEF cdf, data, s
  <2>6. l <= t /\ t < l + Width(e, cdf, data)
    BY <2>3, <2>4, <1>1, InsideSymbol
  <2>7. d.base = t - Lower(e)
    BY <2>5 DEF InStep
  <2>8. Low(e, cdf, data) <= d.base /\ d.base < Low(e, cdf, data) + Width(e, cdf, data)
    <3>1. Lower(e) \in Nat
      BY <2>4, NormalTypes
    <3>2. Low(e, cdf, data) \in Nat /\ Width(e, cdf, data) \in Nat
      <4>1. e.error = OK
        BY <2>1, <1>3
      <4> QED
        BY <4>1, <2>3, <2>4, SymbolFits
    <3>3. d.base \in Nat
      BY <2>5 DEF InStep, Decoder
    <3>4. t \in Nat
      <4>1. Len(e.buffer) + 4 \in 0..Len(s)
        <5>1. Len(e.buffer) \in Nat /\ Len(e.buffer) + 4 <= Len(s)
          BY <2>1, <2>4, <1>4, NormalTypes
        <5> HIDE DEF e
        <5> QED
          BY <5>1, <1>1
      <4> QED
        BY <4>1, <1>1, ValuesExist DEF AreValues
    <3> HIDE DEF e, d, t
    <3> QED
      BY <2>6, <2>7, <3>1, <3>2, <3>3, <3>4
  <2>9. Len(RangeEncode(e, cdf, data).buffer) <= d.length
    <3>1. Len(RangeEncode(e, cdf, data).buffer) \in Nat
      <4>1. Normal(RangeEncode(e, cdf, data))
        BY <2>1, <2>2, <1>3
      <4> QED
        BY <4>1, NormalTypes
    <3> HIDE DEF e, d
    <3> QED
      BY <3>1, <2>4, <2>5, <1>1
  <2> HIDE DEF e, d, t, l
  <2>10. LET r == RangeDecode(d, cdf) IN
         /\ r.data = data
         /\ InStep(RangeEncode(e, cdf, data), r.rc)
         /\ r.rc.buffer = d.buffer /\ r.rc.length = d.length
    BY <2>3, <2>4, <2>5, <2>8, <2>9, DecodeMoves
  <2>11. same(i + 1)
    BY <2>2, <2>5, <2>10 DEF e, d
  <2> QED
    BY <2>1, <2>10, <2>11 DEF cdf, data, d
<1> HIDE DEF N
<1>7. 0..n \subseteq N
  BY <1>1, <1>5, <1>6, InductionUpTo
<1>8. ASSUME NEW i \in 1..n PROVE RangeDecode(decs[i - 1], symbols[i].cdf).data = symbols[i].data
  <2>1. i - 1 \in 0..n - 1 /\ i - 1 \in 0..n /\ (i - 1) + 1 = i
    BY <1>1
  <2> QED
    BY <2>1, <1>6, <1>7
<1>9. same(n)
  <2>1. n \in 0..n
    BY <1>1
  <2> QED
    BY <2>1, <1>7 DEF N
<1> QED
  BY <1>8, <1>9

-----------------------------------------------------------------------------
(* The number of bits of a number below B^2. *)
LEMMA BitLengthIs ==
  ASSUME NEW x \in Nat, x < B2
  PROVE  LET k == BitLength(x) IN k \in 0..2 * b /\ x < 2^k /\ (k = 0 \/ 2^(k - 1) <= x)
<1> DEFINE above == {k \in Nat : x < 2^k}
<1>1. 2 * b \in Nat /\ 2 * b \in above
  <2>1. b \in Nat /\ B = 2^b
    BY ByteAssumption
  <2>2. 2^(b + b) = 2^b * 2^b
    BY <2>1, PowersGrow
  <2>3. 2 * b = b + b /\ 2 * b \in Nat
    BY <2>1
  <2> QED
    BY <2>1, <2>2, <2>3, Powers
<1>2. PICK k \in above : \A m \in above : k <= m
  <2>1. above \in SUBSET Nat /\ above # {}
    BY <1>1
  <2> HIDE DEF above
  <2> QED
    BY <2>1, LeastElement
<1>3. k \in Nat /\ x < 2^k /\ k <= 2 * b /\ k \in 0..2 * b
  BY <1>1, <1>2
<1>4. k = 0 \/ 2^(k - 1) <= x
  <2> SUFFICES ASSUME k # 0, ~(2^(k - 1) <= x) PROVE FALSE
    OBVIOUS
  <2>1. k - 1 \in Nat
    BY <1>3
  <2>2. 2^(k - 1) \in Nat
    BY <2>1, PowersGrow
  <2>3. k - 1 \in above
    BY <2>1, <2>2
  <2> QED
    BY <1>2, <1>3, <2>3
<1> HIDE DEF above
<1>5. \E m \in 0..2 * b : x < 2^m /\ (m = 0 \/ 2^(m - 1) <= x)
  BY <1>3, <1>4
<1> QED
  BY <1>5 DEF BitLength

(* The bits that tell the intervals of a normal range apart, and what a step of
   them is worth among the three high bytes of a base. *)
LEMMA StoreIs ==
  ASSUME NEW range \in B..B2 - 1
  PROVE  LET store == BitsToStore(range)
             unit  == 2^(3 * b - store)
         IN /\ store \in Nat /\ store >= 2 /\ store <= b + 2
            /\ unit \in Nat /\ unit >= 1 /\ 2 * (unit * B) <= (range - 1) * B2
            /\ unit * 2^store = B3 /\ 2^store \in Nat
<1> DEFINE x     == range - 1
           k     == BitLength(x)
           store == BitsToStore(range)
           unit  == 2^(3 * b - store)
<1>1. b \in Nat /\ b >= 2 /\ B = 2^b
  BY ByteAssumption
<1>2. range \in Nat /\ x \in Nat /\ x < B2 /\ x >= B - 1
  BY Powers
<1>3. k \in 0..2 * b /\ x < 2^k /\ (k = 0 \/ 2^(k - 1) <= x)
  <2> HIDE DEF x
  <2> QED
    BY <1>2, BitLengthIs
<1>4. store = 2 * b + 2 - k
  BY DEF BitsToStore
<1> HIDE DEF k, store, x
<1>5. k \in Nat /\ k <= 2 * b
  BY <1>1, <1>3
<1>6. k >= b
  <2> SUFFICES ASSUME k < b PROVE FALSE
    BY <1>1, <1>5
  <2>1. b - 1 \in Nat /\ k <= b - 1 /\ (b - 1) + 1 = b /\ b - 1 >= 1
    BY <1>1, <1>5
  <2>2. 2^k <= 2^(b - 1) /\ 2^k \in Nat /\ 2^(b - 1) \in Nat /\ 2^(b - 1) > b - 1
    BY <2>1, <1>5, PowersGrow
  <2>3. B = 2 * 2^(b - 1)
    BY <2>1, <1>1, PowerOfTwo
  <2> DEFINE h == 2^(b - 1)
             g == 2^k
  <2>4. g <= h /\ h > 1 /\ B = 2 * h /\ x < g /\ x >= B - 1 /\ g \in Nat /\ h \in Nat
    BY <2>1, <2>2, <2>3, <1>1, <1>2, <1>3
  <2> HIDE DEF g, h
  <2> QED
    BY <2>4, <1>2
<1>7. store \in Nat /\ store >= 2 /\ store <= b + 2 /\ 3 * b - store \in Nat
      /\ (3 * b - store) + store = (b + b) + b
  BY <1>1, <1>4, <1>5, <1>6
<1>8. unit \in Nat /\ unit >= 1 /\ 2^store \in Nat
  BY <1>7, PowersGrow
<1>9. unit * 2^store = B3
  <2>1. 2^((3 * b - store) + store) = unit * 2^store
    BY <1>7, PowersGrow
  <2>2. b + b \in Nat
    BY <1>1
  <2>3. 2^((b + b) + b) = 2^(b + b) * 2^b /\ 2^(b + b) = 2^b * 2^b
    BY <1>1, <2>2, PowersGrow
  <2>4. 2^((b + b) + b) = (B * B) * B
    BY <1>1, <2>3
  <2> HIDE DEF unit
  <2>5. (B * B) * B = B3
    BY Powers
  <2> QED
    BY <2>1, <2>4, <2>5, <1>7
<1>10. 2 * (unit * B) <= x * B2
  <2>1. k - 1 \in Nat /\ b + b \in Nat
    BY <1>1, <1>5, <1>6
  <2> DEFINE h == 2^(k - 1)
  <2>2. h <= x /\ h \in Nat
    BY <2>1, <1>1, <1>3, <1>6, PowersGrow
  <2>3. ((3 * b - store) + b) + 1 = (k - 1) + (b + b) /\ (3 * b - store) + b \in Nat
    BY <1>1, <1>4, <1>5, <1>7
  <2>4. 2^((3 * b - store) + b) = unit * B
    BY <1>1, <1>7, PowersGrow
  <2>5. 2^(((3 * b - store) + b) + 1) = 2 * 2^((3 * b - store) + b)
    BY <2>3, PowerOfTwo
  <2>6. 2^((k - 1) + (b + b)) = h * 2^(b + b) /\ 2^(b + b) = 2^b * 2^b
    BY <2>1, <1>1, PowersGrow
  <2> HIDE DEF h, unit
  <2>7. 2 * (unit * B) = h * B2
    <3>1. 2^(b + b) = B2
      BY <2>6, <1>1, Powers
    <3> QED
      BY <3>1, <2>3, <2>4, <2>5, <2>6
  <2>8. \A p, q, r \in Nat : p <= q => p * r <= q * r
    BY SMT
  <2>9. h * B2 <= x * B2
    BY <2>2, <2>8, <1>2, Powers
  <2> QED
    BY <2>7, <2>9
<1> QED
  BY <1>7, <1>8, <1>9, <1>10 DEF x, store

(* The rounded base begins a whole step of the bits that are stored, and both
   ends of that step lie within the interval of the encoder. *)
LEMMA RoundedIs ==
  ASSUME NEW e, Normal(e)
  PROVE  LET unit == 2^(3 * b - BitsToStore(e.range))
             x    == Rounded(e)
         IN /\ x \in Nat /\ \E q \in Nat : x = q * unit
            /\ e.base < x * B /\ (x + unit) * B < e.base + e.range * B2
            /\ x < 2 * B3
<1> DEFINE store == BitsToStore(e.range)
           unit  == 2^(3 * b - store)
           x     == Rounded(e)
           m     == e.base \div B
           t     == e.base % B
           q     == (m + unit) \div unit
           u     == (m + unit) % unit
           r     == e.range
<1>1. /\ unit \in Nat /\ unit >= 1 /\ 2 * (unit * B) <= (r - 1) * B2
      /\ unit * 2^store = B3 /\ 2^store \in Nat /\ store >= 2 /\ store \in Nat
  BY StoreIs DEF Normal, Coder
<1>2. e.base \in Nat /\ e.base < B4 /\ r \in Nat /\ r >= B /\ r < B2
  BY Powers, NormalTypes
<1>3. x = q * unit
  BY DEF Rounded
<1> HIDE DEF unit, x, r
<1>4. m \in Nat /\ t \in Nat /\ t < B /\ e.base = m * B + t
  <2>1. B \in Nat /\ B > 0
    BY Powers
  <2> QED
    BY <1>2, <2>1, Division
<1> HIDE DEF m, t
<1>5. q \in Nat /\ u \in Nat /\ u < unit /\ m + unit = q * unit + u
  <2>1. m + unit \in Nat /\ unit > 0
    BY <1>1, <1>4
  <2> QED
    BY <1>1, <2>1, Division
<1> HIDE DEF q, u
<1>6. x \in Nat /\ x >= m + 1 /\ x <= m + unit
  <2>1. q * unit \in Nat
    BY <1>1, <1>5
  <2> QED
    BY <2>1, <1>1, <1>3, <1>4, <1>5
<1>7. \A i, j, k \in Nat : i <= j => i * k <= j * k
  BY SMT
<1>8. e.base < x * B
  <2>1. (m + 1) * B <= x * B
    BY <1>4, <1>6, <1>7, Powers
  <2>2. (m + 1) * B = m * B + B /\ m * B \in Nat /\ x * B \in Nat
    BY <1>4, <1>6, Powers
  <2> QED
    BY <2>1, <2>2, <1>4, Powers
<1>9. (x + unit) * B < e.base + r * B2
  <2>1. x + unit <= m + 2 * unit /\ x + unit \in Nat /\ m + 2 * unit \in Nat
    BY <1>1, <1>4, <1>6
  <2>2. (x + unit) * B <= (m + 2 * unit) * B
    BY <2>1, <1>7, Powers
  <2>3. (m + 2 * unit) * B = m * B + 2 * (unit * B)
    BY <1>1, <1>4, Powers
  <2>4. (r - 1) * B2 = r * B2 - B2 /\ r * B2 \in Nat /\ B2 > 0
    BY <1>2, Powers
  <2>5. m * B \in Nat /\ unit * B \in Nat /\ (x + unit) * B \in Nat
    BY <2>1, <1>1, <1>4, Powers
  <2> QED
    BY <2>2, <2>3, <2>4, <2>5, <1>1, <1>4, Powers
<1>10. x < 2 * B3
  <2>1. m < B3
    <3> SUFFICES ASSUME m >= B3 PROVE FALSE
      BY <1>4, Powers
    <3>1. B3 * B <= m * B /\ B3 * B = B4
      BY <1>4, <1>7, Powers
    <3>2. m * B \in Nat
      BY <1>4, Powers
    <3> QED
      BY <3>1, <3>2, <1>2, <1>4, Powers
  <2>2. unit <= B3
    <3>1. 2^store >= 1
      BY <1>1, PowersGrow
    <3> DEFINE w == 2^store
    <3>2. w \in Nat /\ w >= 1 /\ unit * w = B3
      BY <3>1, <1>1
    <3> HIDE DEF w
    <3>3. 1 * unit <= w * unit
      BY <3>2, <1>1, <1>7
    <3>4. 1 * unit = unit /\ w * unit = unit * w
      BY <1>1, <3>2
    <3> QED
      BY <3>2, <3>3, <3>4
  <2> QED
    BY <2>1, <2>2, <1>1, <1>4, <1>6, Powers
<1> QED
  BY <1>3, <1>5, <1>6, <1>8, <1>9, <1>10 DEF unit, r, x

(* The carry that rounding may cause stays within the bytes written: the second
   loop over --bufferIx_tmp, in SKP_Silk_range_enc_wrap_up(), ends within
   them too. *)
THEOREM WrapUpStaysInside ==
  ASSUME NEW e, Normal(e), e.error = OK, Rounded(e) >= B3
  PROVE  ~AllOnes(e.buffer)
<1> DEFINE unit == 2^(3 * b - BitsToStore(e.range))
           x    == Rounded(e)
           end  == e.range * B2
<1>1. x \in Nat /\ x >= B3 /\ (x + unit) * B < e.base + end
  BY RoundedIs
<1>2. unit \in Nat
  BY StoreIs DEF Normal, Coder
<1>3. e.base \in Nat /\ end \in Nat
  BY NormalTypes
<1>4. AllOnes(e.buffer) => e.base + end <= B4
  BY DEF Normal, NoRoomAbove
<1> HIDE DEF unit, x, end
<1>5. B3 * B <= (x + unit) * B /\ B3 * B = B4 /\ (x + unit) * B \in Nat
  <2>1. \A i, j, k \in Nat : i <= j => i * k <= j * k
    BY SMT
  <2>2. B3 <= x + unit /\ x + unit \in Nat
    BY <1>1, <1>2, Powers
  <2>3. B3 * B <= (x + unit) * B
    BY <2>1, <2>2, Powers
  <2> QED
    BY <2>2, <2>3, Powers
<1> QED
  BY <1>1, <1>3, <1>4, <1>5, Powers

-----------------------------------------------------------------------------
(* How many of the bits to store the last byte holds, and how many bytes it
   takes to hold them all: two, where they are more than a byte. *)
LastBits(store)  == IF store > b THEN store - b ELSE store
LastBytes(store) == IF store > b THEN 2 ELSE 1

(* What such a byte is worth among the three high bytes of a base. *)
Place(store) == IF store > b THEN B ELSE B2

(* The ones that fill the last byte, the place of that byte and the number of
   the bits stored, in powers of two. *)
LEMMA FillIs ==
  ASSUME NEW store \in Nat, store >= 2, store <= b + 2
  PROVE  LET f == Fill(store) + 1
             p == 2^LastBits(store)
         IN /\ f \in Nat /\ f >= 1 /\ p \in Nat /\ p >= 1 /\ f * p = B
            /\ 2^(3 * b - store) = f * Place(store)
            /\ 2^store * Place(store) = p * B2
<1> DEFINE low == LastBits(store)
           f   == Fill(store) + 1
           g   == 2^(b - low)
           p   == 2^low
<1>1. b \in Nat /\ b >= 2 /\ B = 2^b /\ B \in Nat
  BY ByteAssumption
<1>2. low \in Nat /\ low >= 1 /\ low <= b /\ b - low \in Nat /\ (b - low) + low = b
      /\ store = IF store > b THEN b + low ELSE low
  BY <1>1 DEF LastBits
<1> HIDE DEF low
<1>3. g \in Nat /\ g >= 1 /\ p \in Nat /\ p >= 1
  BY <1>2, PowersGrow
<1>4. g * p = B
  <2>1. 2^((b - low) + low) = g * p
    BY <1>2, PowersGrow
  <2> QED
    BY <2>1, <1>1, <1>2
<1>5. f = g
  <2>1. CASE low < b
    <3>1. store = (IF store > b THEN 1 ELSE 0) * b + low
      BY <1>1, <1>2
    <3> DEFINE i == IF store > b THEN 1 ELSE 0
    <3>2. i \in Nat /\ store = i * b + low
      BY <3>1
    <3> HIDE DEF i
    <3>3. store % b = low
      BY <3>2, <2>1, <1>1, <1>2, DivisionIsUnique
    <3>4. Fill(store) = g - 1
      BY <3>3, <1>2 DEF Fill
    <3> HIDE DEF g
    <3> QED
      BY <3>4, <1>3
  <2>2. CASE low = b
    <3> DEFINE i == IF store > b THEN 2 ELSE 1
    <3>1. i \in Nat /\ store = i * b + 0 /\ b > 0 /\ 0 \in Nat
      BY <2>2, <1>1, <1>2
    <3> HIDE DEF i
    <3>2. store % b = 0
      <4>1. 0 < b
        BY <3>1
      <4> QED
        BY <3>1, <4>1, <1>1, DivisionIsUnique
    <3>3. Fill(store) = 0
      BY <3>2 DEF Fill
    <3>4. b - low = 0
      BY <2>2, <1>1
    <3>5. g = 1
      BY <3>4, PowerOfTwo
    <3> QED
      BY <3>3, <3>5
  <2> QED
    BY <2>1, <2>2, <1>2
<1>6. 2^(3 * b - store) = g * Place(store) /\ 2^store * Place(store) = p * B2
  <2>1. b + b \in Nat /\ 2^(b + b) = B * B
    BY <1>1, PowersGrow
  <2>2. CASE store > b
    <3>1. 3 * b - store = (b - low) + b /\ store = low + b
      BY <2>2, <1>1, <1>2
    <3>2. 2^((b - low) + b) = g * B /\ 2^(low + b) = p * B
      BY <1>1, <1>2, PowersGrow
    <3> HIDE DEF g, p
    <3>3. (p * B) * B = p * B2
      BY <1>1, <1>3, Powers
    <3> QED
      BY <2>2, <3>1, <3>2, <3>3 DEF Place
  <2>3. CASE ~(store > b)
    <3>1. 3 * b - store = (b - low) + (b + b) /\ store = low
      BY <2>3, <1>1, <1>2
    <3>2. 2^((b - low) + (b + b)) = g * (B * B)
      <4>1. 2^((b - low) + (b + b)) = g * 2^(b + b)
        BY <2>1, <1>2, PowersGrow
      <4> HIDE DEF g
      <4> QED
        BY <4>1, <2>1
    <3>3. Place(store) = B2 /\ B * B = B2
      BY <2>3, Powers DEF Place
    <3> HIDE DEF g
    <3>4. 2^(3 * b - store) = g * Place(store)
      BY <3>1, <3>2, <3>3
    <3>5. 2^store = p
      BY <3>1
    <3> QED
      BY <3>3, <3>4, <3>5
  <2> QED
    BY <2>2, <2>3
<1> HIDE DEF g
<1> QED
  BY <1>3, <1>4, <1>5, <1>6 DEF low

(* The length of the stream counts just the bytes that hold the bits to
   store, and the fill of its last byte is the fill of those bits. *)
LEMMA LengthIs ==
  ASSUME NEW K \in Nat, NEW range \in B..B2 - 1
  PROVE  LET store == BitsToStore(range) IN
         /\ LengthInBytes(K, range) = K + LastBytes(store)
         /\ Fill(LengthInBits(K, range)) = Fill(store)
<1> DEFINE store == BitsToStore(range)
           t     == IF store > b THEN store - 1 - b ELSE store - 1
           c     == LastBytes(store)
<1>1. b \in Nat /\ b >= 2 /\ store \in Nat /\ store >= 2 /\ store <= b + 2
  BY ByteAssumption, StoreIs
<1>2. t \in Nat /\ t < b /\ c \in Nat /\ store + b - 1 = c * b + t
  <2> HIDE DEF store
  <2> QED
    BY <1>1 DEF LastBytes
<1> HIDE DEF t, c
<1>3. LengthInBytes(K, range) = K + c
  <2>1. b * K + store + b - 1 = (K + c) * b + t
    <3>1. b * K \in Nat /\ (K + c) * b = b * K + c * b /\ c * b \in Nat
      BY <1>1, <1>2
    <3> HIDE DEF store
    <3> QED
      BY <3>1, <1>1, <1>2
  <2>2. LengthInBytes(K, range) = (b * K + store + b - 1) \div b
    BY DEF LengthInBytes, LengthInBits
  <2> HIDE DEF store
  <2>3. K + c \in Nat /\ b * K + store + b - 1 \in Nat
    <3>1. b * K \in Nat
      BY <1>1
    <3> QED
      BY <3>1, <1>1, <1>2
  <2> DEFINE y == b * K + store + b - 1
             z == K + c
  <2>4. y \in Nat /\ z \in Nat /\ y = z * b + t
    BY <2>1, <2>3
  <2> HIDE DEF y, z
  <2>5. y \div b = z
    BY <2>4, <1>1, <1>2, DivisionIsUnique
  <2> QED
    BY <2>2, <2>5 DEF y, z
<1>4. LengthInBits(K, range) % b = store % b
  <2> DEFINE i == store \div b
             j == store % b
  <2>1. i \in Nat /\ j \in Nat /\ j < b /\ store = i * b + j
    <3>1. b > 0
      BY <1>1
    <3> HIDE DEF store
    <3> QED
      BY <3>1, <1>1, Division
  <2> DEFINE y == b * K + store
             z == K + i
  <2>2. LengthInBits(K, range) = y
    BY DEF LengthInBits
  <2> HIDE DEF i, j, store
  <2>3. y \in Nat /\ z \in Nat /\ y = z * b + j
    <3>1. b * K \in Nat /\ (K + i) * b = b * K + i * b /\ i * b \in Nat
      BY <1>1, <2>1
    <3> QED
      BY <3>1, <2>1, <1>1
  <2> HIDE DEF y, z
  <2>4. y % b = j
    BY <2>1, <2>3, <1>1, DivisionIsUnique
  <2> QED
    BY <2>2, <2>4 DEF j
<1>5. Fill(LengthInBits(K, range)) = Fill(store)
  BY <1>4 DEF Fill
<1> QED
  BY <1>3, <1>5 DEF c

(* The bytes of a number below 2 * B^3 whose lowest byte is zero. *)
LEMMA BytesOf ==
  ASSUME NEW c \in 0..1, NEW g \in Byte, NEW s \in Byte
  PROVE  LET x == c * B3 + (g * B + s) * B IN
         x \in Nat /\ (x \div B2) % B = g /\ (x \div B) % B = s
<1> DEFINE x == c * B3 + (g * B + s) * B
<1>1. /\ B \in Nat /\ B > 0 /\ B2 \in Nat /\ B2 > 0 /\ B2 = B * B
      /\ c \in Nat /\ g \in Nat /\ s \in Nat /\ g < B /\ s < B
  BY Powers DEF Byte
<1>2. c * B + g \in Nat /\ s * B \in Nat /\ x \in Nat
  <2>1. c * B3 \in Nat /\ g * B \in Nat
    BY <1>1, Powers
  <2>2. (g * B + s) * B \in Nat
    BY <2>1, <1>1
  <2>3. c * B \in Nat /\ s * B \in Nat
    BY <1>1
  <2> QED
    BY <2>1, <2>2, <2>3, <1>1
<1>3. x = (c * B + g) * B2 + s * B /\ x = ((c * B + g) * B + s) * B
  BY <1>1, Powers
<1>4. s * B < B2
  <2>1. \A i, j, k \in Nat : i <= j => i * k <= j * k
    BY SMT
  <2>2. s + 1 \in Nat /\ s + 1 <= B
    BY <1>1
  <2>3. (s + 1) * B <= B * B /\ (s + 1) * B = s * B + B
    BY <2>1, <2>2, <1>1
  <2>4. B * B = B2 /\ s * B \in Nat
    BY <1>1, <1>2
  <2> QED
    BY <2>3, <2>4, <1>1
<1> HIDE DEF x
<1> DEFINE h == c * B + g
           y == h * B + s
           z == s * B
<1>5. h \in Nat /\ y \in Nat /\ z \in Nat /\ x = h * B2 + z /\ x = y * B + 0 /\ y = h * B + s /\ z < B2
  <2>1. h \in Nat /\ z \in Nat /\ z < B2 /\ x = h * B2 + z
    BY <1>2, <1>3, <1>4
  <2>2. x = y * B
    BY <1>3
  <2> HIDE DEF h
  <2>3. h * B \in Nat
    BY <2>1, <1>1
  <2>4. y \in Nat /\ y * B \in Nat
    BY <2>3, <1>1
  <2> QED
    BY <2>1, <2>2, <2>4, <1>2
<1>6. h = c * B + g
  OBVIOUS
<1> HIDE DEF h, y, z
<1>7. x \div B2 = h /\ h % B = g
  <2>1. x \div B2 = h
    BY <1>1, <1>2, <1>5, DivisionIsUnique
  <2>2. h % B = g
    BY <1>1, <1>5, <1>6, DivisionIsUnique
  <2> QED
    BY <2>1, <2>2
<1>8. x \div B = y /\ y % B = s
  <2>1. 0 \in Nat /\ 0 < B
    BY <1>1
  <2>2. x \div B = y
    BY <2>1, <1>1, <1>2, <1>5, DivisionIsUnique
  <2>3. y % B = s
    BY <1>1, <1>5, DivisionIsUnique
  <2> QED
    BY <2>2, <2>3
<1> QED
  BY <1>2, <1>7, <1>8 DEF x

-----------------------------------------------------------------------------
(* The bytes that the rounded base adds to those written, where w is the number
   it makes of the bits that are stored: what they stand for, and that the last
   of them ends in ones. *)
LEMMA TailIs ==
  ASSUME NEW store \in Nat, store >= 2, store <= b + 2,
         NEW w \in Nat, w < 2^store, NEW c \in 0..1, NEW buffer \in Seq(Byte)
  PROVE  LET x      == c * B3 + w * 2^(3 * b - store)
             f      == Fill(store) + 1
             k      == LastBytes(store)
             first  == (x \div B2) % B
             second == (x \div B) % B
             tail   == IF store > b THEN <<first, second + Fill(store)>>
                                    ELSE <<first + Fill(store)>>
             stored == buffer \o tail
         IN /\ stored \in Seq(Byte) /\ Len(stored) = Len(buffer) + k
            /\ stored[Len(buffer) + k] % f = f - 1
            /\ \E h \in Nat :
                 /\ Value(stored) = h + f - 1
                 /\ h * Place(store) = Value(buffer) * B3 + w * 2^(3 * b - store)
<1> DEFINE x      == c * B3 + w * 2^(3 * b - store)
           f      == Fill(store) + 1
           p      == 2^LastBits(store)
           unit   == 2^(3 * b - store)
           first  == (x \div B2) % B
           second == (x \div B) % B
           v      == Value(buffer)
           K      == Len(buffer)
<1>1. /\ f \in Nat /\ f >= 1 /\ p \in Nat /\ p >= 1 /\ f * p = B
      /\ unit = f * Place(store) /\ 2^store * Place(store) = p * B2
  BY FillIs
<1>2. Fill(store) = f - 1
  <2>1. Fill(store) \in Int
    <3>1. \A n \in Nat : 2^n \in Nat
      BY PowersGrow
    <3>2. b \in Nat /\ b > 0
      BY ByteAssumption
    <3>3. store % b \in Nat /\ store % b < b
      BY <3>2, Division
    <3>4. b - (store % b) \in Nat
      BY <3>2, <3>3
    <3>5. 2^(b - (store % b)) \in Nat
      BY <3>1, <3>4
    <3> QED
      BY <3>5 DEF Fill
  <2> QED
    BY <2>1
<1>3. 2^store \in Nat
  BY PowersGrow
<1>4. v \in Nat /\ K \in Nat
  <2>1. 0 \in Byte
    BY Powers DEF Byte
  <2>2. Value(buffer) \in Nat
    BY <2>1, ValueOfAppend
  <2> QED
    BY <2>2
<1>5. /\ B \in Nat /\ B > 0 /\ B2 = B * B /\ B2 \in Nat /\ B3 = B * B2 /\ B3 \in Nat
      /\ Byte = 0..B - 1 /\ b \in Nat
  BY ByteAssumption, Powers DEF Byte
<1>6. \A i, j, m \in Nat : i <= j => i * m <= j * m
  BY SMT
<1> HIDE DEF p, unit, x
<1>7. CASE store > b
  <2>1. Place(store) = B /\ LastBytes(store) = 2
    BY <1>7 DEF Place, LastBytes
  <2> DEFINE g == w \div p
             u == w % p
  <2>2. g \in Nat /\ u \in Nat /\ u < p /\ w = g * p + u
    BY <1>1, Division
  <2> HIDE DEF g, u
  <2> DEFINE s == u * f
             y == s + (f - 1)
  <2>3. 2^store = p * B
    <3>1. 2^store * B = (p * B) * B
      BY <1>1, <1>5, <2>1
    <3> DEFINE i == 2^store
               j == p * B
    <3>2. i \in Nat /\ j \in Nat /\ i * B = j * B
      BY <3>1, <1>1, <1>3, <1>5
    <3> HIDE DEF i, j
    <3>3. i < j => (i + 1) * B <= j * B
      BY <1>5, <1>6, <3>2
    <3>4. j < i => (j + 1) * B <= i * B
      BY <1>5, <1>6, <3>2
    <3>5. (i + 1) * B = i * B + B /\ (j + 1) * B = j * B + B /\ i * B \in Nat /\ j * B \in Nat
      BY <1>5, <3>2
    <3>6. i = j
      BY <3>2, <3>3, <3>4, <3>5, <1>5
    <3> QED
      BY <3>6 DEF i, j
  <2>4. g \in Byte
    <3> SUFFICES ASSUME g >= B PROVE FALSE
      BY <2>2, <1>5
    <3>1. B * p <= g * p
      BY <1>1, <1>5, <1>6, <2>2
    <3>2. B * p = p * B /\ p * B \in Nat /\ g * p \in Nat
      BY <1>1, <1>5, <2>2
    <3> QED
      BY <3>1, <3>2, <2>2, <2>3
  <2>5. s \in Nat /\ s + f <= B
    <3>1. (u + 1) * f <= p * f
      BY <1>1, <1>6, <2>2
    <3>2. (u + 1) * f = u * f + f /\ p * f = f * p /\ u * f \in Nat
      BY <1>1, <2>2
    <3> QED
      BY <3>1, <3>2, <1>1
  <2>6. s \in Byte /\ y \in Byte
    BY <2>5, <1>1, <1>5
  <2>7. w * unit = (g * B + s) * B
    <3>1. w * f = g * (p * f) + u * f
      BY <2>2, <1>1
    <3>2. p * f = B
      BY <1>1
    <3>3. w * f = g * B + s
      BY <3>1, <3>2
    <3>4. w * (f * B) = (w * f) * B
      BY <1>1, <1>5
    <3> QED
      BY <3>3, <3>4, <1>1, <2>1
  <2>8. first = g /\ second = s
    <3>1. x = c * B3 + (g * B + s) * B
      BY <2>7 DEF unit, x
    <3>2. c \in 0..1
      OBVIOUS
    <3> DEFINE z == c * B3 + (g * B + s) * B
    <3> HIDE DEF s, first, second
    <3>4. s \in Byte
      BY <2>6
    <3> HIDE DEF y, f, v, K, z
    <3>5. z = c * B3 + (g * B + s) * B
      BY DEF z
    <3>3. (z \div B2) % B = g /\ (z \div B) % B = s
      BY <3>2, <3>4, <3>5, <2>4, BytesOf
    <3> HIDE DEF z
    <3> QED
      BY <3>1, <3>3 DEF first, second, z
  <2> DEFINE stored == buffer \o <<g, y>>
             h      == v * B2 + (g * B + s)
  <2>9. second + Fill(store) = y
    BY <2>8, <1>2
  <2> HIDE DEF y, s
  <2>10. /\ stored = (buffer \o <<g>>) \o <<y>> /\ stored \in Seq(Byte)
         /\ Len(stored) = K + 2 /\ stored[K + 2] = y
    BY <2>4, <2>6, <1>4
  <2> HIDE DEF stored
  <2>11. Value(stored) = (v * B + g) * B + y
    <3>1. buffer \o <<g>> \in Seq(Byte) /\ Value(buffer \o <<g>>) = v * B + g
      BY <2>4, ValueOfAppend
    <3>2. Value((buffer \o <<g>>) \o <<y>>) = Value(buffer \o <<g>>) * B + y
      BY <3>1, <2>6, ValueOfAppend
    <3> HIDE DEF v
    <3> QED
      BY <3>1, <3>2, <2>10
  <2> HIDE DEF v
  <2>12. h \in Nat /\ Value(stored) = h + f - 1
    <3>1. v * B2 \in Nat /\ g * B \in Nat /\ s \in Nat
      BY <2>2, <2>5, <1>4, <1>5
    <3>2. (v * B + g) * B = v * B2 + g * B
      BY <2>2, <1>4, <1>5
    <3>3. y = s + (f - 1)
      BY DEF y
    <3>4. f \in Nat
      BY <1>1
    <3> DEFINE i == v * B2
               j == g * B
    <3>5. /\ Value(stored) = i + j + y /\ i \in Nat /\ j \in Nat /\ s \in Nat
          /\ h = i + (j + s)
      BY <3>1, <3>2, <2>11
    <3> HIDE DEF i, j, f, h
    <3> QED
      BY <3>3, <3>4, <3>5
  <2>13. h * B = v * B3 + w * unit
    <3>1. h * B = v * (B * B2) + (g * B + s) * B
      BY <2>2, <2>5, <1>4, <1>5
    <3> QED
      BY <3>1, <2>7, <1>5
  <2>14. y % f = f - 1
    <3>1. y = u * f + (f - 1) /\ y \in Nat /\ f - 1 \in Nat /\ f - 1 < f
      BY <2>6, <1>1, <1>5 DEF y, s
    <3> QED
      BY <3>1, <2>2, <1>1, DivisionIsUnique
  <2> HIDE DEF h, f
  <2>15. /\ stored \in Seq(Byte) /\ Len(stored) = K + LastBytes(store)
         /\ stored[K + LastBytes(store)] % f = f - 1
         /\ \E i \in Nat : Value(stored) = i + f - 1 /\ i * Place(store) = v * B3 + w * unit
    BY <2>1, <2>10, <2>12, <2>13, <2>14
  <2>16. stored = buffer \o (IF store > b THEN <<first, second + Fill(store)>>
                                          ELSE <<first + Fill(store)>>)
    BY <1>7, <2>8, <2>9 DEF stored
  <2> QED
    BY <2>15, <2>16 DEF f, unit, v, x
<1>8. CASE ~(store > b)
  <2>1. Place(store) = B2 /\ LastBytes(store) = 1
    BY <1>8 DEF Place, LastBytes
  <2>2. w + 1 <= p
    <3>1. LastBits(store) = store
      BY <1>8 DEF LastBits
    <3> QED
      BY <3>1, <1>3 DEF p
  <2> DEFINE g == w * f
             y == g + (f - 1)
             zero == 0
  <2>3. g \in Nat /\ g + f <= B
    <3>1. (w + 1) * f <= p * f
      BY <1>1, <1>6, <2>2
    <3>2. (w + 1) * f = w * f + f /\ p * f = f * p /\ w * f \in Nat
      BY <1>1
    <3> QED
      BY <3>1, <3>2, <1>1
  <2>4. g \in Byte /\ y \in Byte /\ zero \in Byte
    <3> HIDE DEF g, f
    <3>1. g \in Nat /\ f \in Nat /\ f >= 1 /\ B \in Nat /\ g + f <= B /\ Byte = 0..B - 1
      BY <2>3, <1>1, <1>5
    <3> QED
      BY <3>1
  <2>5. w * unit = g * B2
    <3>1. w * (f * B2) = (w * f) * B2
      BY <1>1, <1>5
    <3> QED
      BY <3>1, <1>1, <2>1
  <2>6. first = g
    <3> HIDE DEF g
    <3>1. (g * B + zero) * B = g * B2
      BY <2>3, <1>5
    <3>2. x = c * B3 + (g * B + zero) * B
      BY <2>5, <3>1 DEF unit, x
    <3>3. c \in 0..1
      OBVIOUS
    <3> DEFINE z == c * B3 + (g * B + zero) * B
    <3> HIDE DEF zero, first, second
    <3>4. (z \div B2) % B = g
      <4>1. c \in 0..1 /\ g \in Byte /\ zero \in Byte
        BY <2>4
      <4> QED
        BY <4>1, BytesOf
    <3> HIDE DEF z
    <3> QED
      BY <3>2, <3>4 DEF first, z
  <2> DEFINE stored == buffer \o <<y>>
             h      == v * B + g
  <2>7. first + Fill(store) = y
    BY <2>6, <1>2
  <2> HIDE DEF y, g
  <2>8. stored \in Seq(Byte) /\ Len(stored) = K + 1 /\ stored[K + 1] = y
    BY <2>4, <1>4
  <2>9. Value(stored) = v * B + y
    BY <2>4, ValueOfAppend
  <2> HIDE DEF stored, v
  <2>10. h \in Nat /\ Value(stored) = h + f - 1
    <3>1. v * B \in Nat /\ y = g + (f - 1)
      BY <1>4, <1>5 DEF y
    <3> QED
      BY <3>1, <2>3, <2>9, <1>1
  <2>11. h * B2 = v * B3 + w * unit
    <3>1. h * B2 = v * (B * B2) + g * B2
      BY <2>3, <1>4, <1>5
    <3> QED
      BY <3>1, <2>5, <1>5
  <2>12. y % f = f - 1
    <3>1. y = w * f + (f - 1) /\ y \in Nat /\ f - 1 \in Nat /\ f - 1 < f
      BY <2>4, <1>1, <1>5 DEF y, g
    <3>2. w \in Nat /\ f \in Nat
      BY <1>1
    <3> HIDE DEF f
    <3> QED
      BY <3>1, <3>2, DivisionIsUnique
  <2> HIDE DEF h, f
  <2>13. /\ stored \in Seq(Byte) /\ Len(stored) = K + LastBytes(store)
         /\ stored[K + LastBytes(store)] % f = f - 1
         /\ \E i \in Nat : Value(stored) = i + f - 1 /\ i * Place(store) = v * B3 + w * unit
    BY <2>1, <2>8, <2>10, <2>11, <2>12
  <2>14. stored = buffer \o (IF store > b THEN <<first, second + Fill(store)>>
                                          ELSE <<first + Fill(store)>>)
    BY <1>8, <2>7 DEF stored
  <2> QED
    BY <2>13, <2>14 DEF f, unit, v, x
<1> QED
  BY <1>7, <1>8

-----------------------------------------------------------------------------
(* The bytes that the encoder ends with, those of the stream if the buffer has
   room for them: what they stand for is the rounded base behind the bytes
   written, with ones below. *)
LEMMA StoredIs ==
  ASSUME NEW e, Normal(e), e.error = OK
  PROVE  \E r \in Seq(Byte) :
         LET K     == Len(e.buffer)
             store == BitsToStore(e.range)
             f     == Fill(store) + 1
             k     == LastBytes(store)
         IN /\ Len(r) = K + k /\ r[K + k] % f = f - 1
            /\ \E h \in Nat : /\ Value(r) = h + f - 1
                              /\ h * Place(store) = Value(e.buffer) * B3 + Rounded(e)
            /\ RangeEncWrapUp(e) =
                 SubSeq(r, 1, IF Len(r) < MAX_ARITHM_BYTES THEN Len(r) ELSE MAX_ARITHM_BYTES)
<1> DEFINE K      == Len(e.buffer)
           store  == BitsToStore(e.range)
           f      == Fill(store) + 1
           k      == LastBytes(store)
           unit   == 2^(3 * b - store)
           x      == Rounded(e)
           c      == IF x >= B3 THEN 1 ELSE 0
           buffer == IF x >= B3 THEN Carry(e.buffer) ELSE e.buffer
           first  == (x \div B2) % B
           second == (x \div B) % B
           tail   == IF store > b THEN <<first, second + Fill(store)>> ELSE <<first + Fill(store)>>
           stored == buffer \o tail
           p      == 2^store
<1>1. /\ store \in Nat /\ store >= 2 /\ store <= b + 2
      /\ unit \in Nat /\ unit >= 1 /\ unit * p = B3 /\ p \in Nat
  BY StoreIs DEF Normal, Coder
<1>2. x \in Nat /\ x < 2 * B3 /\ \E q \in Nat : x = q * unit
  BY RoundedIs
<1>3. /\ e.buffer \in Seq(Byte) /\ K \in Nat /\ Value(e.buffer) \in Nat
      /\ e.range \in B..B2 - 1
  BY NormalTypes
<1>4. /\ buffer \in Seq(Byte) /\ Len(buffer) = K /\ Value(buffer) = Value(e.buffer) + c
      /\ c \in 0..1
  <2>1. CASE x >= B3
    <3>1. ~AllOnes(e.buffer)
      BY <2>1, WrapUpStaysInside
    <3>2. Carry(e.buffer) \in Seq(Byte) /\ Len(Carry(e.buffer)) = K
      BY <3>1, <1>3, CarryKeepsBytes
    <3>3. Value(Carry(e.buffer)) = Value(e.buffer) + 1
      BY <3>1, <1>3, ValueOfCarry
    <3>4. buffer = Carry(e.buffer) /\ c = 1
      BY <2>1
    <3> QED
      BY <3>2, <3>3, <3>4
  <2>2. CASE ~(x >= B3)
    <3>1. buffer = e.buffer /\ c = 0
      BY <2>2
    <3> QED
      BY <3>1, <1>3
  <2> QED
    BY <2>1, <2>2
<1>5. PICK w \in Nat : w < p /\ x = c * B3 + w * unit
  <2>1. PICK q \in Nat : x = q * unit
    BY <1>2
  <2> HIDE DEF x, unit, p
  <2>2. \A i, j, m \in Nat : i <= j => i * m <= j * m
    BY SMT
  <2>3. B3 \in Nat /\ B3 = p * unit
    BY <1>1, Powers
  <2>4. x < B3 => q < p
    <3> SUFFICES ASSUME q >= p PROVE x >= B3
      BY <1>1, <1>2, <2>3
    <3>1. p * unit <= q * unit
      BY <2>2, <1>1
    <3> QED
      BY <3>1, <2>1, <2>3
  <2>5. x >= B3 => q >= p
    <3> SUFFICES ASSUME q < p PROVE x < B3
      BY <1>1, <1>2, <2>3
    <3>1. (q + 1) * unit <= p * unit
      BY <2>2, <1>1
    <3>2. (q + 1) * unit = q * unit + unit
      BY <1>1
    <3> QED
      BY <3>1, <3>2, <2>1, <2>3, <1>1, <1>2
  <2>6. q < 2 * p
    <3> SUFFICES ASSUME q >= 2 * p PROVE FALSE
      BY <1>1
    <3>1. 2 * p \in Nat /\ (2 * p) * unit <= q * unit
      BY <2>2, <1>1
    <3>2. (2 * p) * unit = 2 * (p * unit)
      BY <1>1
    <3> QED
      BY <3>1, <3>2, <2>1, <2>3, <1>2
  <2>7. CASE x >= B3
    <3>1. q - p \in Nat /\ q - p < p
      BY <2>5, <2>6, <2>7, <1>1
    <3>2. (q - p) * unit = q * unit - p * unit /\ p * unit \in Nat /\ q * unit \in Nat
      BY <1>1
    <3>3. c * B3 = B3
      BY <2>3, <2>7
    <3>4. x = c * B3 + (q - p) * unit
      BY <3>2, <3>3, <2>1, <2>3
    <3> HIDE DEF c
    <3> QED
      BY <3>1, <3>4
  <2>8. CASE ~(x >= B3)
    <3>1. q < p
      BY <2>3, <2>4, <2>8, <1>2
    <3>2. c * B3 = 0 /\ q * unit \in Nat
      BY <2>3, <2>8, <1>1
    <3>3. x = c * B3 + q * unit
      BY <3>2, <2>1
    <3> HIDE DEF c
    <3> QED
      BY <3>1, <3>3
  <2> QED
    BY <2>7, <2>8
<1>6. /\ stored \in Seq(Byte) /\ Len(stored) = K + k /\ stored[K + k] % f = f - 1
      /\ \E h \in Nat : /\ Value(stored) = h + f - 1
                        /\ h * Place(store) = Value(buffer) * B3 + w * unit
  <2> HIDE DEF x, c, buffer, store, K
  <2> DEFINE z    == c * B3 + w * 2^(3 * b - store)
             more == buffer \o (IF store > b
                                THEN <<(z \div B2) % B, ((z \div B) % B) + Fill(store)>>
                                ELSE <<((z \div B2) % B) + Fill(store)>>)
  <2>1. /\ more \in Seq(Byte) /\ Len(more) = Len(buffer) + k
        /\ more[Len(buffer) + k] % f = f - 1
        /\ \E h \in Nat : /\ Value(more) = h + f - 1
                          /\ h * Place(store) = Value(buffer) * B3 + w * unit
    <3>1. /\ store \in Nat /\ store >= 2 /\ store <= b + 2
          /\ w \in Nat /\ w < 2^store /\ c \in 0..1 /\ buffer \in Seq(Byte)
      BY <1>1, <1>4, <1>5
    <3> QED
      BY <3>1, TailIs
  <2>2. z = x
    BY <1>5
  <2>3. more = stored
    <3> HIDE DEF z
    <3> QED
      BY <2>2
  <2> HIDE DEF more, stored
  <2> QED
    BY <2>1, <2>3, <1>4
<1>7. RangeEncWrapUp(e) =
        SubSeq(stored, 1, IF Len(stored) < MAX_ARITHM_BYTES THEN Len(stored) ELSE MAX_ARITHM_BYTES)
  BY DEF RangeEncWrapUp
<1>8. Value(buffer) * B3 + w * unit = Value(e.buffer) * B3 + x
  <2> DEFINE v == Value(e.buffer)
             y == w * unit
  <2>1. v \in Nat /\ c \in Nat /\ y \in Nat /\ B3 \in Nat /\ x = c * B3 + y /\ Value(buffer) = v + c
    <3>1. w \in Nat /\ unit \in Nat
      BY <1>1, <1>5
    <3>2. y \in Nat
      <4> HIDE DEF unit
      <4> QED
        BY <3>1
    <3>3. v \in Nat /\ Value(buffer) = v + c /\ c \in 0..1
      BY <1>3, <1>4
    <3>4. x = c * B3 + y
      BY <1>5
    <3>5. B3 \in Nat
      BY Powers
    <3> HIDE DEF v, c, y, x, buffer
    <3>6. c \in Nat
      BY <3>3
    <3> QED
      BY <3>2, <3>3, <3>4, <3>5, <3>6
  <2> HIDE DEF v, c, y, x, buffer
  <2>2. (v + c) * B3 = v * B3 + c * B3 /\ v * B3 \in Nat /\ c * B3 \in Nat
    BY <2>1
  <2> QED
    BY <2>1, <2>2 DEF v, y
<1> HIDE DEF stored, f, store, x, K
<1> QED
  BY <1>6, <1>7, <1>8, Zenon DEF f, store, x, K

(* The stream that the encoder ends with. *)
LEMMA WrapUpIs ==
  ASSUME NEW e, Normal(e), e.error = OK,
         LengthInBytes(Len(e.buffer), e.range) <= MAX_ARITHM_BYTES
  PROVE  LET K     == Len(e.buffer)
             store == BitsToStore(e.range)
             f     == Fill(store) + 1
             k     == LastBytes(store)
             r     == RangeEncWrapUp(e)
         IN /\ r \in Seq(Byte) /\ Len(r) = K + k /\ r[K + k] % f = f - 1
            /\ \E h \in Nat : /\ Value(r) = h + f - 1
                              /\ h * Place(store) = Value(e.buffer) * B3 + Rounded(e)
<1> DEFINE K     == Len(e.buffer)
           store == BitsToStore(e.range)
           f     == Fill(store) + 1
           k     == LastBytes(store)
<1>1. PICK r \in Seq(Byte) :
        /\ Len(r) = K + k /\ r[K + k] % f = f - 1
        /\ \E h \in Nat : /\ Value(r) = h + f - 1
                          /\ h * Place(store) = Value(e.buffer) * B3 + Rounded(e)
        /\ RangeEncWrapUp(e) =
             SubSeq(r, 1, IF Len(r) < MAX_ARITHM_BYTES THEN Len(r) ELSE MAX_ARITHM_BYTES)
  BY StoredIs, Zenon
<1>2. K \in Nat /\ e.range \in B..B2 - 1
  BY NormalTypes
<1>3. K + k <= MAX_ARITHM_BYTES
  BY <1>2, LengthIs
<1> HIDE DEF K, store, f, k
<1>4. Len(r) \in Nat /\ Len(r) = K + k
  BY <1>1
<1>5. (IF Len(r) < MAX_ARITHM_BYTES THEN Len(r) ELSE MAX_ARITHM_BYTES) = Len(r)
  BY <1>3, <1>4, BufferAssumption
<1>6. SubSeq(r, 1, Len(r)) = r
  OBVIOUS
<1>7. RangeEncWrapUp(e) = r
  BY <1>1, <1>5, <1>6, Zenon
<1> QED
  BY <1>1, <1>7, Zenon DEF K, store, f, k

(* It is made of bytes, whether there was room or not. *)
LEMMA WrapUpKeepsBytes ==
  ASSUME NEW e, Normal(e), e.error = OK
  PROVE  RangeEncWrapUp(e) \in Seq(Byte)
<1>1. PICK r \in Seq(Byte) :
        RangeEncWrapUp(e) =
          SubSeq(r, 1, IF Len(r) < MAX_ARITHM_BYTES THEN Len(r) ELSE MAX_ARITHM_BYTES)
  BY StoredIs, Zenon
<1> DEFINE m == IF Len(r) < MAX_ARITHM_BYTES THEN Len(r) ELSE MAX_ARITHM_BYTES
<1>2. m \in 0..Len(r)
  BY BufferAssumption
<1> HIDE DEF m
<1>3. SubSeq(r, 1, m) \in Seq(Byte)
  <2>1. \A i \in 1..m : r[i] \in Byte
    BY <1>2
  <2>2. SubSeq(r, 1, m) = [i \in 1..m |-> r[i]]
    BY <1>2
  <2> QED
    BY <1>2, <2>1, <2>2
<1> QED
  BY <1>1, <1>3, Zenon DEF m

(* What is read behind k bytes of a stream adds less than one to what they
   stand for. *)
LEMMA ValuesBehind ==
  ASSUME NEW s \in Seq(Byte), NEW K \in Nat, K + 4 <= Len(s), NEW k \in 1..2
  PROVE  LET Z == IF k = 2 THEN B2 ELSE B3
             v == Values(s)[K + k]
             t == Values(s)[K + 4]
         IN v \in Nat /\ t \in Nat /\ t - v * Z \in 0..Z - 1
<1> DEFINE v1 == Values(s)[K + 1]
           v2 == Values(s)[K + 2]
           v3 == Values(s)[K + 3]
           v4 == Values(s)[K + 4]
           x2 == s[K + 2]
           x3 == s[K + 3]
           x4 == s[K + 4]
<1>1. Len(s) \in Nat /\ K + 1 \in Nat /\ K + 2 \in Nat /\ K + 3 \in Nat
      /\ K + 1 < Len(s) /\ K + 2 < Len(s) /\ K + 3 < Len(s)
      /\ (K + 1) + 1 = K + 2 /\ (K + 2) + 1 = K + 3 /\ (K + 3) + 1 = K + 4
  OBVIOUS
<1>2. v1 \in Nat /\ v2 \in Nat /\ v2 = v1 * B + x2 /\ x2 \in Byte
  BY <1>1, ValuesBetween
<1>3. v3 \in Nat /\ v3 = v2 * B + x3 /\ x3 \in Byte
  BY <1>1, ValuesBetween
<1>4. v4 \in Nat /\ v4 = v3 * B + x4 /\ x4 \in Byte
  BY <1>1, ValuesBetween
<1>5. x2 \in 0..B - 1 /\ x3 \in 0..B - 1 /\ x4 \in 0..B - 1
  BY <1>2, <1>3, <1>4 DEF Byte
<1>6. x2 \in Nat /\ x3 \in Nat /\ x4 \in Nat /\ x2 < B /\ x3 < B /\ x4 < B
  BY <1>5, Powers
<1> HIDE DEF v1, v2, v3, v4, x2, x3, x4
<1>7. \A i, j, m \in Nat : i <= j => i * m <= j * m
  BY SMT
<1>8. B \in Nat /\ B2 \in Nat /\ B3 \in Nat /\ B2 = B * B /\ B3 = B * B2
  BY Powers
<1>9. x3 * B + x4 \in Nat /\ x3 * B + x4 < B2 /\ v4 = v2 * B2 + (x3 * B + x4)
  <2>1. (x3 + 1) * B <= B * B /\ (x3 + 1) * B = x3 * B + B /\ x3 * B \in Nat
    BY <1>6, <1>7, <1>8
  <2>2. (v2 * B + x3) * B + x4 = v2 * B2 + (x3 * B + x4)
    BY <1>2, <1>6, <1>8
  <2>3. v4 = v2 * B2 + (x3 * B + x4)
    BY <2>2, <1>3, <1>4
  <2> DEFINE i == x3 * B
  <2>4. i \in Nat /\ i + B <= B2 /\ x4 \in Nat /\ x4 < B /\ B \in Nat /\ B2 \in Nat
    BY <2>1, <1>6, <1>8
  <2> HIDE DEF i
  <2>5. i + x4 \in Nat /\ i + x4 < B2
    BY <2>4
  <2> QED
    BY <2>3, <2>5 DEF i
<1> DEFINE y == x3 * B + x4
<1>10. y \in Nat /\ y < B2 /\ v4 = v2 * B2 + y
  BY <1>9
<1> HIDE DEF y
<1>11. x2 * B2 + y \in Nat /\ x2 * B2 + y < B3 /\ v4 = v1 * B3 + (x2 * B2 + y)
  <2>1. (x2 + 1) * B2 <= B * B2 /\ (x2 + 1) * B2 = x2 * B2 + B2 /\ x2 * B2 \in Nat
    BY <1>6, <1>7, <1>8
  <2>2. (v1 * B + x2) * B2 + y = v1 * B3 + (x2 * B2 + y)
    BY <1>2, <1>6, <1>8, <1>10
  <2> QED
    BY <2>1, <2>2, <1>2, <1>8, <1>10
<1>12. CASE k = 2
  <2>1. v2 * B2 \in Nat
    BY <1>2, <1>8
  <2>2. v4 - v2 * B2 \in 0..B2 - 1
    BY <2>1, <1>4, <1>8, <1>10
  <2> QED
    BY <2>2, <1>2, <1>4, <1>12 DEF v2, v4
<1>13. CASE k = 1
  <2> DEFINE z == x2 * B2 + y
  <2>1. z \in Nat /\ z < B3 /\ v4 = v1 * B3 + z
    BY <1>11
  <2> HIDE DEF z
  <2>2. v1 * B3 \in Nat
    BY <1>2, <1>8
  <2>3. v4 - v1 * B3 \in 0..B3 - 1
    BY <2>1, <2>2, <1>4, <1>8
  <2> QED
    BY <2>3, <1>2, <1>4, <1>13 DEF v1, v4
<1> QED
  BY <1>12, <1>13

(* Whatever follows it, the stream lies within the interval that the last
   symbol has left. *)
THEOREM WrapUpLiesInside ==
  ASSUME NEW e, Normal(e), e.error = OK,
         LengthInBytes(Len(e.buffer), e.range) <= MAX_ARITHM_BYTES,
         NEW rest \in Seq(Byte), Len(e.buffer) + 4 <= Len(RangeEncWrapUp(e) \o rest)
  PROVE  Inside(e, RangeEncWrapUp(e) \o rest)
<1> DEFINE K     == Len(e.buffer)
           store == BitsToStore(e.range)
           f     == Fill(store) + 1
           k     == LastBytes(store)
           P     == Place(store)
           unit  == 2^(3 * b - store)
           r     == RangeEncWrapUp(e)
           s     == r \o rest
           V     == Value(e.buffer)
           x     == Rounded(e)
           v     == Values(s)[K + k]
           t     == Values(s)[K + 4]
           Z     == IF k = 2 THEN B2 ELSE B3
<1>1. r \in Seq(Byte) /\ Len(r) = K + k
  BY WrapUpIs
<1>2. PICK h \in Nat : Value(r) = h + f - 1 /\ h * P = V * B3 + x
  BY WrapUpIs
<1>3. /\ x \in Nat /\ e.base < x * B /\ (x + unit) * B < e.base + e.range * B2
  BY RoundedIs
<1>4. store \in Nat /\ store >= 2 /\ store <= b + 2 /\ unit \in Nat
  BY StoreIs DEF Normal, Coder
<1>5. f \in Nat /\ f >= 1 /\ unit = f * P
  <2> HIDE DEF store
  <2> QED
    BY <1>4, FillIs
<1>6. K \in Nat /\ V \in Nat /\ e.base \in Nat /\ e.range * B2 \in Nat
  BY NormalTypes
<1>7. k \in 1..2 /\ P \in Nat /\ Z = P * B /\ Z \in Nat /\ Z > 0
  BY Powers DEF LastBytes, Place
<1> HIDE DEF store, f, P, unit, x, k, K, r
<1>8. s \in Seq(Byte) /\ Len(s) >= K + 4 /\ Len(s) >= K + k /\ K + k \in Nat
  <2>1. s \in Seq(Byte)
    BY <1>1
  <2>2. Len(s) >= K + 4
    BY DEF r, K
  <2> HIDE DEF s
  <2> QED
    BY <2>1, <2>2, <1>6, <1>7
<1>9. v = Value(r)
  <2>1. \A i \in 1..K + k : s[i] = r[i]
    BY <1>1, <1>6, <1>7
  <2>2. K + k \in 0..K + k
    BY <1>8
  <2> HIDE DEF s
  <2> DEFINE n == K + k
  <2>4. n \in Nat /\ n <= Len(s) /\ n <= Len(r) /\ (\A i \in 1..n : s[i] = r[i]) /\ n \in 0..n
    BY <2>1, <2>2, <1>1, <1>8
  <2> HIDE DEF n
  <2>5. \A i \in 0..n : Values(s)[i] = Values(r)[i]
    BY <2>4, <1>1, <1>8, ValuesOfPrefix
  <2>3. Values(s)[K + k] = Values(r)[K + k]
    BY <2>4, <2>5 DEF n
  <2> QED
    BY <2>3, <1>1 DEF Value
<1>10. v \in Nat /\ t \in Nat /\ t - v * Z \in 0..Z - 1
  <2> HIDE DEF s
  <2> QED
    BY <1>6, <1>7, <1>8, ValuesBehind
<1> HIDE DEF v, t, V, s, Z
<1>11. h * Z = V * B4 + x * B /\ (h + f) * Z = V * B4 + (x + unit) * B
  <2>1. h * Z = (h * P) * B
    BY <1>7, Powers
  <2>2. (V * B3 + x) * B = V * B4 + x * B
    BY <1>3, <1>6, Powers
  <2>3. (h + f) * Z = h * Z + (f * P) * B
    BY <1>5, <1>7, Powers
  <2>4. (x + unit) * B = x * B + unit * B
    BY <1>3, <1>4, Powers
  <2>5. V * B4 \in Nat /\ x * B \in Nat /\ unit * B \in Nat
    BY <1>3, <1>4, <1>6, Powers
  <2> QED
    BY <2>1, <2>2, <2>3, <2>4, <2>5, <1>2, <1>5
<1>12. h * Z <= t /\ t < (h + f) * Z
  <2> DEFINE g == f - 1
  <2>1. v = h + g /\ g \in Nat /\ h \in Nat /\ h + f = v + 1 /\ Z \in Nat /\ v \in Nat
    BY <1>2, <1>5, <1>7, <1>9, <1>10
  <2>2. v * Z = h * Z + g * Z /\ h * Z \in Nat /\ g * Z \in Nat
    <3> HIDE DEF g
    <3>1. g \in Nat /\ h \in Nat /\ Z \in Nat
      BY <2>1
    <3>2. (h + g) * Z = h * Z + g * Z /\ h * Z \in Nat /\ g * Z \in Nat
      BY <3>1
    <3> QED
      BY <3>2, <2>1
  <2>3. (h + f) * Z = v * Z + Z /\ v * Z \in Nat
    <3>1. v \in Nat /\ Z \in Nat
      BY <2>1
    <3>2. (v + 1) * Z = v * Z + Z /\ v * Z \in Nat
      BY <3>1
    <3> QED
      BY <3>2, <2>1
  <2> DEFINE i == h * Z
             j == (f - 1) * Z
             m == v * Z
             l == (h + f) * Z
  <2>4. i \in Nat /\ j \in Nat /\ m = i + j /\ l = m + Z /\ t - m \in 0..Z - 1 /\ t \in Nat
    BY <2>2, <2>3, <1>10
  <2> HIDE DEF i, j, m, l
  <2>5. i <= t /\ t < l
    BY <2>4, <1>7
  <2> QED
    BY <2>5 DEF i, l
<1>13. Lower(e) = V * B4 + e.base
  BY DEF Lower, V
<1>14. Lower(e) <= t /\ t < Lower(e) + e.range * B2
  <2> DEFINE i == V * B4
             j == x * B
             m == (x + unit) * B
             l == e.range * B2
  <2>1. i \in Nat /\ j \in Nat /\ m \in Nat
    BY <1>3, <1>4, <1>6, Powers
  <2>2. e.base < j /\ m < e.base + l /\ l \in Nat /\ e.base \in Nat
    BY <1>3, <1>6
  <2>3. i + j <= t /\ t < i + m
    BY <1>11, <1>12
  <2>4. Lower(e) = i + e.base
    BY <1>13
  <2>5. t \in Nat
    BY <1>10
  <2> HIDE DEF i, j, m, l
  <2>6. Lower(e) <= t /\ t < Lower(e) + l
    BY <2>1, <2>2, <2>3, <2>4, <2>5
  <2> QED
    BY <2>6 DEF l
<1> QED
  BY <1>14 DEF Inside, s, t, K, r

-----------------------------------------------------------------------------
(* SKP_Silk_range_coder_check_after_decoding() finds ones where the encoder
   left them, and no byte read beyond the payload. *)
LEMMA CheckPasses ==
  ASSUME NEW e, Normal(e), e.error = OK,
         LengthInBytes(Len(e.buffer), e.range) <= MAX_ARITHM_BYTES,
         NEW spare \in Seq(Byte), NEW stale \in Byte,
         NEW d, InStep(e, d), d.length = Len(RangeEncWrapUp(e) \o spare),
         d.buffer = WithinReach(RangeEncWrapUp(e) \o spare, stale)
  PROVE  CheckAfterDecoding(d) = d
<1> DEFINE K     == Len(e.buffer)
           store == BitsToStore(e.range)
           f     == Fill(store) + 1
           k     == LastBytes(store)
           r     == RangeEncWrapUp(e)
           last  == LengthInBytes(d.ix, d.range)
<1>1. r \in Seq(Byte) /\ Len(r) = K + k /\ r[K + k] % f = f - 1
  BY WrapUpIs
<1>2. K \in Nat /\ e.range \in B..B2 - 1 /\ k \in 1..2
  BY NormalTypes DEF LastBytes
<1>3. d.ix = K /\ d.range = e.range
  BY DEF InStep
<1>4. last = K + k /\ Fill(LengthInBits(d.ix, d.range)) = Fill(store)
  BY <1>2, <1>3, LengthIs
<1>5. K + k <= d.length
  <2> HIDE DEF r, K, k
  <2>1. Len(r \o spare) = Len(r) + Len(spare) /\ Len(spare) \in Nat
    BY <1>1
  <2>2. d.length = Len(r \o spare)
    BY DEF r
  <2> QED
    BY <2>1, <2>2, <1>1, <1>2
<1>6. d.buffer[K + k] = r[K + k]
  <2> HIDE DEF r, K, k
  <2>1. d.buffer = (r \o spare) \o <<stale, stale, stale, stale>>
    BY DEF WithinReach, r
  <2>2. K + k \in 1..Len(r)
    BY <1>1, <1>2
  <2> QED
    BY <2>1, <2>2, <1>1
<1>7. Fill(store) = f - 1
  <2>1. store \in Nat /\ store >= 2 /\ store <= b + 2
    BY <1>2, StoreIs
  <2> HIDE DEF store
  <2>2. f \in Nat
    BY <2>1, FillIs
  <2>3. Fill(store) \in Int
    <3>1. b \in Nat /\ b > 0
      BY ByteAssumption
    <3>2. store % b \in Nat /\ store % b < b
      BY <2>1, <3>1, Division
    <3>3. b - (store % b) \in Nat
      BY <3>1, <3>2
    <3>4. 2^(b - (store % b)) \in Nat
      BY <3>3, PowersGrow
    <3> QED
      BY <3>4 DEF Fill
  <2> QED
    BY <2>3
<1>8. ~(last > d.length) /\ d.buffer[last] % (Fill(store) + 1) = Fill(store)
  <2>1. d.length \in Nat
    BY DEF InStep, Decoder
  <2> HIDE DEF f, last, store, K, k
  <2>2. ~(last > d.length)
    BY <2>1, <1>2, <1>4, <1>5
  <2>3. d.buffer[last] % f = f - 1
    BY <1>1, <1>4, <1>6
  <2> QED
    BY <2>2, <2>3, <1>7 DEF f
<1> QED
  BY <1>4, <1>8 DEF CheckAfterDecoding

(* What lies behind the stream, as one sequence. *)
LEMMA Behind ==
  ASSUME NEW r \in Seq(Byte), NEW spare \in Seq(Byte), NEW t \in Seq(Byte)
  PROVE  /\ spare \o t \in Seq(Byte)
         /\ Len(r \o (spare \o t)) = Len(r) + (Len(spare) + Len(t))
         /\ (r \o spare) \o t = r \o (spare \o t)
<1>1. spare \o t \in Seq(Byte) /\ Len(spare \o t) = Len(spare) + Len(t)
  OBVIOUS
<1>2. Len(r \o (spare \o t)) = Len(r) + Len(spare \o t)
  BY <1>1
<1>3. (r \o spare) \o t = r \o (spare \o t)
  OBVIOUS
<1> QED
  BY <1>1, <1>2, <1>3

(* The round trip: whatever symbols have been encoded, from whatever tables,
   without an error and within the size of the buffer, the decoder that is
   given the stream (with whatever bytes behind it in the packet, and whatever
   an earlier packet left behind those) and the same tables returns the same
   symbols and ends without an error. *)
THEOREM RoundTrip ==
  ASSUME NEW S, NEW symbols \in Seq(S), NEW encs, IsEncoding(encs, symbols),
         \A i \in 1..Len(symbols) : Codeable(symbols[i].cdf, symbols[i].data),
         encs[Len(symbols)].error = OK,
         LengthInBytes(Len(encs[Len(symbols)].buffer), encs[Len(symbols)].range)
           <= MAX_ARITHM_BYTES,
         NEW spare \in Seq(Byte), NEW stale \in Byte, NEW decs,
         IsDecoding(decs, symbols, RangeEncWrapUp(encs[Len(symbols)]) \o spare, stale)
  PROVE  /\ \A i \in 1..Len(symbols) :
              RangeDecode(decs[i - 1], symbols[i].cdf).data = symbols[i].data
         /\ \A i \in 0..Len(symbols) : decs[i].error = OK
         /\ CheckAfterDecoding(decs[Len(symbols)]) = decs[Len(symbols)]
<1> DEFINE n       == Len(symbols)
           e       == encs[n]
           r       == RangeEncWrapUp(e)
           payload == r \o spare
           t       == <<stale, stale, stale, stale>>
           s       == WithinReach(payload, stale)
           d       == decs[n]
<1>1. n \in Nat /\ n \in 0..n
  OBVIOUS
<1>2. \A i \in 1..n : HasInterval(symbols[i].cdf, symbols[i].data)
  BY DEF Codeable
<1>3. Normal(e) /\ e.error = OK
  BY <1>1, <1>2, StreamStaysNormal
<1>4. LengthInBytes(Len(e.buffer), e.range) <= MAX_ARITHM_BYTES
  OBVIOUS
<1>5. IsDecoding(decs, symbols, payload, stale)
  OBVIOUS
<1> HIDE DEF e, r
<1>6. r \in Seq(Byte) /\ Len(r) >= Len(e.buffer) /\ Len(e.buffer) \in Nat
  <2> DEFINE k == LastBytes(BitsToStore(e.range))
  <2>1. r \in Seq(Byte) /\ Len(r) = Len(e.buffer) + k
    BY <1>3, <1>4, WrapUpIs DEF r
  <2>2. k \in 1..2
    BY DEF LastBytes
  <2>3. Len(e.buffer) \in Nat
    BY <1>3, NormalTypes
  <2> HIDE DEF k
  <2> QED
    BY <2>1, <2>2, <2>3
<1>7. payload \in Seq(Byte) /\ Len(payload) >= Len(e.buffer)
  <2>1. payload \in Seq(Byte) /\ Len(payload) = Len(r) + Len(spare) /\ Len(spare) \in Nat
    BY <1>6
  <2> HIDE DEF payload
  <2> QED
    BY <2>1, <1>6
<1>8. Inside(e, s)
  <2>1. t \in Seq(Byte) /\ Len(t) = 4
    OBVIOUS
  <2> HIDE DEF t
  <2>2. spare \o t \in Seq(Byte) /\ (r \o spare) \o t = r \o (spare \o t)
        /\ Len(r \o (spare \o t)) = Len(r) + (Len(spare) + Len(t)) /\ Len(spare) \in Nat
    <3>1. t \in Seq(Byte) /\ Len(t) = 4 /\ spare \in Seq(Byte) /\ Len(spare) \in Nat
      BY <2>1
    <3>2. spare \o t \in Seq(Byte) /\ (r \o spare) \o t = r \o (spare \o t)
          /\ Len(r \o (spare \o t)) = Len(r) + (Len(spare) + Len(t))
      <4>1. r \in Seq(Byte) /\ spare \in Seq(Byte) /\ t \in Seq(Byte)
        BY <3>1, <1>6
      <4> HIDE <1>6, <3>1 DEF r
      <4> QED
        BY <4>1, Behind
    <3> QED
      BY <3>1, <3>2, Zenon
  <2>3. s = r \o (spare \o t)
    BY <2>2 DEF WithinReach, t
  <2> DEFINE rest == spare \o t
  <2>4. rest \in Seq(Byte) /\ Len(e.buffer) + 4 <= Len(r \o rest)
    BY <2>1, <2>2, <1>6
  <2> HIDE DEF rest, s
  <2>5. Inside(e, r \o rest)
    BY <2>4, <1>3, <1>4, WrapUpLiesInside DEF r
  <2> QED
    BY <2>3, <2>5 DEF rest
<1> HIDE DEF payload
<1>9. /\ \A i \in 1..n : RangeDecode(decs[i - 1], symbols[i].cdf).data = symbols[i].data
      /\ InStep(e, d)
      /\ d.length = Len(payload) /\ d.buffer = s
  BY <1>3, <1>5, <1>6, <1>7, <1>8, InsideDecodes DEF e
<1>10. CheckAfterDecoding(d) = d
  BY <1>3, <1>4, <1>9, CheckPasses DEF payload, r
<1>11. \A i \in 0..n : decs[i].error = OK
  <2> DEFINE N == {i \in 0..n : decs[i].error = OK}
  <2>1. d.error = OK
    BY <1>9 DEF InStep, Decoder
  <2>2. n \in N
    BY <2>1, <1>1
  <2>3. ASSUME NEW i \in 0..n - 1, i + 1 \in N PROVE i \in N
    <3>1. i + 1 \in 1..n /\ (i + 1) - 1 = i /\ i \in 0..n
      BY <1>1
    <3>2. decs[i + 1] = RangeDecode(decs[i], symbols[i + 1].cdf).rc
      BY <3>1, <1>5 DEF IsDecoding
    <3>3. decs[i].error # OK => decs[i + 1] = decs[i]
      BY <3>2 DEF RangeDecode
    <3> QED
      BY <3>1, <3>3, <2>3
  <2> HIDE DEF N
  <2>4. 0..n \subseteq N
    BY <1>1, <2>2, <2>3, InductionDownFrom
  <2> QED
    BY <2>4 DEF N
<1> QED
  BY <1>9, <1>10, <1>11

-----------------------------------------------------------------------------
(* Walks.  Two functions that are defined by the same recursion agree. *)
LEMMA Agree ==
  ASSUME NEW n \in Nat, NEW f, NEW g, f[0] = g[0],
         \A i \in 1..n : f[i - 1] = g[i - 1] => f[i] = g[i]
  PROVE  f[n] = g[n]
<1> DEFINE S == {i \in 0..n : f[i] = g[i]}
<1>1. 0 \in S
  OBVIOUS
<1>2. ASSUME NEW i \in 0..n - 1, i \in S PROVE i + 1 \in S
  <2>1. i + 1 \in 1..n /\ (i + 1) - 1 = i /\ i + 1 \in 0..n
    OBVIOUS
  <2> QED
    BY <1>2, <2>1
<1> HIDE DEF S
<1>3. 0..n \subseteq S
  BY <1>1, <1>2, InductionUpTo
<1> QED
  BY <1>3 DEF S

(* What a position of a walk is. *)
LEMMA WithinWalk ==
  ASSUME NEW n \in Nat, NEW i \in 1..n
  PROVE  i \in 0..n /\ i # 0 /\ i - 1 \in 0..n - 1 /\ i - 1 \in 0..n /\ n \in 0..n
OBVIOUS

(* The walk of Concat(). *)
LEMMA ConcatFollows ==
  ASSUME NEW seqs, Len(seqs) \in Nat, NEW w, w[0] = <<>>,
         \A i \in 1..Len(seqs) : w[i] = w[i - 1] \o seqs[i]
  PROVE  Concat(seqs) = w[Len(seqs)]
<1> DEFINE n == Len(seqs)
           walked(f) == [i \in 0..n |-> IF i = 0 THEN <<>> ELSE f[i - 1] \o seqs[i]]
           after == CHOOSE f : f = walked(f)
           g == [i \in 0..n |-> w[i]]
<1>1. g = walked(g)
  OBVIOUS
<1>2. after = walked(after)
  <2> HIDE DEF g, walked
  <2> QED
    BY <1>1
<1>3. Concat(seqs) = after[n]
  BY DEF Concat, Walk
<1> HIDE DEF after, g
<1>4. \A i \in 0..n : after[i] = IF i = 0 THEN <<>> ELSE after[i - 1] \o seqs[i]
  BY <1>2, Zenon
<1>5. n \in Nat /\ 0 \in 0..n
  OBVIOUS
<1> HIDE DEF n, walked
<1>6. after[0] = w[0]
  BY <1>4, <1>5, Zenon
<1>7. \A i \in 1..n : after[i - 1] = w[i - 1] => after[i] = w[i]
  BY <1>4, <1>5, WithinWalk, Zenon DEF n
<1>8. after[n] = w[n]
  BY <1>5, <1>6, <1>7, Agree
<1> QED
  BY <1>3, <1>8, Zenon DEF n

(* A walk whose steps lead from S to S, and what it comes to. *)
Steps(n, S) == [1..n -> [S -> S]]

WalksAlong(w, n, S, start, step) ==
  /\ w \in [0..n -> S]
  /\ w[0] = start /\ \A i \in 1..n : w[i] = step[i][w[i - 1]]

(* A walk along steps that stay in a set exists. *)
LEMMA StepsExist ==
  ASSUME NEW S, NEW n \in Nat, NEW start \in S, NEW step \in Steps(n, S)
  PROVE  \E w : WalksAlong(w, n, S, start, step)
<1>1. PICK w \in [0..n -> S] : Follows(w, n, start, step)
  BY Recursion DEF Steps
<1>2. w = [i \in 0..n |-> IF i = 0 THEN start ELSE step[i][w[i - 1]]]
  BY <1>1 DEF Follows
<1>3. \A i \in 0..n : w[i] = IF i = 0 THEN start ELSE step[i][w[i - 1]]
  BY <1>2, Zenon
<1>4. 0 \in 0..n
  OBVIOUS
<1>5. WalksAlong(w, n, S, start, step)
  BY <1>3, <1>4, WithinWalk, Zenon DEF WalksAlong
<1> QED
  BY <1>5

(* Every value on the way is in S. *)
LEMMA StaysAlong ==
  ASSUME NEW S, NEW n \in Nat, NEW start, NEW step, NEW w, WalksAlong(w, n, S, start, step)
  PROVE  /\ \A i \in 0..n : w[i] \in S
         /\ \A i \in 1..n : w[i - 1] \in S
         /\ w[n] \in S
<1>1. \A i \in 0..n : w[i] \in S
  BY DEF WalksAlong
<1> QED
  BY <1>1, WithinWalk

(* Sequences that are put together one after the other. *)
Parts(n, S) == [1..n -> Seq(S)]

IsConcat(w, n, S, parts) ==
  /\ \A i \in 0..n : w[i] \in Seq(S)
  /\ w[0] = <<>> /\ \A i \in 1..n : w[i] = w[i - 1] \o parts[i]
  /\ Concat(parts) = w[n]

(* Parts that are sequences over a set are joined one after the other. *)
LEMMA ConcatIs ==
  ASSUME NEW S, NEW n \in Nat, NEW parts \in Parts(n, S)
  PROVE  \E w : IsConcat(w, n, S, parts)
<1> DEFINE Q == Seq(S)
           step == [i \in 1..n |-> [s \in Q |-> s \o parts[i]]]
<1>1. step \in Steps(n, Q)
  <2>1. \A i \in 1..n : \A s \in Seq(S) : s \o parts[i] \in Seq(S)
    BY DEF Parts
  <2> QED
    BY <2>1 DEF Steps
<1>2. <<>> \in Q
  OBVIOUS
<1> HIDE DEF step, Q
<1>3. PICK w : WalksAlong(w, n, Q, <<>>, step)
  BY <1>1, <1>2, StepsExist, Zenon
<1>4. (\A i \in 0..n : w[i] \in Q) /\ \A i \in 1..n : w[i - 1] \in Q
  BY <1>3, StaysAlong, Zenon
<1>5. w[0] = <<>> /\ \A i \in 1..n : w[i] = w[i - 1] \o parts[i]
  BY <1>3, <1>4, Zenon DEF WalksAlong, step
<1>6. Len(parts) = n
  BY DEF Parts
<1>7. Concat(parts) = w[n]
  BY <1>5, <1>6, ConcatFollows
<1>8. IsConcat(w, n, S, parts)
  BY <1>4, <1>5, <1>7, Zenon DEF IsConcat, Q
<1> QED
  BY <1>8

(* What is joined is a sequence over the same set. *)
LEMMA ConcatType ==
  ASSUME NEW S, NEW n \in Nat, NEW parts \in Parts(n, S)
  PROVE  Concat(parts) \in Seq(S)
<1>1. PICK w : IsConcat(w, n, S, parts)
  BY ConcatIs, Zenon
<1>2. n \in 0..n
  OBVIOUS
<1> QED
  BY <1>1, <1>2, Zenon DEF IsConcat

-----------------------------------------------------------------------------
(* Trees with F leaves and the nodes 1 .. 2F - 1.  A walk upwards puts the value
   of a node before those of the nodes behind it. *)
Joins(F, V) == [1..F - 1 -> [V \X V -> V]]

GrowsAlong(w, F, V, leaf, join) ==
  /\ \A i \in 0..F - 1 : w[i] \in Seq(V) /\ Len(w[i]) = F + i
  /\ w[0] = leaf
  /\ \A i \in 1..F - 1 :
       w[i] = <<join[F - i][<<w[i - 1][F - i], w[i - 1][F - i + 1]>>]>> \o w[i - 1]

IsTree(t, F, V, leaf, join) ==
  /\ t \in Seq(V) /\ Len(t) = 2 * F - 1
  /\ \A n \in 1..F - 1 : t[n] = join[n][<<t[2 * n], t[2 * n + 1]>>]
  /\ \A k \in 1..F : t[F - 1 + k] = leaf[k]

(* A sequence with one more value before it. *)
LEMMA Prepended ==
  ASSUME NEW V, NEW v \in V, NEW s \in Seq(V)
  PROVE  /\ <<v>> \o s \in Seq(V) /\ Len(<<v>> \o s) = Len(s) + 1
         /\ (<<v>> \o s)[1] = v
         /\ \A m \in 1..Len(s) : (<<v>> \o s)[m + 1] = s[m]
<1>1. <<v>> \in Seq(V) /\ Len(<<v>>) = 1 /\ Len(s) \in Nat
  OBVIOUS
<1> QED
  BY <1>1

(* Such a tree exists, whatever joins the values of two children. *)
LEMMA Grows ==
  ASSUME NEW F \in Nat, F >= 1, NEW V, NEW leaf \in Seq(V), Len(leaf) = F,
         NEW join \in Joins(F, V)
  PROVE  \E w : GrowsAlong(w, F, V, leaf, join)
<1> DEFINE Q == {s \in Seq(V) : Len(s) >= F}
           n == F - 1
           up(i, s) == <<join[F - i][<<s[F - i], s[F - i + 1]>>]>> \o s
           step == [i \in 1..n |-> [s \in Q |-> up(i, s)]]
<1>1. n \in Nat /\ leaf \in Q
  OBVIOUS
<1>2. ASSUME NEW i \in 1..n, NEW s \in Q
      PROVE  up(i, s) \in Q /\ Len(up(i, s)) = Len(s) + 1
  <2> DEFINE v == join[F - i][<<s[F - i], s[F - i + 1]>>]
  <2>1. F - i \in 1..F - 1 /\ F - i \in 1..Len(s) /\ F - i + 1 \in 1..Len(s) /\ s \in Seq(V)
        /\ Len(s) \in Nat
    OBVIOUS
  <2>2. s[F - i] \in V /\ s[F - i + 1] \in V
    BY <2>1
  <2>3. join[F - i] \in [V \X V -> V]
    BY <2>1 DEF Joins
  <2>4. v \in V
    BY <2>2, <2>3
  <2> HIDE DEF v
  <2>5. <<v>> \o s \in Seq(V) /\ Len(<<v>> \o s) = Len(s) + 1
    BY <2>1, <2>4, Prepended
  <2>6. <<v>> \o s \in Q
    BY <2>1, <2>5
  <2> QED
    BY <2>5, <2>6 DEF v
<1> HIDE DEF up
<1>3. step \in Steps(n, Q)
  BY <1>2 DEF Steps
<1> HIDE DEF step
<1>4. PICK w : WalksAlong(w, n, Q, leaf, step)
  <2> HIDE DEF Q, n
  <2> QED
    BY <1>1, <1>3, StepsExist, Zenon
<1>5. (\A i \in 0..n : w[i] \in Q) /\ \A i \in 1..n : w[i - 1] \in Q
  <2> HIDE DEF Q, n
  <2> QED
    BY <1>1, <1>4, StaysAlong, Zenon
<1>6. w[0] = leaf /\ \A i \in 1..n : w[i] = up(i, w[i - 1])
  <2> HIDE DEF Q, n
  <2> QED
    BY <1>4, <1>5, Zenon DEF WalksAlong, step
<1>7. \A i \in 0..n : Len(w[i]) = F + i
  <2> DEFINE P == {i \in 0..n : Len(w[i]) = F + i}
  <2>1. 0 \in P
    BY <1>6
  <2>2. ASSUME NEW i \in 0..n - 1, i \in P PROVE i + 1 \in P
    <3> DEFINE j == i + 1
    <3>1. j \in 1..n /\ j - 1 = i /\ j \in 0..n /\ Len(w[i]) = F + i /\ i \in Nat
      BY <2>2
    <3> HIDE DEF j, n, Q, P
    <3>2. w[j] = up(j, w[i]) /\ w[i] \in Q
      BY <3>1, <1>5, <1>6, Zenon
    <3>3. Len(w[j]) = Len(w[i]) + 1
      BY <3>1, <3>2, <1>2, Zenon
    <3>4. Len(w[j]) = F + j
      BY <3>1, <3>3 DEF j
    <3> QED
      BY <3>1, <3>4 DEF P, j
  <2> HIDE DEF P, n
  <2>3. 0..n \subseteq P
    BY <1>1, <2>1, <2>2, InductionUpTo
  <2> QED
    BY <2>3 DEF P
<1>8. \A i \in 0..n : w[i] \in Seq(V)
  BY <1>5
<1>9. GrowsAlong(w, F, V, leaf, join)
  <2> HIDE DEF Q
  <2> QED
    BY <1>6, <1>7, <1>8, Zenon DEF GrowsAlong, up, n
<1> QED
  BY <1>9

(* What has been walked up from the leaves is the tree above them. *)
LEMMA GrownIsTree ==
  ASSUME NEW F \in Nat, F >= 1, NEW V, NEW leaf \in Seq(V), Len(leaf) = F,
         NEW join \in Joins(F, V), NEW w, GrowsAlong(w, F, V, leaf, join)
  PROVE  IsTree(w[F - 1], F, V, leaf, join)
<1> DEFINE top(i) == join[F - i][<<w[i - 1][F - i], w[i - 1][F - i + 1]>>]
           at(i, n) == n + i - F + 1
           inside(i) == \A n \in F - i..F - 1 :
             w[i][at(i, n)] = join[n][<<w[i][at(i, 2 * n)], w[i][at(i, 2 * n + 1)]>>]
           below(i) == \A k \in 1..F : w[i][i + k] = leaf[k]
           P == {i \in 0..F - 1 : inside(i) /\ below(i)}
<1>1. 0 \in P
  <2>1. w[0] = leaf
    BY DEF GrowsAlong
  <2>2. inside(0)
    OBVIOUS
  <2>3. below(0)
    BY <2>1
  <2> QED
    BY <2>2, <2>3
<1>2. ASSUME NEW i \in 0..F - 2, i \in P PROVE i + 1 \in P
  <2> DEFINE j == i + 1
             s == w[i]
             t == w[j]
             v == top(j)
  <2>1. j \in 1..F - 1 /\ j \in 0..F - 1 /\ j - 1 = i /\ i \in 0..F - 1
    OBVIOUS
  <2>2. s \in Seq(V) /\ Len(s) = F + i /\ t = <<v>> \o s
    <3> HIDE DEF j
    <3> QED
      BY <2>1 DEF GrowsAlong
  <2>3. v \in V
    <3>1. F - j \in 1..F - 1 /\ F - j \in 1..Len(s) /\ F - j + 1 \in 1..Len(s)
      BY <2>1, <2>2
    <3>2. s[F - j] \in V /\ s[F - j + 1] \in V
      <4> HIDE DEF s, j
      <4> QED
        BY <2>2, <3>1
    <3>3. join[F - j] \in [V \X V -> V]
      BY <3>1 DEF Joins
    <3>4. v = join[F - j][<<s[F - j], s[F - j + 1]>>]
      BY <2>1
    <3> HIDE DEF v, s, j
    <3> QED
      BY <3>2, <3>3, <3>4
  <2>4. v = join[F - j][<<s[F - j], s[F - j + 1]>>]
    BY <2>1
  <2>5. inside(i) /\ below(i)
    BY <1>2
  <2> HIDE DEF v, top
  <2>6. t[1] = v /\ \A m \in 1..Len(s) : t[m + 1] = s[m]
    <3> HIDE DEF s, t
    <3> QED
      BY <2>2, <2>3, Prepended
  <2>7. \A m \in 1..F + i : t[m + 1] = s[m]
    BY <2>2, <2>6
  <2> HIDE DEF t
  <2>8. ASSUME NEW n \in F - j..F - 1
        PROVE  t[at(j, n)] = join[n][<<t[at(j, 2 * n)], t[at(j, 2 * n + 1)]>>]
    <3>1. CASE n = F - j
      <4>1. at(j, n) = 1 /\ at(j, 2 * n) = (F - j) + 1 /\ at(j, 2 * n + 1) = (F - j + 1) + 1
            /\ F - j \in 1..F + i /\ F - j + 1 \in 1..F + i
        BY <2>1, <3>1
      <4>2. t[(F - j) + 1] = s[F - j] /\ t[(F - j + 1) + 1] = s[F - j + 1]
        BY <2>7, <4>1
      <4> HIDE DEF s, j, at
      <4> QED
        BY <2>4, <2>6, <3>1, <4>1, <4>2, Zenon
    <3>2. CASE n \in F - i..F - 1
      <4> DEFINE p == at(i, n)
                 q == at(i, 2 * n)
                 r == at(i, 2 * n + 1)
      <4>1. at(j, n) = p + 1 /\ at(j, 2 * n) = q + 1 /\ at(j, 2 * n + 1) = r + 1
            /\ p \in 1..F + i /\ q \in 1..F + i /\ r \in 1..F + i
        BY <2>1, <3>2
      <4>2. s[p] = join[n][<<s[q], s[r]>>]
        BY <2>5, <3>2
      <4> HIDE DEF p, q, r, s, at
      <4>3. t[p + 1] = s[p] /\ t[q + 1] = s[q] /\ t[r + 1] = s[r]
        BY <2>7, <4>1
      <4> QED
        BY <4>1, <4>2, <4>3, Zenon
    <3>3. n = F - j \/ n \in F - i..F - 1
      BY <2>1
    <3> QED
      BY <3>1, <3>2, <3>3
  <2>9. ASSUME NEW k \in 1..F PROVE t[j + k] = leaf[k]
    <3>1. j + k = (i + k) + 1 /\ i + k \in 1..F + i
      BY <2>1
    <3>2. s[i + k] = leaf[k]
      BY <2>5
    <3> HIDE DEF s
    <3> QED
      BY <2>7, <3>1, <3>2
  <2> HIDE DEF j, at
  <2>10. j \in P
    BY <2>1, <2>8, <2>9, Zenon DEF t
  <2> QED
    BY <2>10 DEF j
<1>3. F - 1 \in P
  <2> DEFINE n == F - 1
  <2>1. n \in Nat /\ \A i \in 0..n - 1 : i \in 0..F - 2
    OBVIOUS
  <2>2. \A i \in 0..n - 1 : i \in P => i + 1 \in P
    BY <1>2, <2>1
  <2>3. n \in 0..n
    BY <2>1
  <2> HIDE DEF P, n
  <2>4. 0..n \subseteq P
    BY <1>1, <2>1, <2>2, InductionUpTo
  <2> QED
    BY <2>3, <2>4 DEF n
<1> DEFINE t == w[F - 1]
<1>4. inside(F - 1) /\ below(F - 1)
  BY <1>3
<1>5. t \in Seq(V) /\ Len(t) = 2 * F - 1
  <2>1. F - 1 \in 0..F - 1 /\ F + (F - 1) = 2 * F - 1
    OBVIOUS
  <2> QED
    BY <2>1 DEF GrowsAlong
<1>6. ASSUME NEW n \in 1..F - 1 PROVE t[n] = join[n][<<t[2 * n], t[2 * n + 1]>>]
  <2>1. at(F - 1, n) = n /\ at(F - 1, 2 * n) = 2 * n /\ at(F - 1, 2 * n + 1) = 2 * n + 1
        /\ n \in F - (F - 1)..F - 1
    OBVIOUS
  <2> HIDE DEF at
  <2>2. t[at(F - 1, n)] = join[n][<<t[at(F - 1, 2 * n)], t[at(F - 1, 2 * n + 1)]>>]
    BY <1>4, <2>1, Zenon
  <2> QED
    BY <2>1, <2>2, Zenon
<1>7. \A k \in 1..F : t[F - 1 + k] = leaf[k]
  BY <1>4
<1> HIDE DEF t
<1>8. IsTree(t, F, V, leaf, join)
  BY <1>5, <1>6, <1>7, Zenon DEF IsTree
<1> QED
  BY <1>8 DEF t

-----------------------------------------------------------------------------
(* The tree of a block. *)
LEMMA SumsFollow ==
  ASSUME NEW abs, Len(Upwards) \in Nat, NEW w, w[0] = abs,
         \A i \in 1..Len(Upwards) :
                 w[i] = <<w[i - 1][Upwards[i]] + w[i - 1][Upwards[i] + 1]>> \o w[i - 1]
  PROVE  Sums(abs) = w[Len(Upwards)]
<1> DEFINE n == Len(Upwards)
           walked(f) == [i \in 0..n |->
                          IF i = 0 THEN abs
                          ELSE <<f[i - 1][Upwards[i]] + f[i - 1][Upwards[i] + 1]>> \o f[i - 1]]
           after == CHOOSE f : f = walked(f)
           g == [i \in 0..n |-> w[i]]
<1>1. g = walked(g)
  <2>1. 0 \in 0..n /\ \A i \in 0..n : i # 0 => i \in 1..n /\ i - 1 \in 0..n
    OBVIOUS
  <2>2. \A i \in 0..n : w[i] =
            IF i = 0 THEN abs
            ELSE <<g[i - 1][Upwards[i]] + g[i - 1][Upwards[i] + 1]>> \o g[i - 1]
    <3> HIDE DEF n
    <3>1. \A i \in 0..n : i # 0 => g[i - 1] = w[i - 1]
      BY <2>1, Zenon
    <3> HIDE DEF g
    <3> QED
      BY <2>1, <3>1, Zenon DEF n
  <2> HIDE DEF n
  <2> QED
    BY <2>2, Zenon
<1>2. after = walked(after)
  <2> HIDE DEF g, walked
  <2> QED
    BY <1>1
<1>3. Sums(abs) = after[n]
  BY Zenon DEF Sums, Walk
<1> HIDE DEF after, g
<1>4. \A i \in 0..n : after[i] =
          IF i = 0 THEN abs
          ELSE <<after[i - 1][Upwards[i]] + after[i - 1][Upwards[i] + 1]>> \o after[i - 1]
  BY <1>2, Zenon
<1>5. n \in Nat /\ 0 \in 0..n
  OBVIOUS
<1> HIDE DEF n, walked
<1>6. after[0] = w[0]
  BY <1>4, <1>5, Zenon
<1>7. \A i \in 1..n : after[i - 1] = w[i - 1] => after[i] = w[i]
  BY <1>4, <1>5, WithinWalk, Zenon DEF n
<1>8. after[n] = w[n]
  BY <1>5, <1>6, <1>7, Agree
<1> QED
  BY <1>3, <1>8, Zenon DEF n

(* The walk of Preorder. *)
LEMMA PreorderFollows ==
  ASSUME Len(Upwards) \in Nat, NEW w, w[0] = [leaf \in 1..SHELL_CODEC_FRAME_LENGTH |-> <<>>],
         \A i \in 1..Len(Upwards) :
                 w[i] = <<<<Upwards[i]>> \o w[i - 1][Upwards[i]] \o w[i - 1][Upwards[i] + 1]>> \o w[i - 1]
  PROVE  Preorder = w[Len(Upwards)][1]
<1> DEFINE n == Len(Upwards)
           walked(f) == [i \in 0..n |->
                          IF i = 0 THEN [leaf \in 1..SHELL_CODEC_FRAME_LENGTH |-> <<>>]
                          ELSE <<<<Upwards[i]>> \o f[i - 1][Upwards[i]] \o f[i - 1][Upwards[i] + 1]>> \o f[i - 1]]
           after == CHOOSE f : f = walked(f)
           g == [i \in 0..n |-> w[i]]
<1>1. g = walked(g)
  <2>1. 0 \in 0..n /\ \A i \in 0..n : i # 0 => i \in 1..n /\ i - 1 \in 0..n
    OBVIOUS
  <2>2. \A i \in 0..n : w[i] =
            IF i = 0 THEN [leaf \in 1..SHELL_CODEC_FRAME_LENGTH |-> <<>>]
            ELSE <<<<Upwards[i]>> \o g[i - 1][Upwards[i]] \o g[i - 1][Upwards[i] + 1]>> \o g[i - 1]
    <3> HIDE DEF n
    <3>1. \A i \in 0..n : i # 0 => g[i - 1] = w[i - 1]
      BY <2>1, Zenon
    <3> HIDE DEF g
    <3> QED
      BY <2>1, <3>1, Zenon DEF n
  <2> HIDE DEF n
  <2> QED
    BY <2>2, Zenon
<1>2. after = walked(after)
  <2> HIDE DEF g, walked
  <2> QED
    BY <1>1
<1>3. Preorder = after[n][1]
  BY Zenon DEF Preorder, Walk
<1> HIDE DEF after, g
<1>4. \A i \in 0..n : after[i] =
          IF i = 0 THEN [leaf \in 1..SHELL_CODEC_FRAME_LENGTH |-> <<>>]
          ELSE <<<<Upwards[i]>> \o after[i - 1][Upwards[i]] \o after[i - 1][Upwards[i] + 1]>> \o after[i - 1]
  BY <1>2, Zenon
<1>5. n \in Nat /\ 0 \in 0..n
  OBVIOUS
<1> HIDE DEF n, walked
<1>6. after[0] = w[0]
  BY <1>4, <1>5, Zenon
<1>7. \A i \in 1..n : after[i - 1] = w[i - 1] => after[i] = w[i]
  BY <1>4, <1>5, WithinWalk, Zenon DEF n
<1>8. after[n] = w[n]
  BY <1>5, <1>6, <1>7, Agree
<1> QED
  BY <1>3, <1>8, Zenon DEF n

(* A block has two pulses or more, and an inner node for each but one of them.
   *)
LEMMA BlockSize ==
  /\ SHELL_CODEC_FRAME_LENGTH \in Nat /\ SHELL_CODEC_FRAME_LENGTH >= 2
  /\ Len(Upwards) = SHELL_CODEC_FRAME_LENGTH - 1
  /\ \A i \in 1..SHELL_CODEC_FRAME_LENGTH - 1 : Upwards[i] = SHELL_CODEC_FRAME_LENGTH - i
<1>1. 2^LEVELS \in Nat /\ 2^LEVELS > LEVELS /\ LEVELS \in Nat /\ LEVELS >= 1
  BY PowersGrow, PulseAssumption
<1>2. SHELL_CODEC_FRAME_LENGTH \in Nat /\ SHELL_CODEC_FRAME_LENGTH >= 2
  BY <1>1 DEF SHELL_CODEC_FRAME_LENGTH
<1> QED
  BY <1>2 DEF Upwards, Inner

(* The sums of a block: each node has that of its children, and the leaves are
   the magnitudes. *)
LEMMA SumsAre ==
  ASSUME NEW abs \in [1..SHELL_CODEC_FRAME_LENGTH -> Nat]
  PROVE  LET F == SHELL_CODEC_FRAME_LENGTH
             t == Sums(abs)
         IN /\ t \in Seq(Nat) /\ Len(t) = 2 * F - 1
            /\ \A n \in 1..F - 1 : t[n] = t[2 * n] + t[2 * n + 1]
            /\ \A k \in 1..F : t[F - 1 + k] = abs[k]
<1> DEFINE F == SHELL_CODEC_FRAME_LENGTH
           join == [n \in 1..F - 1 |-> [p \in Nat \X Nat |-> p[1] + p[2]]]
<1>1. F \in Nat /\ F >= 1 /\ Len(Upwards) = F - 1 /\ \A i \in 1..F - 1 : Upwards[i] = F - i
  BY BlockSize
<1>2. abs \in Seq(Nat) /\ Len(abs) = F
  <2> HIDE DEF F
  <2>1. abs \in [1..F -> Nat]
    BY DEF F
  <2> QED
    BY <1>1, <2>1
<1>3. join \in Joins(F, Nat)
  BY DEF Joins
<1>4. \A n \in 1..F - 1, x, y \in Nat : join[n][<<x, y>>] = x + y
  OBVIOUS
<1> HIDE DEF F, join
<1>5. PICK w : GrowsAlong(w, F, Nat, abs, join)
  BY <1>1, <1>2, <1>3, Grows
<1>6. \A i \in 1..F - 1 : w[i] = <<w[i - 1][Upwards[i]] + w[i - 1][Upwards[i] + 1]>> \o w[i - 1]
  <2> TAKE i \in 1..F - 1
  <2>1. i - 1 \in 0..F - 1 /\ F - i \in 1..F - 1 /\ F - i \in 1..F + (i - 1)
        /\ F - i + 1 \in 1..F + (i - 1)
    BY <1>1
  <2>2. w[i - 1] \in Seq(Nat) /\ Len(w[i - 1]) = F + (i - 1)
    BY <1>5, <2>1 DEF GrowsAlong
  <2>3. w[i - 1][F - i] \in Nat /\ w[i - 1][F - i + 1] \in Nat
    BY <2>1, <2>2
  <2>4. w[i] = <<join[F - i][<<w[i - 1][F - i], w[i - 1][F - i + 1]>>]>> \o w[i - 1]
    BY <1>5 DEF GrowsAlong
  <2>5. join[F - i][<<w[i - 1][F - i], w[i - 1][F - i + 1]>>] = w[i - 1][F - i] + w[i - 1][F - i + 1]
    BY <1>4, <2>1, <2>3
  <2>6. Upwards[i] = F - i
    BY <1>1
  <2> QED
    BY <2>4, <2>5, <2>6, Zenon
<1>7. Sums(abs) = w[F - 1]
  <2>1. w[0] = abs
    BY <1>5 DEF GrowsAlong
  <2>2. F - 1 \in Nat
    BY <1>1
  <2> QED
    BY <1>1, <1>6, <2>1, <2>2, SumsFollow, Zenon
<1>8. IsTree(w[F - 1], F, Nat, abs, join)
  BY <1>1, <1>2, <1>3, <1>5, GrownIsTree
<1> DEFINE t == Sums(abs)
<1>9. /\ t \in Seq(Nat) /\ Len(t) = 2 * F - 1
      /\ \A n \in 1..F - 1 : t[n] = join[n][<<t[2 * n], t[2 * n + 1]>>]
      /\ \A k \in 1..F : t[F - 1 + k] = abs[k]
  BY <1>7, <1>8, Zenon DEF IsTree
<1> HIDE DEF t
<1>10. ASSUME NEW n \in 1..F - 1 PROVE t[n] = t[2 * n] + t[2 * n + 1]
  <2>1. 2 * n \in 1..2 * F - 1 /\ 2 * n + 1 \in 1..2 * F - 1
    BY <1>1
  <2>2. t[2 * n] \in Nat /\ t[2 * n + 1] \in Nat
    BY <1>9, <2>1
  <2> QED
    BY <1>4, <1>9, <2>2, Zenon
<1> QED
  BY <1>9, <1>10, Zenon DEF t, F

(* The order of the nodes below each node, which for the root is Preorder. *)
IsPreorder(p) ==
  LET F == SHELL_CODEC_FRAME_LENGTH IN
  /\ p \in Seq(Seq(Inner)) /\ Len(p) = 2 * F - 1
  /\ \A n \in 1..F - 1 : p[n] = <<n>> \o p[2 * n] \o p[2 * n + 1]
  /\ \A k \in 1..F : p[F - 1 + k] = <<>>
  /\ Preorder = p[1]

(* The parts that Preorder is joined of. *)
LEMMA PreorderIs == \E p : IsPreorder(p)
<1> DEFINE F == SHELL_CODEC_FRAME_LENGTH
           V == Seq(Inner)
           none == [leaf \in 1..F |-> <<>>]
           up(n, x, y) == <<n>> \o x \o y
           join == [n \in 1..F - 1 |-> [p \in V \X V |-> up(n, p[1], p[2])]]
<1>1. F \in Nat /\ F >= 1 /\ Len(Upwards) = F - 1 /\ \A i \in 1..F - 1 : Upwards[i] = F - i
  BY BlockSize
<1>2. none \in Seq(V) /\ Len(none) = F
  <2>1. <<>> \in V
    OBVIOUS
  <2> HIDE DEF F, V
  <2> QED
    BY <1>1, <2>1
<1>3. ASSUME NEW n \in 1..F - 1, NEW x \in V, NEW y \in V PROVE up(n, x, y) \in V
  <2>1. n \in Inner
    BY DEF Inner
  <2> QED
    BY <2>1
<1> HIDE DEF up, V, none
<1>4. join \in Joins(F, V)
  BY <1>3 DEF Joins
<1>5. \A n \in 1..F - 1, x, y \in V : join[n][<<x, y>>] = up(n, x, y)
  OBVIOUS
<1> HIDE DEF F, join
<1>6. PICK w : GrowsAlong(w, F, V, none, join)
  BY <1>1, <1>2, <1>4, Grows
<1>7. \A i \in 1..F - 1 : w[i] = <<up(Upwards[i], w[i - 1][Upwards[i]], w[i - 1][Upwards[i] + 1])>> \o w[i - 1]
  <2> TAKE i \in 1..F - 1
  <2>1. i - 1 \in 0..F - 1 /\ F - i \in 1..F - 1 /\ F - i \in 1..F + (i - 1)
        /\ F - i + 1 \in 1..F + (i - 1)
    BY <1>1
  <2>2. w[i - 1] \in Seq(V) /\ Len(w[i - 1]) = F + (i - 1)
    BY <1>6, <2>1 DEF GrowsAlong
  <2>3. w[i - 1][F - i] \in V /\ w[i - 1][F - i + 1] \in V
    BY <2>1, <2>2
  <2>4. w[i] = <<join[F - i][<<w[i - 1][F - i], w[i - 1][F - i + 1]>>]>> \o w[i - 1]
    BY <1>6 DEF GrowsAlong
  <2>5. join[F - i][<<w[i - 1][F - i], w[i - 1][F - i + 1]>>] = up(F - i, w[i - 1][F - i], w[i - 1][F - i + 1])
    BY <1>5, <2>1, <2>3, Zenon
  <2>6. Upwards[i] = F - i
    BY <1>1
  <2> QED
    BY <2>4, <2>5, <2>6, Zenon
<1>8. Preorder = w[F - 1][1]
  <2>1. w[0] = none
    BY <1>6 DEF GrowsAlong
  <2>2. F - 1 \in Nat
    BY <1>1
  <2> QED
    BY <1>1, <1>7, <2>1, <2>2, PreorderFollows, Zenon DEF up, none, F
<1> DEFINE p == w[F - 1]
<1>9. IsTree(p, F, V, none, join)
  BY <1>1, <1>2, <1>4, <1>6, GrownIsTree
<1>10. /\ p \in Seq(V) /\ Len(p) = 2 * F - 1
       /\ \A n \in 1..F - 1 : p[n] = join[n][<<p[2 * n], p[2 * n + 1]>>]
       /\ \A k \in 1..F : p[F - 1 + k] = none[k]
  BY <1>9, Zenon DEF IsTree
<1> HIDE DEF p
<1>11. ASSUME NEW n \in 1..F - 1 PROVE p[n] = up(n, p[2 * n], p[2 * n + 1])
  <2>1. 2 * n \in 1..2 * F - 1 /\ 2 * n + 1 \in 1..2 * F - 1
    BY <1>1
  <2>2. p[2 * n] \in V /\ p[2 * n + 1] \in V
    BY <1>10, <2>1
  <2> QED
    BY <1>5, <1>10, <2>2, Zenon
<1>12. \A k \in 1..F : none[k] = <<>>
  BY DEF none
<1>13. Preorder = p[1]
  BY <1>8 DEF p
<1>14. IsPreorder(p)
  BY <1>10, <1>11, <1>12, <1>13, Zenon DEF IsPreorder, F, V, up
<1> QED
  BY <1>14

(* All nodes that split are inner ones. *)
LEMMA PreorderOfInner == Preorder \in Seq(Inner)
<1>1. PICK p : IsPreorder(p)
  BY PreorderIs
<1>2. p \in Seq(Seq(Inner)) /\ 1 \in 1..Len(p) /\ Preorder = p[1]
  BY <1>1, BlockSize DEF IsPreorder
<1> QED
  BY <1>2

-----------------------------------------------------------------------------
(* The levels of the inner nodes. *)
OnLevel(l, n) == 2^(LEVELS - 1 - l) <= n /\ n < 2^(LEVELS - l)

(* The level of a node is the only one whose powers of two enclose it. *)
LEMMA LevelIs ==
  ASSUME NEW n \in Inner
  PROVE  /\ n \in Nat /\ n >= 1 /\ Level(n) \in 0..LEVELS - 1 /\ OnLevel(Level(n), n)
         /\ \A l \in 0..LEVELS - 1 : OnLevel(l, n) => Level(n) = l
<1>1. /\ \A m \in Nat : 2^m \in Nat /\ 2^m > m
      /\ \A m, k \in Nat : m <= k => 2^m <= 2^k
      /\ 2^0 = 1
  BY PowersGrow, PowerOfTwo
<1>2. n \in Nat /\ n >= 1 /\ n < 2^LEVELS /\ LEVELS \in Nat /\ LEVELS >= 1
  BY BlockSize, PulseAssumption DEF Inner, SHELL_CODEC_FRAME_LENGTH
<1> DEFINE T == {m \in Nat : n < 2^m}
<1>3. PICK m \in T : \A k \in T : m <= k
  <2>1. n \in T
    BY <1>1, <1>2
  <2> HIDE <1>1, <1>2
  <2>2. T \in SUBSET Nat /\ T # {}
    BY <2>1
  <2> HIDE DEF T
  <2> QED
    BY <2>2, LeastElement
<1>4. m \in Nat /\ n < 2^m /\ m # 0
  <2>1. m \in Nat /\ n < 2^m
    OBVIOUS
  <2>2. 2^0 = 1
    BY <1>1
  <2> HIDE DEF T
  <2>3. m = 0 => n < 1
    BY <2>1, <2>2
  <2> QED
    BY <1>2, <2>1, <2>3
<1>5. m <= LEVELS
  BY <1>2, <1>3
<1>6. 2^(m - 1) <= n
  <2>1. m - 1 \in Nat /\ ~(m <= m - 1)
    BY <1>4
  <2>2. m - 1 \notin T
    BY <1>3, <2>1
  <2>3. 2^(m - 1) \in Nat
    BY <1>1, <2>1
  <2> QED
    BY <1>2, <2>1, <2>2, <2>3
<1> DEFINE l == LEVELS - m
<1>7. l \in 0..LEVELS - 1 /\ LEVELS - 1 - l = m - 1 /\ LEVELS - l = m
  BY <1>2, <1>4, <1>5
<1>8. OnLevel(l, n)
  <2> HIDE DEF l
  <2> QED
    BY <1>4, <1>6, <1>7 DEF OnLevel
<1>9. ASSUME NEW i \in 0..LEVELS - 1, NEW j \in 0..LEVELS - 1, OnLevel(i, n), OnLevel(j, n)
      PROVE  ~(i < j)
  <2>1. SUFFICES ASSUME i < j PROVE FALSE
    OBVIOUS
  <2>2. LEVELS - j \in Nat /\ LEVELS - 1 - i \in Nat /\ LEVELS - j <= LEVELS - 1 - i
    BY <1>2, <2>1
  <2> DEFINE p == 2^(LEVELS - j)
             q == 2^(LEVELS - 1 - i)
  <2>3. p <= q /\ p \in Nat /\ q \in Nat
    BY <1>1, <2>2
  <2>4. q <= n /\ n < p
    BY <1>9 DEF OnLevel
  <2> HIDE DEF p, q
  <2> QED
    BY <1>2, <2>3, <2>4
<1>10. \A i, j \in 0..LEVELS - 1 : OnLevel(i, n) /\ OnLevel(j, n) => i = j
  <2> TAKE i \in 0..LEVELS - 1, j \in 0..LEVELS - 1
  <2> HAVE OnLevel(i, n) /\ OnLevel(j, n)
  <2>1. ~(i < j) /\ ~(j < i)
    BY <1>9, Zenon
  <2>2. i \in Nat /\ j \in Nat
    BY <1>2
  <2> QED
    BY <2>1, <2>2
<1>11. Level(n) = CHOOSE i \in 0..LEVELS - 1 : OnLevel(i, n)
  BY DEF Level, OnLevel
<1> HIDE DEF l
<1>12. Level(n) \in 0..LEVELS - 1 /\ OnLevel(Level(n), n)
  BY <1>7, <1>8, <1>11, Zenon
<1>13. \A i \in 0..LEVELS - 1 : OnLevel(i, n) => Level(n) = i
  BY <1>10, <1>12, Zenon
<1> QED
  BY <1>2, <1>12, <1>13, Zenon

(* The level of the root, and those of a node and its children. *)
LEMMA LevelOfChild ==
  /\ 1 \in Inner /\ Level(1) = LEVELS - 1
  /\ \A n \in Inner : /\ 2 * n \notin Inner => Level(n) = 0
                      /\ 2 * n \in Inner => /\ 2 * n + 1 \in Inner /\ Level(n) > 0
                                            /\ Level(2 * n) = Level(n) - 1
                                            /\ Level(2 * n + 1) = Level(n) - 1
<1> DEFINE F == SHELL_CODEC_FRAME_LENGTH
<1>1. /\ \A m \in Nat : 2^m \in Nat /\ 2^(m + 1) = 2 * 2^m
      /\ \A m, k \in Nat : m <= k => 2^m <= 2^k
      /\ 2^0 = 1
  BY PowersGrow, PowerOfTwo
<1>2. LEVELS \in Nat /\ LEVELS >= 1 /\ F \in Nat /\ F >= 2 /\ F = 2^LEVELS /\ Inner = 1..F - 1
  BY BlockSize, PulseAssumption DEF Inner, SHELL_CODEC_FRAME_LENGTH
<1>3. F = 2 * 2^(LEVELS - 1) /\ 2^(LEVELS - 1) \in Nat
  <2>1. LEVELS - 1 \in Nat /\ (LEVELS - 1) + 1 = LEVELS
    BY <1>2
  <2> QED
    BY <1>1, <1>2, <2>1
<1> HIDE DEF F
<1>4. 1 \in Inner /\ Level(1) = LEVELS - 1
  <2>1. 1 \in Inner
    BY <1>2
  <2>2. LEVELS - 1 \in 0..LEVELS - 1 /\ LEVELS - 1 - (LEVELS - 1) = 0 /\ LEVELS - (LEVELS - 1) = 0 + 1
    BY <1>2
  <2>3. 2^(0 + 1) = 2
    <3>1. 0 \in Nat /\ 2 * 1 = 2
      OBVIOUS
    <3> QED
      BY <1>1, <3>1, Zenon
  <2>4. 2^(LEVELS - 1 - (LEVELS - 1)) = 1 /\ 2^(LEVELS - (LEVELS - 1)) = 2
    BY <1>1, <2>2, <2>3, Zenon
  <2>5. OnLevel(LEVELS - 1, 1)
    BY <2>4 DEF OnLevel
  <2> QED
    BY <2>1, <2>2, <2>5, LevelIs
<1>5. ASSUME NEW n \in Inner, 2 * n \notin Inner PROVE Level(n) = 0
  <2> DEFINE l == Level(n)
  <2>1. n \in Nat /\ n >= 1 /\ l \in 0..LEVELS - 1 /\ n < 2^(LEVELS - l)
    BY LevelIs DEF OnLevel
  <2> HIDE DEF l
  <2>2. ~(l > 0)
    <3>1. SUFFICES ASSUME l > 0 PROVE FALSE
      OBVIOUS
    <3>2. LEVELS - l \in Nat /\ LEVELS - 1 \in Nat /\ LEVELS - l <= LEVELS - 1
      BY <1>2, <2>1, <3>1
    <3>3. 2^(LEVELS - l) <= 2^(LEVELS - 1) /\ 2^(LEVELS - l) \in Nat
      BY <1>1, <3>2
    <3>4. 2 * n < F
      BY <1>3, <2>1, <3>3
    <3> QED
      BY <1>2, <1>5, <2>1, <3>4
  <2> QED
    BY <2>1, <2>2 DEF l
<1>6. ASSUME NEW n \in Inner, 2 * n \in Inner
      PROVE  /\ 2 * n + 1 \in Inner /\ Level(n) > 0
             /\ Level(2 * n) = Level(n) - 1 /\ Level(2 * n + 1) = Level(n) - 1
  <2> DEFINE l == Level(n)
             p == 2^(LEVELS - 1 - l)
             q == 2^(LEVELS - l)
  <2>1. n \in Nat /\ n >= 1 /\ l \in 0..LEVELS - 1 /\ p <= n /\ n < q
    BY LevelIs DEF OnLevel
  <2>2. 2 * n < F /\ 2 * n + 1 < F
    BY <1>2, <1>3, <1>6, <2>1
  <2>3. 2 * n + 1 \in Inner
    BY <1>2, <2>1, <2>2
  <2>4. p \in Nat /\ q \in Nat
    <3> HIDE DEF l
    <3>1. LEVELS - 1 - l \in Nat /\ LEVELS - l \in Nat
      BY <1>2, <2>1
    <3> QED
      BY <1>1, <3>1
  <2>5. l # 0
    <3>1. l = 0 => LEVELS - 1 - l = LEVELS - 1
      BY <1>2, <2>1
    <3>2. l = 0 => p = 2^(LEVELS - 1)
      BY <3>1
    <3> HIDE DEF p, q, l
    <3> QED
      BY <1>3, <2>1, <2>2, <2>4, <3>2
  <2> DEFINE k == l - 1
  <2>6. k \in 0..LEVELS - 1 /\ LEVELS - 1 - k = (LEVELS - 1 - l) + 1 /\ LEVELS - k = (LEVELS - l) + 1
        /\ LEVELS - 1 - l \in Nat /\ LEVELS - l \in Nat /\ l > 0
    <3> HIDE DEF l
    <3> QED
      BY <1>2, <2>1, <2>5
  <2>7. 2^(LEVELS - 1 - k) = 2 * p /\ 2^(LEVELS - k) = 2 * q
    <3> HIDE DEF l, k
    <3> QED
      BY <1>1, <2>6
  <2> HIDE DEF p, q, l, k
  <2>8. 2 * p <= 2 * n /\ 2 * n < 2 * q /\ 2 * p <= 2 * n + 1 /\ 2 * n + 1 < 2 * q
    BY <2>1, <2>4
  <2>9. OnLevel(k, 2 * n) /\ OnLevel(k, 2 * n + 1)
    BY <2>7, <2>8 DEF OnLevel
  <2>10. Level(2 * n) = k /\ Level(2 * n + 1) = k
    BY <1>6, <2>3, <2>6, <2>9, LevelIs
  <2> QED
    BY <2>3, <2>6, <2>10 DEF k, l
<1> QED
  BY <1>4, <1>5, <1>6, Zenon

-----------------------------------------------------------------------------
(* The symbols that are encoded: each has an interval in its table. *)
Tables  == UNION {[0..n -> 0..B2 - 1] : n \in Nat}
Symbols == {s \in [cdf : Tables, data : Nat] : Codeable(s.cdf, s.data)}

(* The entries of a table do not decrease. *)
LEMMA TableRises ==
  ASSUME NEW n \in Nat, NEW cdf \in [0..n -> 0..B2 - 1], \A i \in 0..n - 1 : cdf[i] <= cdf[i + 1],
         NEW i \in 0..n
  PROVE  \A j \in 0..i : cdf[j] <= cdf[i]
<1> DEFINE S == {k \in 0..n : \A j \in 0..k : cdf[j] <= cdf[k]}
<1>1. \A k \in 0..n : cdf[k] \in Nat
  BY Powers
<1>2. 0 \in S
  BY <1>1
<1>3. ASSUME NEW k \in 0..n - 1, k \in S PROVE k + 1 \in S
  <2>1. k \in 0..n /\ k + 1 \in 0..n /\ cdf[k] \in Nat /\ cdf[k + 1] \in Nat /\ cdf[k] <= cdf[k + 1]
    BY <1>1
  <2>2. ASSUME NEW j \in 0..k + 1 PROVE cdf[j] <= cdf[k + 1]
    <3>1. CASE j = k + 1
      BY <2>1, <3>1
    <3>2. CASE j \in 0..k
      <4>1. cdf[j] <= cdf[k] /\ cdf[j] \in Nat
        BY <1>1, <1>3, <3>2
      <4> QED
        BY <2>1, <4>1
    <3> QED
      BY <3>1, <3>2
  <2> QED
    BY <2>1, <2>2
<1> HIDE DEF S
<1>4. 0..n \subseteq S
  BY <1>2, <1>3, InductionUpTo
<1> QED
  BY <1>4 DEF S

(* A table goes from 0 at its first entry to the largest word at its last. *)
LEMMA TableIs ==
  ASSUME NEW cdf, IsTable(cdf)
  PROVE  \E n \in Nat : /\ n >= 1 /\ DOMAIN cdf = 0..n /\ cdf \in [0..n -> 0..B2 - 1] /\ cdf \in Tables
                        /\ cdf[0] = 0 /\ cdf[n] = B2 - 1
                        /\ \A i \in 0..n - 1 : cdf[i] <= cdf[i + 1]
<1>1. PICK n \in Nat : /\ cdf \in [0..n -> 0..B2 - 1] /\ cdf[0] = 0 /\ cdf[n] = B2 - 1
                       /\ \A i \in 0..n - 1 : cdf[i] <= cdf[i + 1]
  BY Zenon DEF IsTable
<1>2. n # 0
  BY <1>1, Powers
<1>3. cdf \in Tables
  BY <1>1 DEF Tables
<1> QED
  BY <1>1, <1>2, <1>3

(* A symbol of a table with an interval of its own. *)
LEMMA SymbolOfTable ==
  ASSUME NEW cdf, IsTable(cdf), NEW data, IsSymbol(cdf, data), cdf[data] < cdf[data + 1]
  PROVE  Codeable(cdf, data) /\ Symbol(cdf, data) \in Symbols
<1>1. PICK n \in Nat : /\ n >= 1 /\ DOMAIN cdf = 0..n /\ cdf \in [0..n -> 0..B2 - 1] /\ cdf \in Tables
                       /\ \A i \in 0..n - 1 : cdf[i] <= cdf[i + 1]
  BY TableIs, Zenon
<1>2. data \in 0..n /\ data + 1 \in 0..n
  BY <1>1, Zenon DEF IsSymbol
<1>3. data \in 0..n - 1 /\ data \in Nat
  BY <1>2
<1>4. cdf[data] \in Nat /\ cdf[data + 1] \in Nat /\ cdf[data + 1] <= B2 - 1
  BY <1>1, <1>2, Powers
<1>5. \A j \in 0..data : cdf[j] \in Nat /\ cdf[j] <= cdf[data]
  <2>1. \A j \in 0..data : cdf[j] <= cdf[data]
    BY <1>1, <1>2, TableRises
  <2>2. \A j \in 0..data : j \in 0..n
    BY <1>3
  <2> QED
    BY <1>1, <2>1, <2>2, Powers
<1>6. Codeable(cdf, data)
  BY <1>1, <1>3, <1>4, <1>5, Zenon DEF Codeable, HasInterval
<1> QED
  BY <1>1, <1>3, <1>6, Zenon DEF Symbols, Symbol

(* A table that leaves no interval empty can code all of its symbols. *)
LEMMA SymbolOfFullTable ==
  ASSUME NEW cdf, IsFullTable(cdf), NEW data, IsSymbol(cdf, data)
  PROVE  Codeable(cdf, data) /\ Symbol(cdf, data) \in Symbols
BY SymbolOfTable, Zenon DEF IsFullTable, IsSymbol

-----------------------------------------------------------------------------
(* The scaling of a block.  What is left of its magnitudes. *)
Halved(q, r) == [k \in DOMAIN q |-> Abs(q[k]) \div 2^r]

Block == [1..SHELL_CODEC_FRAME_LENGTH -> Int]

(* The magnitudes that are left are natural numbers. *)
LEMMA HalvedIs ==
  ASSUME NEW q \in Block, NEW r \in Nat
  PROVE  /\ Halved(q, r) \in [1..SHELL_CODEC_FRAME_LENGTH -> Nat]
         /\ \A k \in 1..SHELL_CODEC_FRAME_LENGTH : Abs(q[k]) \in Nat
<1>1. 2^r \in Nat /\ 2^r > 0
  BY PowersGrow
<1>2. \A k \in 1..SHELL_CODEC_FRAME_LENGTH : Abs(q[k]) \in Nat
  BY DEF Block, Abs
<1>3. \A k \in 1..SHELL_CODEC_FRAME_LENGTH : Abs(q[k]) \div 2^r \in Nat
  BY <1>1, <1>2, Division
<1>4. DOMAIN q = 1..SHELL_CODEC_FRAME_LENGTH
  BY DEF Block
<1> QED
  BY <1>2, <1>3, <1>4 DEF Halved

(* A block can be scaled down until nothing is left of it. *)
LEMMA HalvedToNothing ==
  ASSUME NEW q \in Block
  PROVE  \E m \in Nat : \A k \in 1..SHELL_CODEC_FRAME_LENGTH : Halved(q, m)[k] = 0
<1> DEFINE F == SHELL_CODEC_FRAME_LENGTH
           S == {n \in 0..F : \E m \in Nat : \A k \in 1..n : Abs(q[k]) <= m}
<1>1. F \in Nat /\ F >= 2
  BY BlockSize
<1>2. 0 \in S
  BY <1>1
<1>3. ASSUME NEW n \in 0..F - 1, n \in S PROVE n + 1 \in S
  <2>1. PICK m \in Nat : \A k \in 1..n : Abs(q[k]) <= m
    BY <1>3
  <2>2. n + 1 \in 1..F /\ n + 1 \in 0..F
    BY <1>1
  <2>3. \A k \in 1..F : Abs(q[k]) \in Nat
    <3>1. 0 \in Nat
      OBVIOUS
    <3> QED
      BY <3>1, HalvedIs
  <2> DEFINE a == Abs(q[n + 1])
  <2>4. a \in Nat /\ m + a \in Nat
    BY <2>2, <2>3
  <2>5. \A k \in 1..n + 1 : Abs(q[k]) <= m + a
    <3> TAKE k \in 1..n + 1
    <3>1. k \in 1..n \/ k = n + 1
      OBVIOUS
    <3>2. CASE k \in 1..n
      <4>1. Abs(q[k]) <= m /\ Abs(q[k]) \in Nat
        BY <1>1, <2>1, <2>3, <3>2
      <4> HIDE DEF a
      <4> QED
        BY <2>4, <4>1
    <3>3. CASE k = n + 1
      <4>1. Abs(q[k]) = a
        BY <3>3
      <4> HIDE DEF a
      <4> QED
        BY <2>4, <4>1
    <3> QED
      BY <3>1, <3>2, <3>3
  <2> QED
    BY <2>2, <2>4, <2>5
<1> HIDE DEF S
<1>4. F \in S
  <2>1. 0..F \subseteq S
    BY <1>1, <1>2, <1>3, InductionUpTo
  <2> QED
    BY <1>1, <2>1
<1>5. PICK m \in Nat : \A k \in 1..F : Abs(q[k]) <= m
  BY <1>4 DEF S
<1>6. ASSUME NEW k \in 1..F PROVE Halved(q, m)[k] = 0
  <2>1. 2^m \in Nat /\ 2^m > m
    BY PowersGrow
  <2>2. Abs(q[k]) \in Nat /\ Abs(q[k]) <= m
    BY <1>5, HalvedIs
  <2>3. Abs(q[k]) = 0 * 2^m + Abs(q[k]) /\ Abs(q[k]) < 2^m
    BY <2>1, <2>2
  <2>4. Abs(q[k]) \div 2^m = 0
    <3>1. 0 \in Nat
      OBVIOUS
    <3> QED
      BY <2>1, <2>2, <2>3, <3>1, DivisionIsUnique
  <2>5. k \in DOMAIN q
    BY DEF Block
  <2> QED
    BY <2>4, <2>5 DEF Halved
<1> QED
  BY <1>6

(* No sum of a block without pulses is too large. *)
LEMMA NothingIsNotTooMuch ==
  ASSUME NEW abs \in [1..SHELL_CODEC_FRAME_LENGTH -> Nat],
         \A k \in 1..SHELL_CODEC_FRAME_LENGTH : abs[k] = 0
  PROVE  ~TooMany(Sums(abs))
<1> DEFINE F == SHELL_CODEC_FRAME_LENGTH
           t == Sums(abs)
           n == 2 * F - 1
           S == {i \in 0..n : \A j \in i..n : j > 0 => t[j] = 0}
<1>1. F \in Nat /\ F >= 2
  BY BlockSize
<1>2. /\ t \in Seq(Nat) /\ Len(t) = n
      /\ \A i \in 1..F - 1 : t[i] = t[2 * i] + t[2 * i + 1]
      /\ \A k \in 1..F : t[F - 1 + k] = abs[k]
  BY SumsAre
<1> HIDE DEF t, F
<1>3. \A j \in F..n : t[j] = 0
  <2> TAKE j \in F..n
  <2>1. j - (F - 1) \in 1..F /\ F - 1 + (j - (F - 1)) = j
    BY <1>1
  <2>2. abs[j - (F - 1)] = 0
    BY <2>1 DEF F
  <2> QED
    BY <1>2, <2>1, <2>2
<1>4. n \in S
  BY <1>1, <1>3
<1>5. ASSUME NEW i \in 0..n - 1, i + 1 \in S PROVE i \in S
  <2>1. \A j \in i + 1..n : j > 0 => t[j] = 0
    BY <1>5
  <2>2. i > 0 => t[i] = 0
    <3>1. CASE i >= F
      BY <1>1, <1>3, <3>1
    <3>2. CASE i > 0 /\ i < F
      <4>1. i \in 1..F - 1 /\ 2 * i \in i + 1..n /\ 2 * i + 1 \in i + 1..n
        BY <1>1, <3>2
      <4>2. t[2 * i] = 0 /\ t[2 * i + 1] = 0
        BY <2>1, <4>1
      <4>3. t[i] = t[2 * i] + t[2 * i + 1]
        BY <1>2, <4>1
      <4> QED
        BY <4>2, <4>3
    <3> QED
      BY <1>1, <3>1, <3>2
  <2>3. \A j \in i..n : j > 0 => t[j] = 0
    BY <1>1, <2>1, <2>2
  <2> QED
    BY <1>1, <2>3
<1> HIDE DEF S
<1>6. 0 \in S
  <2>1. n \in Nat /\ 0 \in 0..n
    BY <1>1
  <2> HIDE DEF n
  <2> QED
    BY <1>4, <1>5, <2>1, InductionDownFrom
<1>7. \A j \in Inner : t[j] = 0
  <2>1. \A j \in Inner : j \in 0..n /\ j > 0
    BY <1>1 DEF Inner, F
  <2> QED
    BY <1>6, <2>1 DEF S
<1>8. \A j \in Inner : max_pulses_table[Level(j)] \in Nat
  BY LevelIs, PulseAssumption
<1> QED
  BY <1>7, <1>8 DEF TooMany, t

(* What a block is coded as. *)
IsScaled(block, q, r) ==
  /\ r \in Nat /\ block = [pulses |-> q, nRshifts |-> r, sum |-> Sums(Halved(q, r))]
  /\ ~TooMany(Sums(Halved(q, r)))

(* The scaling of a block ends where nothing is left of it, or before, with sums
   that are none of them too large. *)
LEMMA ScaledUpTo ==
  ASSUME NEW q \in Block, NEW m \in Nat, \A k \in 1..SHELL_CODEC_FRAME_LENGTH : Halved(q, m)[k] = 0
  PROVE  \E r \in 0..m : IsScaled(Scaled(q), q, r)
<1> DEFINE sums(r) == Sums([k \in DOMAIN q |-> Abs(q[k]) \div 2^r])
           coded(r) == [pulses |-> q, nRshifts |-> r, sum |-> sums(r)]
           down(f) == [r \in Nat |-> IF TooMany(sums(r)) THEN f[r + 1] ELSE coded(r)]
           chosen == CHOOSE f : f = down(f)
           G == {r \in Nat : ~TooMany(sums(r))}
           from(r) == {s \in G : r <= s}
           least(T) == CHOOSE s \in T : \A t \in T : s <= t
           g == [r \in Nat |-> coded(least(from(r)))]
<1>1. \A r \in Nat : sums(r) = Sums(Halved(q, r))
  BY DEF Halved
<1>2. Scaled(q) = chosen[0]
  BY Zenon DEF Scaled
<1> HIDE DEF sums
<1>3. ASSUME NEW r \in Nat PROVE g[r] = IF TooMany(sums(r)) THEN g[r + 1] ELSE coded(r)
  <2>1. r + 1 \in Nat
    OBVIOUS
  <2>2. CASE TooMany(sums(r))
    <3>1. r \notin G
      BY <2>2
    <3>2. from(r) = from(r + 1)
      <4>1. \A s \in G : s \in Nat /\ s # r
        BY <3>1
      <4> HIDE DEF G
      <4>2. \A s \in G : r <= s <=> r + 1 <= s
        BY <4>1
      <4> QED
        BY <4>2
    <3> HIDE DEF from, least, coded
    <3> QED
      BY <2>1, <2>2, <3>2, Zenon
  <2>3. CASE ~TooMany(sums(r))
    <3>1. r \in from(r) /\ \A t \in from(r) : r <= t
      BY <2>3
    <3>2. \A s \in from(r) : s \in Nat
      OBVIOUS
    <3> HIDE DEF from
    <3>3. least(from(r)) = r
      BY <3>1, <3>2
    <3> HIDE DEF least, coded
    <3> QED
      BY <2>3, <3>3, Zenon
  <2> QED
    BY <2>2, <2>3
<1>4. g = down(g)
  <2>1. g = [r \in Nat |-> g[r]]
    OBVIOUS
  <2> HIDE DEF coded, g
  <2> QED
    BY <1>3, <2>1
<1>5. chosen = down(chosen)
  <2> HIDE DEF g, down
  <2> QED
    BY <1>4
<1> HIDE DEF chosen, g
<1>6. \A r \in Nat : chosen[r] = IF TooMany(sums(r)) THEN chosen[r + 1] ELSE coded(r)
  BY <1>5, Zenon
<1> HIDE DEF down
<1>7. \A k \in 1..SHELL_CODEC_FRAME_LENGTH : Halved(q, m)[k] = 0
  OBVIOUS
<1>8. ~TooMany(sums(m))
  <2>1. Halved(q, m) \in [1..SHELL_CODEC_FRAME_LENGTH -> Nat]
    BY HalvedIs
  <2> QED
    BY <1>1, <1>7, <2>1, NothingIsNotTooMuch, Zenon
<1> DEFINE Q == {r \in 0..m : \E s \in 0..m : ~TooMany(sums(s)) /\ chosen[r] = coded(s)}
<1> HIDE DEF coded
<1>9. m \in Q
  <2>1. m \in 0..m
    OBVIOUS
  <2> QED
    BY <1>6, <1>8, <2>1, Zenon
<1>10. ASSUME NEW r \in 0..m - 1, r + 1 \in Q PROVE r \in Q
  <2>1. r \in Nat /\ r \in 0..m
    OBVIOUS
  <2>2. PICK s \in 0..m : ~TooMany(sums(s)) /\ chosen[r + 1] = coded(s)
    BY <1>10
  <2>3. chosen[r] = chosen[r + 1] \/ (~TooMany(sums(r)) /\ chosen[r] = coded(r))
    BY <1>6, <2>1, Zenon
  <2> QED
    BY <2>1, <2>2, <2>3, Zenon
<1> HIDE DEF Q
<1>11. 0 \in Q
  <2>1. 0 \in 0..m
    OBVIOUS
  <2>2. 0..m \subseteq Q
    BY <1>9, <1>10, InductionDownFrom
  <2> QED
    BY <2>1, <2>2
<1>12. PICK s \in 0..m : ~TooMany(sums(s)) /\ chosen[0] = coded(s)
  BY <1>11, Zenon DEF Q
<1>13. IsScaled(Scaled(q), q, s)
  <2>1. s \in Nat
    OBVIOUS
  <2> QED
    BY <1>1, <1>2, <1>12, <2>1, Zenon DEF IsScaled, coded
<1> QED
  BY <1>13

(* The scaling of a block ends. *)
LEMMA ScaledIs ==
  ASSUME NEW q \in Block
  PROVE  \E r \in Nat : IsScaled(Scaled(q), q, r)
<1>1. PICK m \in Nat : \A k \in 1..SHELL_CODEC_FRAME_LENGTH : Halved(q, m)[k] = 0
  BY HalvedToNothing
<1>2. PICK r \in 0..m : IsScaled(Scaled(q), q, r)
  BY <1>1, ScaledUpTo, Zenon
<1> QED
  BY <1>2

-----------------------------------------------------------------------------
(* The symbols of a block. *)

(* No sum of a block that was scaled is too large for its level: every sum
   splits into sums that the level below can take. *)
LEMMA SumsOfBlock ==
  ASSUME NEW q \in Block, NEW r, NEW block, IsScaled(block, q, r)
  PROVE  /\ block.pulses = q /\ block.nRshifts \in Nat /\ block.sum \in Seq(Nat)
         /\ Len(block.sum) = 2 * SHELL_CODEC_FRAME_LENGTH - 1
         /\ \A n \in Inner : /\ block.sum[n] \in Nat /\ block.sum[2 * n] \in Nat
                             /\ block.sum[2 * n + 1] \in Nat
                             /\ block.sum[n] = block.sum[2 * n] + block.sum[2 * n + 1]
                             /\ block.sum[n] <= max_pulses_table[Level(n)]
                             /\ IsSplit(Level(n), block.sum[n], block.sum[2 * n])
<1> DEFINE F == SHELL_CODEC_FRAME_LENGTH
           t == Sums(Halved(q, r))
<1>1. F \in Nat /\ F >= 2 /\ Inner = 1..F - 1
  BY BlockSize DEF Inner
<1>2. r \in Nat /\ block.pulses = q /\ block.nRshifts = r /\ block.sum = t /\ ~TooMany(t)
  BY DEF IsScaled
<1>3. Halved(q, r) \in [1..F -> Nat]
  BY <1>2, HalvedIs
<1>4. t \in Seq(Nat) /\ Len(t) = 2 * F - 1 /\ \A n \in 1..F - 1 : t[n] = t[2 * n] + t[2 * n + 1]
  BY <1>3, SumsAre
<1> HIDE DEF t, F
<1>5. \A n \in Inner : t[n] \in Nat /\ t[2 * n] \in Nat /\ t[2 * n + 1] \in Nat
  <2> TAKE n \in Inner
  <2>1. n \in 1..2 * F - 1 /\ 2 * n \in 1..2 * F - 1 /\ 2 * n + 1 \in 1..2 * F - 1
    BY <1>1
  <2> QED
    BY <1>4, <2>1
<1>6. \A n \in Inner : t[n] <= max_pulses_table[Level(n)]
  <2> TAKE n \in Inner
  <2>1. max_pulses_table[Level(n)] \in Nat
    BY LevelIs, PulseAssumption
  <2>2. ~(t[n] > max_pulses_table[Level(n)])
    BY <1>2 DEF TooMany
  <2> QED
    BY <1>5, <2>1, <2>2
<1>7. ASSUME NEW n \in Inner PROVE IsSplit(Level(n), t[n], t[2 * n])
  <2>1. CASE 2 * n \notin Inner
    <3>1. Level(n) = 0
      BY <2>1, LevelOfChild
    <3> QED
      BY <3>1 DEF IsSplit
  <2>2. CASE 2 * n \in Inner
    <3>1. 2 * n + 1 \in Inner /\ Level(2 * n) = Level(n) - 1 /\ Level(2 * n + 1) = Level(n) - 1
      BY <2>2, LevelOfChild
    <3>2. t[2 * n] <= max_pulses_table[Level(n) - 1] /\ t[2 * n + 1] <= max_pulses_table[Level(n) - 1]
      BY <1>6, <2>2, <3>1
    <3>3. t[n] - t[2 * n] = t[2 * n + 1]
      <4>1. n \in 1..F - 1
        BY <1>1
      <4>2. t[n] = t[2 * n] + t[2 * n + 1] /\ t[2 * n] \in Nat /\ t[2 * n + 1] \in Nat
        BY <1>4, <1>5, <4>1, Zenon
      <4> DEFINE x == t[2 * n]
                 y == t[2 * n + 1]
      <4>3. t[n] = x + y /\ x \in Nat /\ y \in Nat
        BY <4>2
      <4> HIDE DEF x, y
      <4>4. t[n] - x = y
        BY <4>3
      <4> QED
        BY <4>4 DEF x, y
    <3> DEFINE rest == t[n] - t[2 * n]
               below == max_pulses_table[Level(n) - 1]
    <3>4. rest = t[2 * n + 1]
      BY <3>3
    <3> HIDE DEF rest, below
    <3>5. t[2 * n] <= below /\ rest <= below
      BY <3>2, <3>4, Zenon DEF below
    <3> QED
      BY <3>5, Zenon DEF IsSplit, rest, below
  <2> QED
    BY <2>1, <2>2
<1> QED
  BY <1>1, <1>2, <1>4, <1>5, <1>6, <1>7, Zenon DEF F

(* The sum of a block, and the escapes before it, have intervals. *)
LEMMA SumSymbolsAre ==
  ASSUME NEW q \in Block, NEW r, NEW block, IsScaled(block, q, r), NEW rate \in 0..N_RATE_LEVELS - 1
  PROVE  SumSymbols(block, rate) \in Seq(Symbols)
<1> DEFINE escape == MAX_PULSES + 1
           last == N_RATE_LEVELS - 1
           sum == block.sum[1]
<1>1. MAX_PULSES \in Nat /\ last \in 0..N_RATE_LEVELS - 1
  BY PulseAssumption DEF MAX_PULSES
<1>2. sum \in Nat /\ sum <= MAX_PULSES /\ block.nRshifts \in Nat
  BY SumsOfBlock, LevelOfChild DEF MAX_PULSES
<1> HIDE DEF last, sum
<1>3. ASSUME NEW level \in 0..N_RATE_LEVELS - 1, NEW data \in 0..MAX_PULSES + 1
      PROVE  Symbol(pulses_per_block_CDF[level], data) \in Symbols
  <2> DEFINE cdf == pulses_per_block_CDF[level]
  <2>1. IsFullTable(cdf) /\ DOMAIN cdf = 0..MAX_PULSES + 2
    BY PulseTables
  <2>2. IsSymbol(cdf, data)
    BY <1>1, <2>1 DEF IsSymbol
  <2> HIDE DEF cdf
  <2>3. Symbol(cdf, data) \in Symbols
    BY <2>1, <2>2, SymbolOfFullTable
  <2> QED
    BY <2>3 DEF cdf
<1>4. escape \in 0..MAX_PULSES + 1 /\ sum \in 0..MAX_PULSES + 1
  BY <1>1, <1>2
<1> HIDE DEF escape
<1> DEFINE a == Symbol(pulses_per_block_CDF[rate], sum)
           c == Symbol(pulses_per_block_CDF[rate], escape)
           d == Symbol(pulses_per_block_CDF[last], escape)
           e == Symbol(pulses_per_block_CDF[last], sum)
<1>5. a \in Symbols /\ c \in Symbols /\ d \in Symbols /\ e \in Symbols
  BY <1>1, <1>3, <1>4
<1>6. SumSymbols(block, rate) =
        IF block.nRshifts = 0 THEN <<a>> ELSE <<c>> \o [i \in 1..block.nRshifts - 1 |-> d] \o <<e>>
  BY Zenon DEF SumSymbols, escape, last, sum
<1> HIDE DEF a, c, d, e
<1>7. block.nRshifts # 0 => [i \in 1..block.nRshifts - 1 |-> d] \in Seq(Symbols)
  BY <1>2, <1>5
<1> QED
  BY <1>5, <1>6, <1>7

(* The splits of a block have intervals. *)
LEMMA ShellSymbolsAre ==
  ASSUME NEW q \in Block, NEW r, NEW block, IsScaled(block, q, r)
  PROVE  ShellSymbols(block) \in Seq(Symbols)
<1>1. Preorder \in Seq(Inner)
  BY PreorderOfInner
<1> DEFINE m == Len(Preorder)
<1>2. m \in Nat /\ DOMAIN Preorder = 1..m /\ \A i \in 1..m : Preorder[i] \in Inner
  BY <1>1
<1> HIDE DEF m
<1>3. ASSUME NEW n \in Inner PROVE SplitSymbols(block.sum, n) \in Seq(Symbols)
  <2> DEFINE level == Level(n)
             sum == block.sum[n]
             k == block.sum[2 * n]
             cdf == shell_code_table[level][sum]
  <2>1. /\ level \in 0..LEVELS - 1 /\ sum \in Nat /\ k \in Nat /\ block.sum[2 * n + 1] \in Nat
        /\ sum = k + block.sum[2 * n + 1] /\ sum <= max_pulses_table[level] /\ IsSplit(level, sum, k)
    <3>1. level \in 0..LEVELS - 1
      BY LevelIs
    <3>2. \A i \in Inner : /\ block.sum[i] \in Nat /\ block.sum[2 * i] \in Nat
                           /\ block.sum[2 * i + 1] \in Nat
                           /\ block.sum[i] = block.sum[2 * i] + block.sum[2 * i + 1]
      BY SumsOfBlock
    <3>3. sum <= max_pulses_table[level]
      BY SumsOfBlock, Zenon
    <3>4. IsSplit(level, sum, k)
      BY SumsOfBlock, Zenon
    <3> QED
      BY <3>1, <3>2, <3>3, <3>4, Zenon
  <2>2. max_pulses_table[level] \in Nat
    BY <2>1, PulseAssumption
  <2> HIDE DEF level, sum, k
  <2>3. k \in 0..sum
    BY <2>1
  <2>4. CASE sum = 0
    BY <2>4 DEF SplitSymbols, sum
  <2>5. CASE sum # 0
    <3>1. sum \in 1..max_pulses_table[level]
      BY <2>1, <2>2, <2>5
    <3>2. /\ IsTable(cdf) /\ DOMAIN cdf = 0..sum + 1
          /\ \A i \in 0..sum : cdf[i] < cdf[i + 1] <=> IsSplit(level, sum, i)
      BY <2>1, <3>1, PulseTables, Zenon
    <3>3. cdf[k] < cdf[k + 1]
      BY <2>1, <2>3, <3>2, Zenon
    <3>4. IsSymbol(cdf, k)
      BY <2>1, <2>3, <3>2 DEF IsSymbol
    <3>5. SplitSymbols(block.sum, n) = <<Symbol(cdf, k)>>
      BY <2>5 DEF SplitSymbols, level, sum, k
    <3> HIDE DEF cdf
    <3>6. Symbol(cdf, k) \in Symbols
      BY <3>2, <3>3, <3>4, SymbolOfTable
    <3> QED
      BY <3>5, <3>6
  <2> QED
    BY <2>4, <2>5
<1> DEFINE parts == [i \in 1..m |-> SplitSymbols(block.sum, Preorder[i])]
<1>4. parts \in Parts(m, Symbols)
  BY <1>2, <1>3 DEF Parts
<1>5. ShellSymbols(block) = Concat(parts)
  BY <1>2, Zenon DEF ShellSymbols
<1> HIDE DEF parts
<1> QED
  BY <1>2, <1>4, <1>5, ConcatType, Zenon

(* The bits that were shifted out have intervals. *)
LEMMA LsbSymbolsAre ==
  ASSUME NEW q \in Block, NEW r, NEW block, IsScaled(block, q, r)
  PROVE  LsbSymbols(block) \in Seq(Symbols)
<1> DEFINE F == SHELL_CODEC_FRAME_LENGTH
           shifts == block.nRshifts
           bit(k, j) == (Abs(block.pulses[k]) \div 2^(shifts - j)) % 2
           part(k) == [j \in 1..shifts |-> Symbol(lsb_CDF, bit(k, j))]
           parts == [k \in 1..F |-> part(k)]
<1>1. shifts \in Nat /\ block.pulses = q /\ F \in Nat /\ DOMAIN q = 1..F
  BY SumsOfBlock, BlockSize DEF Block
<1>2. \A k \in 1..F : Abs(q[k]) \in Nat
  <2>1. 0 \in Nat
    OBVIOUS
  <2> QED
    BY <2>1, HalvedIs
<1>3. ASSUME NEW k \in 1..F, NEW j \in 1..shifts PROVE bit(k, j) \in 0..1
  <2> DEFINE a == Abs(q[k])
             d == 2^(shifts - j)
  <2>1. a \in Nat /\ d \in Nat /\ d > 0
    <3>1. shifts - j \in Nat
      BY <1>1
    <3> QED
      BY <1>2, <3>1, PowersGrow
  <2>2. bit(k, j) = (a \div d) % 2
    BY <1>1
  <2> HIDE DEF a, d
  <2>3. a \div d \in Nat
    BY <2>1, Division
  <2> QED
    BY <2>2, <2>3
<1> HIDE DEF bit
<1>4. ASSUME NEW data \in 0..1 PROVE Symbol(lsb_CDF, data) \in Symbols
  <2>1. IsFullTable(lsb_CDF) /\ DOMAIN lsb_CDF = 0..2
    BY PulseTables
  <2>2. IsSymbol(lsb_CDF, data)
    BY <2>1 DEF IsSymbol
  <2> QED
    BY <2>1, <2>2, SymbolOfFullTable
<1>5. \A k \in 1..F : part(k) \in Seq(Symbols)
  <2> TAKE k \in 1..F
  <2>1. \A j \in 1..shifts : Symbol(lsb_CDF, bit(k, j)) \in Symbols
    BY <1>3, <1>4
  <2> HIDE DEF shifts
  <2> QED
    BY <1>1, <2>1
<1> HIDE DEF F
<1>6. parts \in Parts(F, Symbols)
  <2> HIDE DEF part
  <2> QED
    BY <1>5 DEF Parts
<1>7. LsbSymbols(block) = Concat(parts)
  BY <1>1, Zenon DEF LsbSymbols, bit
<1> HIDE DEF parts
<1> QED
  BY <1>1, <1>6, <1>7, ConcatType, Zenon

(* The signs have intervals. *)
LEMMA SignSymbolsAre ==
  ASSUME NEW q \in Block, NEW r, NEW block, IsScaled(block, q, r),
         NEW cdf, IsFullTable(cdf), DOMAIN cdf = 0..2
  PROVE  SignSymbols(block, cdf) \in Seq(Symbols)
<1> DEFINE F == SHELL_CODEC_FRAME_LENGTH
           part(k) == IF q[k] = 0 THEN <<>> ELSE <<Symbol(cdf, IF q[k] < 0 THEN 0 ELSE 1)>>
           parts == [k \in 1..F |-> part(k)]
<1>1. block.pulses = q /\ F \in Nat /\ DOMAIN q = 1..F
  BY SumsOfBlock, BlockSize DEF Block
<1>2. ASSUME NEW data \in 0..1 PROVE Symbol(cdf, data) \in Symbols
  <2>1. IsSymbol(cdf, data)
    BY DEF IsSymbol
  <2> QED
    BY <2>1, SymbolOfFullTable
<1>3. \A k \in 1..F : part(k) \in Seq(Symbols)
  <2>1. Symbol(cdf, 0) \in Symbols /\ Symbol(cdf, 1) \in Symbols
    BY <1>2
  <2> QED
    BY <2>1
<1> HIDE DEF F
<1>4. parts \in Parts(F, Symbols)
  <2> HIDE DEF part
  <2> QED
    BY <1>3 DEF Parts
<1>5. SignSymbols(block, cdf) = Concat(parts)
  BY <1>1, Zenon DEF SignSymbols
<1> HIDE DEF parts
<1> QED
  BY <1>1, <1>4, <1>5, ConcatType, Zenon

(* The symbols of the excitation of a frame. *)
LEMMA PulseSymbolsAre ==
  ASSUME NEW q \in Pulses, NEW sigtype \in 0..1, NEW offset \in 0..1,
         NEW rate \in 0..N_RATE_LEVELS - 2
  PROVE  PulseSymbols(q, sigtype, offset, rate) \in Seq(Symbols)
<1> DEFINE block == [i \in Blocks |-> Scaled(q[i])]
           sign  == sign_CDF[sigtype][offset][rate]
<1>1. BLOCKS \in Nat /\ Blocks = 1..BLOCKS /\ N_RATE_LEVELS \in Nat
  BY PulseAssumption DEF Blocks
<1>2. \A i \in Blocks : q[i] \in Block
  BY DEF Pulses, Block
<1>3. \A i \in Blocks : \E r : IsScaled(block[i], q[i], r)
  BY <1>2, ScaledIs, Zenon
<1>4. IsFullTable(sign) /\ DOMAIN sign = 0..2
  BY PulseTables
<1>5. rate \in 0..N_RATE_LEVELS - 1
  BY <1>1
<1>6. Symbol(rate_levels_CDF[sigtype], rate) \in Symbols
  <2>1. IsFullTable(rate_levels_CDF[sigtype]) /\ DOMAIN rate_levels_CDF[sigtype] = 0..N_RATE_LEVELS - 1
    BY PulseTables
  <2>2. IsSymbol(rate_levels_CDF[sigtype], rate)
    BY <1>1, <2>1 DEF IsSymbol
  <2> QED
    BY <2>1, <2>2, SymbolOfFullTable
<1> DEFINE sums   == [i \in Blocks |-> SumSymbols(block[i], rate)]
           shells == [i \in Blocks |-> ShellSymbols(block[i])]
           lsbs   == [i \in Blocks |-> LsbSymbols(block[i])]
           signs  == [i \in Blocks |-> SignSymbols(block[i], sign)]
<1>7. PulseSymbols(q, sigtype, offset, rate) =
        <<Symbol(rate_levels_CDF[sigtype], rate)>> \o Concat(sums) \o Concat(shells)
          \o Concat(lsbs) \o Concat(signs)
  BY Zenon DEF PulseSymbols
<1> HIDE DEF block, sign
<1>8. \A i \in Blocks : /\ SumSymbols(block[i], rate) \in Seq(Symbols)
                        /\ ShellSymbols(block[i]) \in Seq(Symbols)
                        /\ LsbSymbols(block[i]) \in Seq(Symbols)
                        /\ SignSymbols(block[i], sign) \in Seq(Symbols)
  <2> TAKE i \in Blocks
  <2>1. PICK r : IsScaled(block[i], q[i], r)
    BY <1>3
  <2>2. q[i] \in Block
    BY <1>2
  <2> QED
    BY <1>4, <1>5, <2>1, <2>2, SumSymbolsAre, ShellSymbolsAre, LsbSymbolsAre, SignSymbolsAre, Zenon
<1>9. /\ sums \in Parts(BLOCKS, Symbols) /\ shells \in Parts(BLOCKS, Symbols)
      /\ lsbs \in Parts(BLOCKS, Symbols) /\ signs \in Parts(BLOCKS, Symbols)
  BY <1>1, <1>8 DEF Parts
<1> HIDE DEF sums, shells, lsbs, signs
<1>10. /\ Concat(sums) \in Seq(Symbols) /\ Concat(shells) \in Seq(Symbols)
       /\ Concat(lsbs) \in Seq(Symbols) /\ Concat(signs) \in Seq(Symbols)
  BY <1>1, <1>9, ConcatType, Zenon
<1> QED
  BY <1>6, <1>7, <1>10

(* Every symbol of a frame, at either place of a packet, has an interval in the
   table that SKP_Silk_encode_parameters() and SKP_Silk_encode_pulses() code it
   with. *)
THEOREM FrameSymbolsAre ==
  ASSUME NEW f, NEW prev \in 0..3, NEW first \in BOOLEAN,
         IsFrame(f, IF first THEN gain_CDF[Sigtype(f)] ELSE delta_gain_CDF)
  PROVE  FrameSymbols(f, first, prev) \in Seq(Symbols) /\ f.typeOffset \in 0..3
<1> DEFINE sigtype == Sigtype(f)
           offset  == QuantOffsetType(f)
<1>1. /\ f.fs \in Rates /\ f.typeOffset \in 0..3 /\ f.rate \in 0..N_RATE_LEVELS - 2 /\ f.q \in Pulses
  BY DEF IsFrame
<1>2. sigtype \in 0..1 /\ offset \in 0..1
  BY <1>1 DEF Sigtype, QuantOffsetType
<1> HIDE DEF offset
<1>3. BookOf(f.fs) \in Books
  BY DEF BookOf, Books
<1> DEFINE rate  == Symbol(SamplingRates_CDF, f.fs)
           type  == Symbol(type_offset_CDF, f.typeOffset)
           gain  == Symbol(gain_CDF[sigtype], f.gain)
           joint == Symbol(type_offset_joint_CDF[prev], f.typeOffset)
           delta == Symbol(delta_gain_CDF, f.gain)
           nlsf  == Symbol(NLSF_CDF[BookOf(f.fs)][sigtype], f.nlsf)
           lag   == Symbol(pitch_lag_CDF[f.fs], f.lag)
           seed  == Symbol(Seed_CDF, f.seed)
           vad   == Symbol(vadflag_CDF, f.vad)
           pulses == PulseSymbols(f.q, sigtype, offset, f.rate)
<1>4. rate \in Symbols /\ type \in Symbols /\ joint \in Symbols
  <2>1. \A cdf \in {SamplingRates_CDF, type_offset_CDF, type_offset_joint_CDF[prev]} :
          IsFullTable(cdf) /\ DOMAIN cdf = 0..4
    BY IndexTables
  <2>2. \A cdf \in {SamplingRates_CDF, type_offset_CDF, type_offset_joint_CDF[prev]} :
          \A data \in 0..3 : IsSymbol(cdf, data)
    BY <2>1 DEF IsSymbol
  <2>3. \A cdf \in {SamplingRates_CDF, type_offset_CDF, type_offset_joint_CDF[prev]} :
          \A data \in 0..3 : Symbol(cdf, data) \in Symbols
    BY <2>1, <2>2, SymbolOfFullTable
  <2> QED
    BY <1>1, <2>3 DEF Rates
<1>5. IF first THEN gain \in Symbols ELSE delta \in Symbols
  <2>1. IsFullTable(delta_gain_CDF) /\ IsFullTable(gain_CDF[sigtype])
    BY <1>2, IndexTables
  <2>2. IsSymbol(IF first THEN gain_CDF[sigtype] ELSE delta_gain_CDF, f.gain)
    BY DEF IsFrame
  <2> HIDE DEF sigtype
  <2> QED
    BY <2>1, <2>2, SymbolOfFullTable
<1>6. nlsf \in Symbols
  <2>1. IsFullTable(NLSF_CDF[BookOf(f.fs)][sigtype])
    BY <1>2, <1>3, IndexTables
  <2>2. IsSymbol(NLSF_CDF[BookOf(f.fs)][sigtype], f.nlsf)
    BY DEF IsFrame
  <2> HIDE DEF sigtype
  <2> QED
    BY <2>1, <2>2, SymbolOfFullTable
<1>7. sigtype = VOICED => lag \in Symbols
  <2>1. IsFullTable(pitch_lag_CDF[f.fs])
    BY <1>1, IndexTables
  <2>2. sigtype = VOICED => IsSymbol(pitch_lag_CDF[f.fs], f.lag)
    BY DEF IsFrame
  <2> QED
    BY <2>1, <2>2, SymbolOfFullTable
<1>8. seed \in Symbols /\ vad \in Symbols
  <2>1. IsFullTable(Seed_CDF) /\ IsFullTable(vadflag_CDF)
    BY IndexTables
  <2>2. IsSymbol(Seed_CDF, f.seed) /\ IsSymbol(vadflag_CDF, f.vad)
    BY DEF IsFrame
  <2> QED
    BY <2>1, <2>2, SymbolOfFullTable
<1> HIDE DEF sigtype
<1>9. pulses \in Seq(Symbols)
  BY <1>1, <1>2, PulseSymbolsAre
<1>10. FrameSymbols(f, first, prev) =
         (IF first THEN <<rate, type, gain>> ELSE <<joint, delta>>) \o <<nlsf>>
           \o (IF sigtype = VOICED THEN <<lag>> ELSE <<>>) \o <<seed>> \o pulses \o <<vad>>
  BY Zenon DEF FrameSymbols, sigtype, offset
<1> HIDE DEF rate, type, gain, joint, delta, nlsf, lag, seed, vad, pulses
<1>11. (IF first THEN <<rate, type, gain>> ELSE <<joint, delta>>) \in Seq(Symbols)
  BY <1>4, <1>5
<1>12. (IF sigtype = VOICED THEN <<lag>> ELSE <<>>) \in Seq(Symbols)
  BY <1>7
<1>13. <<nlsf>> \in Seq(Symbols) /\ <<seed>> \in Seq(Symbols) /\ <<vad>> \in Seq(Symbols)
  BY <1>6, <1>8
<1> QED
  BY <1>1, <1>9, <1>10, <1>11, <1>12, <1>13

-----------------------------------------------------------------------------

(* A coder that is walked through symbols. *)
LEMMA EncodeFollows ==
  ASSUME NEW rc, NEW symbols, Len(symbols) \in Nat, NEW w, w[0] = rc,
         \A i \in 1..Len(symbols) : w[i] = RangeEncode(w[i - 1], symbols[i].cdf, symbols[i].data)
  PROVE  EncodeSymbols(rc, symbols) = w[Len(symbols)]
<1> DEFINE n == Len(symbols)
           walked(f) == [i \in 0..n |->
                          IF i = 0 THEN rc
                          ELSE RangeEncode(f[i - 1], symbols[i].cdf, symbols[i].data)]
           after == CHOOSE f : f = walked(f)
           g == [i \in 0..n |-> w[i]]
<1>1. g = walked(g)
  <2>1. 0 \in 0..n /\ \A i \in 0..n : i # 0 => i \in 1..n /\ i - 1 \in 0..n
    OBVIOUS
  <2>2. \A i \in 0..n : w[i] =
            IF i = 0 THEN rc
            ELSE RangeEncode(g[i - 1], symbols[i].cdf, symbols[i].data)
    <3> HIDE DEF n
    <3>1. \A i \in 0..n : i # 0 => g[i - 1] = w[i - 1]
      BY <2>1, Zenon
    <3> HIDE DEF g
    <3> QED
      BY <2>1, <3>1, Zenon DEF n
  <2> HIDE DEF n
  <2> QED
    BY <2>2, Zenon
<1>2. after = walked(after)
  <2> HIDE DEF g, walked
  <2> QED
    BY <1>1
<1>3. EncodeSymbols(rc, symbols) = after[n]
  BY Zenon DEF EncodeSymbols, Walk
<1> HIDE DEF after, g
<1>4. \A i \in 0..n : after[i] =
          IF i = 0 THEN rc
          ELSE RangeEncode(after[i - 1], symbols[i].cdf, symbols[i].data)
  BY <1>2, Zenon
<1>5. n \in Nat /\ 0 \in 0..n
  OBVIOUS
<1> HIDE DEF n, walked
<1>6. after[0] = w[0]
  BY <1>4, <1>5, Zenon
<1>7. \A i \in 1..n : after[i - 1] = w[i - 1] => after[i] = w[i]
  BY <1>4, <1>5, WithinWalk, Zenon DEF n
<1>8. after[n] = w[n]
  BY <1>5, <1>6, <1>7, Agree
<1> QED
  BY <1>3, <1>8, Zenon DEF n

(* Symbols with intervals keep a coder normal, however many they are. *)
LEMMA EncodedIsNormal ==
  ASSUME NEW rc, Normal(rc), NEW symbols \in Seq(Symbols)
  PROVE  Normal(EncodeSymbols(rc, symbols))
<1> DEFINE n == Len(symbols)
           S == {c \in Coder : Normal(c)}
           step == [i \in 1..n |-> [c \in S |-> RangeEncode(c, symbols[i].cdf, symbols[i].data)]]
<1>1. n \in Nat /\ \A i \in 1..n : symbols[i] \in Symbols
  OBVIOUS
<1>2. \A c : c \in S <=> Normal(c)
  BY DEF Normal
<1> HIDE DEF n, S
<1>3. \A i \in 1..n : \A c \in S : RangeEncode(c, symbols[i].cdf, symbols[i].data) \in S
  <2> TAKE i \in 1..n
  <2> TAKE c \in S
  <2>1. HasInterval(symbols[i].cdf, symbols[i].data)
    BY <1>1 DEF Symbols, Codeable
  <2> QED
    BY <1>2, <2>1, EncoderStaysNormal, Zenon
<1>4. step \in Steps(n, S)
  BY <1>3 DEF Steps
<1> HIDE DEF step
<1>5. PICK w : WalksAlong(w, n, S, rc, step)
  BY <1>1, <1>2, <1>4, StepsExist, Zenon
<1>6. (\A i \in 1..n : w[i - 1] \in S) /\ w[n] \in S
  BY <1>1, <1>5, StaysAlong, Zenon
<1>7. w[0] = rc /\ \A i \in 1..n : w[i] = RangeEncode(w[i - 1], symbols[i].cdf, symbols[i].data)
  BY <1>5, <1>6, Zenon DEF WalksAlong, step
<1>8. EncodeSymbols(rc, symbols) = w[n]
  BY <1>1, <1>7, EncodeFollows, Zenon DEF n
<1> QED
  BY <1>2, <1>6, <1>8, Zenon

-----------------------------------------------------------------------------
(* The sender. *)
SenderInv ==
  /\ Normal(enc.rc) /\ enc.error # CARRY_LOST /\ enc.prev \in 0..3
  /\ Normal(packet.rc) /\ packet.rc.error = OK

(* The error of a normal coder is not that of a lost carry. *)
LEMMA NormalError ==
  ASSUME NEW rc, Normal(rc)
  PROVE  rc.error # CARRY_LOST
BY DEF Normal, Coder, CARRY_LOST, OK, WRITE_BEYOND

(* An encoder between two packets is as it is at the start. *)
LEMMA IdleIs ==
  ASSUME NEW error
  PROVE  /\ Normal(Idle(error).rc) /\ Idle(error).error = error /\ Idle(error).prev \in 0..3
         /\ Normal(NoPacket.rc) /\ NoPacket.rc.error = OK
<1>1. RangeEncInit.error = OK
  BY DEF RangeEncInit
<1> QED
  BY <1>1, EncoderStartsNormal DEF Idle, NoPacket

(* The coder after the parameters of a frame, and after its terminator. *)
LEMMA ParametersAreNormal ==
  ASSUME SenderInv, NEW f \in NextFrames
  PROVE  Normal(Parameters(f)) /\ f.typeOffset \in 0..3
<1> DEFINE first == enc.n = 0
<1>1. IsFrame(f, IF first THEN gain_CDF[Sigtype(f)] ELSE delta_gain_CDF)
  BY FrameAssumption DEF NextFrames
<1>2. first \in BOOLEAN /\ enc.prev \in 0..3 /\ Normal(enc.rc)
  BY DEF SenderInv
<1>3. Parameters(f) = EncodeSymbols(enc.rc, FrameSymbols(f, first, enc.prev))
  BY Zenon DEF Parameters
<1> HIDE DEF first
<1>4. FrameSymbols(f, first, enc.prev) \in Seq(Symbols) /\ f.typeOffset \in 0..3
  BY <1>1, <1>2, FrameSymbolsAre, Zenon
<1> QED
  BY <1>2, <1>3, <1>4, EncodedIsNormal, Zenon

(* The terminator behind a frame keeps a coder normal. *)
LEMMA TerminatedIsNormal ==
  ASSUME NEW rc, Normal(rc), NEW term, IsSymbol(FrameTermination_CDF, term)
  PROVE  Normal(RangeEncode(rc, FrameTermination_CDF, term))
<1>1. IsFullTable(FrameTermination_CDF)
  BY IndexTables
<1>2. HasInterval(FrameTermination_CDF, term)
  BY <1>1, SymbolOfFullTable DEF Codeable
<1> QED
  BY <1>2, EncoderStaysNormal, Zenon

(* The sender at the start. *)
LEMMA SenderStarts == Init => SenderInv
<1> SUFFICES ASSUME Init PROVE SenderInv
  OBVIOUS
<1>1. enc = Idle(OK) /\ packet = NoPacket
  BY DEF Init
<1>2. OK # CARRY_LOST
  BY DEF OK, CARRY_LOST
<1> QED
  BY <1>1, <1>2, IdleIs, Zenon DEF SenderInv

(* A frame that is followed by others keeps the sender's invariant. *)
LEMMA FrameKeepsSender ==
  ASSUME SenderInv, NEW f \in NextFrames, NEW rc, rc = Parameters(f), EncodeFrame(f, rc)
  PROVE  SenderInv'
<1> DEFINE n     == IF rc.error = OK THEN enc.n + 1 ELSE 0
           ended == RangeEncode(rc, FrameTermination_CDF, MORE_FRAMES)
<1>1. Normal(rc) /\ f.typeOffset \in 0..3
  BY ParametersAreNormal
<1>2. Normal(ended)
  BY <1>1, TerminatedIsNormal, IndexTables
<1>3. /\ enc' = IF n = 0 THEN Idle(rc.error)
                ELSE [rc |-> ended, n |-> n, prev |-> f.typeOffset, fs |-> f.fs, error |-> ended.error]
      /\ packet' = packet
  BY Zenon DEF EncodeFrame
<1> HIDE DEF n, ended
<1>4. rc.error # CARRY_LOST /\ ended.error # CARRY_LOST
  BY <1>1, <1>2, NormalError
<1>5. CASE n = 0
  <2>1. enc' = Idle(rc.error)
    BY <1>3, <1>5
  <2> QED
    BY <1>3, <1>4, <2>1, IdleIs DEF SenderInv
<1>6. CASE n # 0
  <2>1. enc'.rc = ended /\ enc'.prev = f.typeOffset /\ enc'.error = ended.error
    BY <1>3, <1>6
  <2> QED
    BY <1>1, <1>2, <1>3, <1>4, <2>1 DEF SenderInv
<1> QED
  BY <1>5, <1>6

(* The last frame of a packet keeps it too. *)
LEMMA LastFrameKeepsSender ==
  ASSUME SenderInv, NEW f \in NextFrames, NEW rc, rc = Parameters(f), NEW r \in Redundancy,
         EncodeLastFrame(f, rc, r.term, r.lbrr)
  PROVE  SenderInv'
<1> DEFINE ended == RangeEncode(rc, FrameTermination_CDF, r.term)
<1>1. Normal(rc)
  BY ParametersAreNormal
<1>2. Normal(ended)
  BY <1>1, TerminatedIsNormal, PayloadAssumption
<1>3. enc' = Idle(ended.error) /\ (packet' = NoPacket \/ (packet'.rc = ended /\ ended.error = OK))
  BY DEF EncodeLastFrame
<1> HIDE DEF ended
<1>4. ended.error # CARRY_LOST
  BY <1>2, NormalError
<1> QED
  BY <1>2, <1>3, <1>4, IdleIs DEF SenderInv

(* Every step keeps it. *)
LEMMA SenderSteps ==
  ASSUME SenderInv, [Next]_vars
  PROVE  SenderInv'
<1>1. ASSUME Encode PROVE SenderInv'
  <2>1. PICK f \in NextFrames : \E rc \in {Parameters(f)} :
          EncodeFrame(f, rc) \/ \E r \in Redundancy : EncodeLastFrame(f, rc, r.term, r.lbrr)
    BY <1>1, Zenon DEF Encode
  <2>2. PICK rc : rc = Parameters(f) /\
          (EncodeFrame(f, rc) \/ \E r \in Redundancy : EncodeLastFrame(f, rc, r.term, r.lbrr))
    BY <2>1, Zenon
  <2> QED
    BY <2>2, FrameKeepsSender, LastFrameKeepsSender, Zenon
<1>2. ASSUME enc' = enc, packet' = packet PROVE SenderInv'
  BY <1>2 DEF SenderInv
<1>3. ASSUME enc' = enc, packet' = NoPacket PROVE SenderInv'
  BY <1>3, IdleIs DEF SenderInv
<1>4. ASSUME ChangeRate PROVE SenderInv'
  <2>1. enc' = Idle(OK) /\ packet' = packet
    BY <1>4 DEF ChangeRate
  <2>2. OK # CARRY_LOST
    BY DEF OK, CARRY_LOST
  <2> QED
    BY <2>1, <2>2, IdleIs DEF SenderInv
<1>5. ASSUME Stray PROVE SenderInv'
  <2>1. enc' = enc /\ packet'.rc = RangeEncInit
    BY <1>5 DEF Stray
  <2>2. RangeEncInit.error = OK
    BY DEF RangeEncInit
  <2> QED
    BY <2>1, <2>2, EncoderStartsNormal DEF SenderInv
<1>6. DecodeFirst \/ Lose => enc' = enc /\ packet' = NoPacket
  BY Zenon DEF DecodeFirst, Lose
<1>7. DecodeNext \/ Take \/ UNCHANGED vars => enc' = enc /\ packet' = packet
  BY DEF DecodeNext, Take, vars
<1> QED
  BY <1>1, <1>2, <1>3, <1>4, <1>5, <1>6, <1>7, Zenon DEF Next

(* Whatever is sent, for whatever frames, tables and bytes: no carry leaves
   the buffer of the encoder, neither while symbols are encoded nor when the
   stream is wrapped up (the loops over --bufferIx_tmp in
   SKP_Silk_range_coder.c). *)
THEOREM CarriesStayInside == Spec => []CarryStaysInside
<1>1. SenderInv => CarryStaysInside
  BY WrapUpStaysInside DEF SenderInv, CarryStaysInside
<1> QED
  BY <1>1, SenderStarts, SenderSteps, PTL DEF Spec

-----------------------------------------------------------------------------
(* The coder of the decoder, with or without an error. *)
ReadErrors == {OK, CDF_OUT_OF_RANGE, NORMALIZATION, ZERO_INTERVAL, CHECK_FAILED, READ_BEYOND}

Readers == [base : Nat, range : B..B2 - 1, ix : Nat, length : Nat, buffer : Seq(Byte),
            error : ReadErrors]

Reader == {rc \in Readers : Len(rc.buffer) = rc.length + 4}

(* The fields of a coder of the decoder. *)
LEMMA ReaderParts ==
  ASSUME NEW rc \in Reader
  PROVE  /\ rc.base \in Nat /\ rc.range \in B..B2 - 1 /\ rc.ix \in Nat /\ rc.length \in Nat
         /\ rc.buffer \in Seq(Byte) /\ rc.error \in ReadErrors
         /\ Len(rc.buffer) = rc.length + 4
         /\ rc.error = OK => rc \in Decoder
<1>1. rc \in Readers /\ Len(rc.buffer) = rc.length + 4
  BY DEF Reader
<1>2. rc.error = OK => rc \in Decoder
  BY <1>1 DEF Readers, Decoder
<1> QED
  BY <1>1, <1>2 DEF Readers

(* What does not touch the bytes leaves a coder of the decoder one. *)
LEMMA ReaderUpdates ==
  ASSUME NEW rc \in Reader
  PROVE  /\ \A error \in ReadErrors : [rc EXCEPT !.error = error] \in Reader
         /\ \A base \in Nat, range \in B..B2 - 1 : [rc EXCEPT !.base = base, !.range = range] \in Reader
         /\ \A base, ix \in Nat : /\ [rc EXCEPT !.base = base, !.ix = ix] \in Reader
                                  /\ [rc EXCEPT !.base = base, !.ix = ix].error = rc.error
BY DEF Reader, Readers

(* One byte shifted in leaves a coder of the decoder one. *)
LEMMA ReadByteKeepsReader ==
  ASSUME NEW rc \in Reader
  PROVE  ReadByte(rc) \in Reader /\ ReadByte(rc).error = rc.error
<1> DEFINE byte == IF rc.ix < rc.length THEN rc.buffer[rc.ix + 5] ELSE 0
           base == rc.base * B + byte
           ix   == IF rc.ix < rc.length THEN rc.ix + 1 ELSE rc.ix
<1>1. byte \in Nat
  <2>1. rc.ix < rc.length => rc.ix + 5 \in 1..Len(rc.buffer)
    BY ReaderParts
  <2>2. rc.ix < rc.length => rc.buffer[rc.ix + 5] \in Byte
    BY <2>1, ReaderParts
  <2>3. Byte \subseteq Nat
    BY Powers DEF Byte
  <2> QED
    BY <2>2, <2>3
<1>2. base \in Nat /\ ix \in Nat
  <2>1. rc.base \in Nat /\ rc.ix \in Nat /\ B \in Nat
    BY ReaderParts, Powers
  <2>2. rc.base * B \in Nat
    BY <2>1
  <2> HIDE DEF byte
  <2> QED
    BY <1>1, <2>1, <2>2
<1>3. ReadByte(rc) = [rc EXCEPT !.base = base, !.ix = ix]
  BY DEF ReadByte
<1> HIDE DEF base, ix
<1>4. /\ [rc EXCEPT !.base = base, !.ix = ix] \in Reader
      /\ [rc EXCEPT !.base = base, !.ix = ix].error = rc.error
  BY <1>2, ReaderUpdates, Zenon
<1> QED
  BY <1>3, <1>4, Zenon

(* So do as many as a normalization asks for. *)
LEMMA ShiftedKeepsReader ==
  ASSUME NEW rc \in Reader, NEW n \in 0..2
  PROVE  Shifted(rc, n) \in Reader /\ Shifted(rc, n).error = rc.error
<1>1. n = 0 \/ n = 1 \/ n = 2
  OBVIOUS
<1>2. CASE n = 0
  BY <1>2 DEF Shifted
<1>3. CASE n = 1
  BY <1>3, ReadByteKeepsReader DEF Shifted
<1>4. CASE n = 2
  BY <1>4, ReadByteKeepsReader DEF Shifted
<1> QED
  BY <1>1, <1>2, <1>3, <1>4

(* What a table yields to the decoder: a symbol of its with an interval of its
   own, or zero and an error. *)
Yields(r, rc, cdf) ==
  /\ r.rc \in Reader /\ r.data \in Nat
  /\ r.rc.error # OK => r.data = 0
  /\ r.rc.error = OK => /\ rc.error = OK /\ IsSymbol(cdf, r.data)
                        /\ cdf[r.data] < cdf[r.data + 1]

(* An error yields zero. *)
LEMMA FailedYields ==
  ASSUME NEW rc \in Reader, NEW cdf, NEW error \in ReadErrors, error # OK
  PROVE  Yields(Failed(rc, error), rc, cdf)
<1>1. [rc EXCEPT !.error = error] \in Reader
  BY ReaderUpdates
<1>2. [rc EXCEPT !.error = error].error = error
  BY DEF Reader, Readers
<1> QED
  BY <1>1, <1>2 DEF Failed, Yields

(* A symbol that is found has an interval, since the base lies in it. *)
LEMMA DecodeYields ==
  ASSUME NEW rc \in Reader, NEW cdf, rc.error = OK => IsTable(cdf)
  PROVE  Yields(RangeDecode(rc, cdf), rc, cdf)
<1>1. CASE rc.error # OK
  BY <1>1 DEF RangeDecode, Yields
<1>2. CASE rc.error = OK /\ rc.base >= rc.range * (B2 - 1)
  <2>1. CDF_OUT_OF_RANGE \in ReadErrors /\ CDF_OUT_OF_RANGE # OK
    BY DEF ReadErrors, CDF_OUT_OF_RANGE, OK
  <2>2. RangeDecode(rc, cdf) = Failed(rc, CDF_OUT_OF_RANGE)
    BY <1>2 DEF RangeDecode
  <2> QED
    BY <2>1, <2>2, FailedYields
<1>3. CASE rc.error = OK /\ ~(rc.base >= rc.range * (B2 - 1))
  <2> DEFINE R == rc.range
             x == rc.base
             above(i) == x < R * cdf[i] /\ \A j \in 0..i - 1 : R * cdf[j] <= x
  <2>1. R \in Nat /\ R \in B..B2 - 1 /\ x \in Nat /\ rc \in Decoder
    BY <1>3, ReaderParts, Powers
  <2>2. PICK m \in Nat : /\ m >= 1 /\ DOMAIN cdf = 0..m /\ cdf \in [0..m -> 0..B2 - 1]
                         /\ cdf[0] = 0 /\ cdf[m] = B2 - 1
    BY <1>3, TableIs, Zenon
  <2>3. \A i \in 0..m : cdf[i] \in Nat /\ cdf[i] <= B2 - 1 /\ R * cdf[i] \in Nat
    <3>1. \A i \in 0..m : cdf[i] \in 0..B2 - 1
      BY <2>2
    <3> QED
      BY <2>1, <3>1, Powers
  <2>4. x < R * cdf[m]
    BY <1>3, <2>1, <2>2, Powers
  <2>5. RangeDecode(rc, cdf) = Decoded(rc, cdf, Found(rc, cdf) - 1)
    BY <1>3 DEF RangeDecode
  <2>6. Found(rc, cdf) = CHOOSE i \in DOMAIN cdf : above(i)
    BY DEF Found
  <2>7. R * cdf[0] = 0
    BY <2>1, <2>2
  <2> HIDE DEF R, x
  <2> DEFINE T == {i \in 0..m : x < R * cdf[i]}
  <2>8. PICK i \in T : \A j \in T : i <= j
    <3>1. T \in SUBSET Nat /\ m \in T
      BY <2>2, <2>4
    <3> HIDE DEF T
    <3> QED
      BY <3>1, LeastElement
  <2>9. i \in DOMAIN cdf /\ above(i)
    <3>1. \A j \in 0..i - 1 : j \in 0..m /\ j \notin T
      BY <2>2, <2>8
    <3>2. \A j \in 0..i - 1 : R * cdf[j] <= x
      BY <2>1, <2>3, <3>1
    <3> QED
      BY <2>2, <3>2
  <2> DEFINE found == Found(rc, cdf)
             data  == found - 1
  <2>10. found \in DOMAIN cdf /\ above(found)
    <3> HIDE DEF above
    <3> QED
      BY <2>6, <2>9, Zenon
  <2> HIDE DEF found
  <2>11. found # 0 /\ found \in 0..m
    BY <2>1, <2>2, <2>7, <2>10
  <2>12. data \in 0..m - 1 /\ data \in 0..m /\ data + 1 = found /\ data \in 0..found - 1 /\ data \in Nat
    BY <2>11
  <2>13. R * cdf[data] <= x /\ x < R * cdf[data + 1]
    BY <2>10, <2>12
  <2>14. cdf[data] < cdf[data + 1]
    <3>1. cdf[data] \in Nat /\ cdf[data + 1] \in Nat /\ R * cdf[data] \in Nat /\ R * cdf[data + 1] \in Nat
      BY <2>3, <2>11, <2>12
    <3>2. \A p, q, r \in Nat : q <= p => r * q <= r * p
      BY SMT
    <3>3. cdf[data + 1] <= cdf[data] => R * cdf[data + 1] <= R * cdf[data]
      BY <2>1, <3>1, <3>2
    <3> QED
      BY <2>1, <2>13, <3>1, <3>3
  <2>15. HasInterval(cdf, data)
    BY <2>3, <2>11, <2>12, <2>14 DEF HasInterval
  <2>16. IsSymbol(cdf, data)
    BY <2>2, <2>11, <2>12 DEF IsSymbol
  <2> HIDE DEF data
  <2> DEFINE base  == rc.base - rc.range * cdf[data]
             width == rc.range * (cdf[data + 1] - cdf[data])
             n     == Normalization(width)
             next  == [rc EXCEPT !.base = base, !.range = Narrowed(width)]
  <2>17. /\ base \in Nat /\ n \in 0..2 /\ Narrowed(width) \in B..B2 - 1
         /\ Decoded(rc, cdf, data) = [rc |-> Shifted(next, n), data |-> data]
    BY <2>1, <2>13, <2>15, DecodedIs DEF R, x
  <2> HIDE DEF base, width, n
  <2>18. next \in Reader
    BY <2>17, ReaderUpdates
  <2>19. next.error = OK
    BY <1>3 DEF Reader, Readers
  <2> HIDE DEF next
  <2>20. Shifted(next, n) \in Reader /\ Shifted(next, n).error = OK
    BY <2>17, <2>18, <2>19, ShiftedKeepsReader
  <2>21. RangeDecode(rc, cdf) = [rc |-> Shifted(next, n), data |-> data]
    BY <2>5, <2>17 DEF data, found
  <2> QED
    BY <1>3, <2>12, <2>14, <2>16, <2>20, <2>21 DEF Yields, data
<1> QED
  BY <1>1, <1>2, <1>3

-----------------------------------------------------------------------------
(* A frame that is being decoded. *)
Frames ==
  [rc : Reader, data : Nat, first : BOOLEAN, book : Books, fs : Rates, typeOffset : 0..3,
   gain : Nat, nlsf : Nat, lag : Nat, seed : Nat, rate : 0..N_RATE_LEVELS - 2,
   sum : Seq(0..MAX_PULSES), shifts : Seq(Nat), tree : Seq(Nat), q : Seq(Seq(Int)),
   vad : Nat, term : Nat]

(* The fields of a frame that is being decoded. *)
LEMMA FrameParts ==
  ASSUME NEW d \in Frames
  PROVE  /\ d.rc \in Reader /\ d.data \in Nat /\ d.first \in BOOLEAN /\ d.book \in Books
         /\ d.fs \in Rates /\ d.typeOffset \in 0..3 /\ d.rate \in 0..N_RATE_LEVELS - 2
         /\ d.sum \in Seq(0..MAX_PULSES) /\ d.shifts \in Seq(Nat) /\ d.tree \in Seq(Nat)
         /\ d.q \in Seq(Seq(Int))
BY DEF Frames

(* Fields of it that are replaced by others of their types. *)
LEMMA FrameUpdates ==
  ASSUME NEW d \in Frames
  PROVE  /\ \A rc \in Reader, data \in Nat : [d EXCEPT !.rc = rc, !.data = data] \in Frames
         /\ \A sum \in Seq(0..MAX_PULSES) : [d EXCEPT !.sum = sum] \in Frames
         /\ \A shifts \in Seq(Nat) : [d EXCEPT !.shifts = shifts] \in Frames
         /\ \A tree \in Seq(Nat) : [d EXCEPT !.tree = tree] \in Frames
         /\ \A q \in Seq(Seq(Int)) : [d EXCEPT !.q = q] \in Frames
         /\ \A book \in Books : [d EXCEPT !.book = book] \in Frames
<1>1. \A rc \in Reader, data \in Nat : [d EXCEPT !.rc = rc, !.data = data] \in Frames
  BY DEF Frames
<1>2. \A sum \in Seq(0..MAX_PULSES) : [d EXCEPT !.sum = sum] \in Frames
  BY DEF Frames
<1>3. \A shifts \in Seq(Nat) : [d EXCEPT !.shifts = shifts] \in Frames
  BY DEF Frames
<1>4. \A tree \in Seq(Nat) : [d EXCEPT !.tree = tree] \in Frames
  BY DEF Frames
<1>5. \A q \in Seq(Seq(Int)) : [d EXCEPT !.q = q] \in Frames
  BY DEF Frames
<1>6. \A book \in Books : [d EXCEPT !.book = book] \in Frames
  BY DEF Frames
<1> QED
  BY <1>1, <1>2, <1>3, <1>4, <1>5, <1>6

(* What a field of it holds may come from the symbol that was read last. *)
LEMMA KeepIs ==
  ASSUME NEW d \in Frames
  PROVE  /\ \A field \in {"gain", "nlsf", "lag", "seed", "vad", "term"} : Keep(d, field) \in Frames
         /\ d.data \in 0..3 => Keep(d, "fs") \in Frames /\ Keep(d, "typeOffset") \in Frames
         /\ d.data \in 0..N_RATE_LEVELS - 2 => Keep(d, "rate") \in Frames
<1>1. \A field \in {"gain", "nlsf", "lag", "seed", "vad", "term"} : Keep(d, field) \in Frames
  BY DEF Keep, Frames
<1>2. d.data \in 0..3 => Keep(d, "fs") \in Frames /\ Keep(d, "typeOffset") \in Frames
  BY DEF Keep, Frames, Rates
<1>3. d.data \in 0..N_RATE_LEVELS - 2 => Keep(d, "rate") \in Frames
  BY DEF Keep, Frames
<1> QED
  BY <1>1, <1>2, <1>3

(* What a table yields to a frame. *)
Reads(e, d, cdf) ==
  /\ e \in Frames
  /\ e.sum = d.sum /\ e.shifts = d.shifts /\ e.tree = d.tree
  /\ e.rc.error # OK => e.data = 0
  /\ e.rc.error = OK => /\ d.rc.error = OK /\ IsSymbol(cdf, e.data)
                        /\ cdf[e.data] < cdf[e.data + 1]

(* A symbol is read for a frame. *)
LEMMA ReadIs ==
  ASSUME NEW d \in Frames, NEW cdf, d.rc.error = OK => IsTable(cdf)
  PROVE  Reads(Read(d, cdf), d, cdf)
<1> DEFINE r == RangeDecode(d.rc, cdf)
           e == [d EXCEPT !.rc = r.rc, !.data = r.data]
<1>1. d.rc \in Reader
  BY FrameParts
<1>2. Yields(r, d.rc, cdf)
  BY <1>1, DecodeYields
<1>3. Read(d, cdf) = e
  BY DEF Read, Put
<1> HIDE DEF r
<1>4. e \in Frames
  BY <1>2, FrameUpdates DEF Yields
<1>5. e.rc = r.rc /\ e.data = r.data /\ e.sum = d.sum /\ e.shifts = d.shifts /\ e.tree = d.tree
  BY DEF Frames
<1> HIDE DEF e
<1> QED
  BY <1>2, <1>3, <1>4, <1>5, Zenon DEF Reads, Yields

(* With a table for so many symbols, one of them or zero has been read. *)
LEMMA ReadWithin ==
  ASSUME NEW d \in Frames, NEW cdf, IsFullTable(cdf), NEW m \in Nat, DOMAIN cdf = 0..m
  PROVE  Read(d, cdf) \in Frames /\ Read(d, cdf).data \in 0..m - 1
<1> DEFINE e == Read(d, cdf)
<1>1. IsTable(cdf)
  BY DEF IsFullTable
<1>2. Reads(e, d, cdf)
  BY <1>1, ReadIs
<1>3. PICK n \in Nat : n >= 1 /\ DOMAIN cdf = 0..n
  BY <1>1, TableIs, Zenon
<1>4. n = m
  BY <1>3
<1> HIDE DEF e
<1>5. e \in Frames /\ e.data \in Nat
  BY <1>2, FrameParts DEF Reads
<1>6. CASE e.rc.error # OK
  BY <1>2, <1>3, <1>4, <1>5, <1>6 DEF Reads, e
<1>7. CASE e.rc.error = OK
  <2>1. e.data \in 0..m /\ e.data + 1 \in 0..m
    BY <1>2, <1>7, Zenon DEF Reads, IsSymbol
  <2> QED
    BY <1>5, <2>1 DEF e
<1> QED
  BY <1>6, <1>7

-----------------------------------------------------------------------------
(* The sums of the blocks. *)
LEMMA RatesOfPulses ==
  /\ N_RATE_LEVELS \in Nat /\ N_RATE_LEVELS >= 2 /\ MAX_PULSES \in Nat /\ MAX_SHIFTS \in Nat
  /\ BLOCKS \in Nat /\ Len(InBlocks) = BLOCKS
<1>1. N_RATE_LEVELS \in Nat /\ MAX_PULSES \in Nat /\ BLOCKS \in Nat
  BY PulseAssumption DEF MAX_PULSES
<1>2. PICK n \in Nat : n >= 1 /\ DOMAIN rate_levels_CDF[0] = 0..n
  <2>1. IsTable(rate_levels_CDF[0])
    BY PulseTables DEF IsFullTable
  <2> QED
    BY <2>1, TableIs, Zenon
<1>3. 0..n = 0..N_RATE_LEVELS - 1
  BY <1>2, PulseTables
<1>4. MAX_SHIFTS \in Nat
  BY ByteAssumption, BufferAssumption DEF MAX_SHIFTS
<1> QED
  BY <1>1, <1>2, <1>3, <1>4 DEF InBlocks, Blocks

(* The type of a frame selects a row of the tables. *)
LEMMA SigtypeIs ==
  ASSUME NEW d \in Frames
  PROVE  Sigtype(d) \in 0..1 /\ QuantOffsetType(d) \in 0..1
<1>1. d.typeOffset \in 0..3
  BY FrameParts
<1> QED
  BY <1>1 DEF Sigtype, QuantOffsetType

(* The frames with so many sums and shifts. *)
Sized(n, m) == {d \in Frames : Len(d.sum) = n /\ Len(d.shifts) = m}

(* The rate level selects a row of the tables of the sums. *)
LEMMA ReadRateIs ==
  ASSUME NEW d \in Frames
  PROVE  ReadRate(d) \in Frames /\ ReadRate(d).sum = d.sum /\ ReadRate(d).shifts = d.shifts
<1> DEFINE cdf == rate_levels_CDF[Sigtype(d)]
           e == Read(d, cdf)
<1>1. IsFullTable(cdf) /\ DOMAIN cdf = 0..N_RATE_LEVELS - 1
  BY SigtypeIs, PulseTables
<1>2. N_RATE_LEVELS - 1 \in Nat /\ N_RATE_LEVELS - 1 - 1 = N_RATE_LEVELS - 2
  BY RatesOfPulses
<1>3. ReadRate(d) = Keep(e, "rate")
  BY DEF ReadRate
<1> HIDE DEF cdf
<1>4. e \in Frames /\ e.data \in 0..N_RATE_LEVELS - 2
  BY <1>1, <1>2, ReadWithin
<1>5. e.sum = d.sum /\ e.shifts = d.shifts
  BY <1>1, ReadIs DEF Reads, IsFullTable
<1> HIDE DEF e
<1>6. Keep(e, "rate") \in Frames
  BY <1>4, KeepIs
<1>7. Keep(e, "rate").sum = e.sum /\ Keep(e, "rate").shifts = e.shifts
  BY <1>4 DEF Keep, Frames
<1> QED
  BY <1>3, <1>5, <1>6, <1>7

(* A frame that a table of the sums was read for. *)
LEMMA SizedRead ==
  ASSUME NEW n \in Nat, NEW m \in Nat, NEW d \in Sized(n, m), NEW level \in 0..N_RATE_LEVELS - 1
  PROVE  Read(d, pulses_per_block_CDF[level]) \in Sized(n, m)
<1> DEFINE cdf == pulses_per_block_CDF[level]
<1>1. IsTable(cdf)
  BY PulseTables DEF IsFullTable
<1>2. d \in Frames /\ Len(d.sum) = n /\ Len(d.shifts) = m
  BY DEF Sized
<1> HIDE DEF cdf
<1>3. Reads(Read(d, cdf), d, cdf)
  BY <1>1, <1>2, ReadIs
<1>4. Read(d, cdf) \in Sized(n, m)
  BY <1>2, <1>3 DEF Reads, Sized
<1> QED
  BY <1>4 DEF cdf

(* One escape leaves as many sums and shifts. *)
LEMMA UnescapeIs ==
  ASSUME NEW n \in Nat, NEW m \in Nat, NEW d \in Sized(n, m), NEW i
  PROVE  Unescape(d, i) \in Sized(n, m)
<1> DEFINE shifts == [d.shifts EXCEPT ![i] = @ + 1]
           e == [d EXCEPT !.shifts = shifts]
<1>1. d \in Frames /\ Len(d.sum) = n /\ Len(d.shifts) = m /\ d.shifts \in Seq(Nat)
  BY FrameParts DEF Sized
<1>2. shifts \in Seq(Nat) /\ Len(shifts) = m
  <2> DEFINE s == d.shifts
  <2>1. s \in Seq(Nat) /\ Len(s) = m
    BY <1>1
  <2> HIDE DEF s
  <2>2. DOMAIN s = 1..m /\ \A j \in 1..m : s[j] \in Nat
    BY <2>1
  <2>3. shifts = [j \in 1..m |-> IF j = i THEN s[j] + 1 ELSE s[j]]
    BY <2>2 DEF s
  <2>4. \A j \in 1..m : (IF j = i THEN s[j] + 1 ELSE s[j]) \in Nat
    BY <2>2
  <2> HIDE DEF shifts
  <2> QED
    BY <2>3, <2>4
<1>3. [d EXCEPT !.shifts[i] = @ + 1] = e
  OBVIOUS
<1> HIDE DEF shifts
<1>4. e \in Frames
  BY <1>1, <1>2, FrameUpdates
<1>5. e.sum = d.sum /\ e.shifts = shifts
  BY <1>1 DEF Frames
<1> HIDE DEF e
<1>6. e \in Sized(n, m)
  BY <1>1, <1>2, <1>4, <1>5 DEF Sized
<1>7. Unescape(d, i) = Read(e, pulses_per_block_CDF[N_RATE_LEVELS - 1])
  BY <1>3 DEF Unescape
<1>8. N_RATE_LEVELS - 1 \in 0..N_RATE_LEVELS - 1
  BY RatesOfPulses
<1> QED
  BY <1>6, <1>7, <1>8, SizedRead

Unescapes(w, d, block, times) ==
  /\ Len(Repeated(block, times)) \in Nat /\ w[0] = d
  /\ \A k \in 1..Len(Repeated(block, times)) :
       w[k] = Unescape(w[k - 1], Repeated(block, times)[k])

(* The walk of Unescaped(). *)
LEMMA UnescapedFollows ==
  ASSUME NEW d, NEW block, NEW times, NEW w, Unescapes(w, d, block, times)
  PROVE  Unescaped(d, block, times) = w[Len(Repeated(block, times))]
<1> DEFINE n == Len(Repeated(block, times))
           walked(f) == [i \in 0..n |->
                          IF i = 0 THEN d
                          ELSE Unescape(f[i - 1], Repeated(block, times)[i])]
           after == CHOOSE f : f = walked(f)
           g == [i \in 0..n |-> w[i]]
<1>0. /\ n \in Nat /\ w[0] = d
      /\ \A i \in 1..n : w[i] = Unescape(w[i - 1], Repeated(block, times)[i])
  BY Zenon DEF Unescapes
<1>1. g = walked(g)
  <2>1. 0 \in 0..n /\ \A i \in 0..n : i # 0 => i \in 1..n /\ i - 1 \in 0..n
    BY <1>0
  <2>2. \A i \in 0..n : w[i] = IF i = 0 THEN d ELSE Unescape(g[i - 1], Repeated(block, times)[i])
    <3> HIDE DEF n
    <3>1. \A i \in 0..n : i # 0 => g[i - 1] = w[i - 1]
      BY <2>1, Zenon
    <3> HIDE DEF g
    <3> QED
      BY <1>0, <2>1, <3>1, Zenon
  <2> HIDE DEF n
  <2> QED
    BY <2>2, Zenon
<1>2. after = walked(after)
  <2> HIDE DEF g, walked
  <2> QED
    BY <1>1
<1>3. Unescaped(d, block, times) = after[n]
  BY Zenon DEF Unescaped, Walk
<1> HIDE DEF after, g
<1>4. \A i \in 0..n : after[i] =
          IF i = 0 THEN d
          ELSE Unescape(after[i - 1], Repeated(block, times)[i])
  BY <1>2, Zenon
<1>5. n \in Nat /\ 0 \in 0..n
  BY <1>0
<1> HIDE DEF n, walked
<1>6. after[0] = w[0]
  BY <1>0, <1>4, <1>5, Zenon
<1>7. \A i \in 1..n : after[i - 1] = w[i - 1] => after[i] = w[i]
  BY <1>0, <1>4, <1>5, WithinWalk, Zenon
<1>8. after[n] = w[n]
  BY <1>5, <1>6, <1>7, Agree
<1> QED
  BY <1>3, <1>8, Zenon DEF n

(* The walk of ReadSums(). *)
LEMMA ReadSumsFollow ==
  ASSUME NEW d, Len(InBlocks) \in Nat, NEW w, w[0] = d,
         \A i \in 1..Len(InBlocks) : w[i] = ReadSum(w[i - 1], InBlocks[i])
  PROVE  ReadSums(d) = w[Len(InBlocks)]
<1> DEFINE n == Len(InBlocks)
           walked(f) == [i \in 0..n |-> IF i = 0 THEN d ELSE ReadSum(f[i - 1], InBlocks[i])]
           after == CHOOSE f : f = walked(f)
           g == [i \in 0..n |-> w[i]]
<1>1. g = walked(g)
  <2>1. 0 \in 0..n /\ \A i \in 0..n : i # 0 => i \in 1..n /\ i - 1 \in 0..n
    OBVIOUS
  <2>2. \A i \in 0..n : w[i] = IF i = 0 THEN d ELSE ReadSum(g[i - 1], InBlocks[i])
    <3> HIDE DEF n
    <3>1. \A i \in 0..n : i # 0 => g[i - 1] = w[i - 1]
      BY <2>1, Zenon
    <3> HIDE DEF g
    <3> QED
      BY <2>1, <3>1, Zenon DEF n
  <2> HIDE DEF n
  <2> QED
    BY <2>2, Zenon
<1>2. after = walked(after)
  <2> HIDE DEF g, walked
  <2> QED
    BY <1>1
<1>3. ReadSums(d) = after[n]
  BY Zenon DEF ReadSums, Walk
<1> HIDE DEF after, g
<1>4. \A i \in 0..n : after[i] = IF i = 0 THEN d ELSE ReadSum(after[i - 1], InBlocks[i])
  BY <1>2, Zenon
<1>5. n \in Nat /\ 0 \in 0..n
  OBVIOUS
<1> HIDE DEF n, walked
<1>6. after[0] = w[0]
  BY <1>4, <1>5, Zenon
<1>7. \A i \in 1..n : after[i - 1] = w[i - 1] => after[i] = w[i]
  BY <1>4, <1>5, WithinWalk, Zenon DEF n
<1>8. after[n] = w[n]
  BY <1>5, <1>6, <1>7, Agree
<1> QED
  BY <1>3, <1>8, Zenon DEF n

(* Any number of escapes leaves as many sums and shifts. *)
LEMMA UnescapedIs ==
  ASSUME NEW n \in Nat, NEW m \in Nat, NEW d \in Sized(n, m), NEW i, NEW times \in Nat
  PROVE  Unescaped(d, i, times) \in Sized(n, m)
<1> DEFINE S == Sized(n, m)
           s == Repeated(i, times)
           step == [k \in 1..times |-> [e \in S |-> Unescape(e, i)]]
<1>1. Len(s) = times /\ \A k \in 1..times : s[k] = i
  BY DEF Repeated
<1>2. step \in Steps(times, S)
  BY UnescapeIs DEF Steps
<1> HIDE DEF step, S
<1>3. PICK w : WalksAlong(w, times, S, d, step)
  BY <1>2, StepsExist, Zenon DEF S
<1>4. (\A k \in 1..times : w[k - 1] \in S) /\ w[times] \in S
  BY <1>3, StaysAlong, Zenon
<1>5. \A k \in 1..times : w[k] = Unescape(w[k - 1], s[k])
  <2> HIDE DEF s
  <2> QED
    BY <1>1, <1>3, <1>4, Zenon DEF WalksAlong, step
<1>6. Unescapes(w, d, i, times)
  <2>1. w[0] = d /\ Len(s) \in Nat /\ \A k \in 1..Len(s) : w[k] = Unescape(w[k - 1], s[k])
    <3> HIDE DEF s
    <3> QED
      BY <1>1, <1>3, <1>5, Zenon DEF WalksAlong
  <2> QED
    BY <2>1, Zenon DEF Unescapes
<1>7. Unescaped(d, i, times) = w[Len(s)]
  BY <1>6, UnescapedFollows, Zenon
<1> HIDE DEF s
<1> QED
  BY <1>1, <1>4, <1>7, Zenon DEF S

(* The number of the escapes exists: there is a least one that ends them. *)
LEMMA EscapesAre ==
  ASSUME NEW n \in Nat, NEW m \in Nat, NEW d \in Sized(n, m), NEW i
  PROVE  Escapes(d, i) \in Nat
<1> DEFINE ends(k) == k < MAX_SHIFTS => Unescaped(d, i, k).data <= MAX_PULSES
           last(k) == ends(k) /\ \A j \in 0..k - 1 : Unescaped(d, i, j).data > MAX_PULSES
           T == {k \in 0..MAX_SHIFTS : ends(k)}
<1>1. MAX_SHIFTS \in Nat /\ MAX_PULSES \in Nat
  BY RatesOfPulses
<1>2. \A k \in Nat : Unescaped(d, i, k).data \in Nat
  BY UnescapedIs, FrameParts DEF Sized
<1>3. PICK k \in T : \A j \in T : k <= j
  <2>1. T \in SUBSET Nat /\ MAX_SHIFTS \in T
    BY <1>1
  <2> HIDE DEF T
  <2> QED
    BY <2>1, LeastElement
<1>4. k \in 0..MAX_SHIFTS /\ last(k)
  <2>1. \A j \in 0..k - 1 : j \in Nat /\ j \in 0..MAX_SHIFTS /\ j < MAX_SHIFTS /\ ~(k <= j)
    BY <1>1
  <2>2. \A j \in 0..k - 1 : ~(Unescaped(d, i, j).data <= MAX_PULSES)
    BY <1>3, <2>1
  <2>3. \A j \in 0..k - 1 : Unescaped(d, i, j).data > MAX_PULSES
    BY <1>1, <1>2, <2>1, <2>2
  <2> QED
    BY <2>3
<1>5. Escapes(d, i) = CHOOSE times \in 0..MAX_SHIFTS : last(times)
  BY DEF Escapes
<1> HIDE DEF last
<1>6. Escapes(d, i) \in 0..MAX_SHIFTS
  BY <1>4, <1>5, Zenon
<1> QED
  BY <1>1, <1>6

(* A sum that is taken is in the tables. *)
LEMMA BoundedIs ==
  ASSUME NEW n \in Nat, NEW m \in Nat, NEW d \in Sized(n, m)
  PROVE  Bounded(d) \in Sized(n, m) /\ Bounded(d).data \in 0..MAX_PULSES
<1>1. d \in Frames /\ Len(d.sum) = n /\ Len(d.shifts) = m /\ d.data \in Nat /\ d.rc \in Reader
      /\ MAX_PULSES \in Nat
  BY FrameParts, RatesOfPulses DEF Sized
<1>2. CASE d.data <= MAX_PULSES
  BY <1>1, <1>2 DEF Bounded
<1>3. CASE ~(d.data <= MAX_PULSES)
  <2> DEFINE rc == [d.rc EXCEPT !.error = READ_BEYOND]
             e == [d EXCEPT !.rc = rc, !.data = 0]
  <2>1. rc \in Reader
    <3>1. READ_BEYOND \in ReadErrors
      BY DEF ReadErrors
    <3> QED
      BY <1>1, <3>1, ReaderUpdates
  <2>2. Bounded(d) = e
    BY <1>3 DEF Bounded, Put, Failed
  <2> HIDE DEF rc
  <2>3. e \in Frames
    BY <1>1, <2>1, FrameUpdates
  <2>4. e.sum = d.sum /\ e.shifts = d.shifts /\ e.data = 0
    BY <1>1 DEF Frames
  <2> HIDE DEF e
  <2> QED
    BY <1>1, <2>2, <2>3, <2>4 DEF Sized
<1> QED
  BY <1>2, <1>3

(* A block adds one sum and one number of shifts. *)
LEMMA ReadSumIs ==
  ASSUME NEW n \in Nat, NEW d \in Sized(n, n), NEW i
  PROVE  ReadSum(d, i) \in Sized(n + 1, n + 1)
<1> DEFINE start == [d EXCEPT !.shifts = Append(@, 0)]
           first == Read(start, pulses_per_block_CDF[d.rate])
           last  == Bounded(Unescaped(first, i, Escapes(first, i)))
           e     == [last EXCEPT !.sum = Append(last.sum, last.data)]
           m     == n + 1
<1>1. d \in Frames /\ Len(d.sum) = n /\ Len(d.shifts) = n /\ d.shifts \in Seq(Nat) /\ m \in Nat
      /\ d.rate \in 0..N_RATE_LEVELS - 1
  BY FrameParts, RatesOfPulses DEF Sized
<1>2. start \in Sized(n, m)
  <2> DEFINE shifts == Append(d.shifts, 0)
  <2>1. shifts \in Seq(Nat) /\ Len(shifts) = m
    BY <1>1
  <2>2. start = [d EXCEPT !.shifts = shifts]
    OBVIOUS
  <2> HIDE DEF shifts, m
  <2>3. [d EXCEPT !.shifts = shifts] \in Frames
    BY <1>1, <2>1, FrameUpdates
  <2>4. [d EXCEPT !.shifts = shifts].sum = d.sum /\ [d EXCEPT !.shifts = shifts].shifts = shifts
    BY <1>1 DEF Frames
  <2> HIDE DEF start
  <2> QED
    BY <1>1, <2>1, <2>2, <2>3, <2>4 DEF Sized
<1>3. ReadSum(d, i) = e
  BY DEF ReadSum
<1> HIDE DEF start, m
<1>4. first \in Sized(n, m)
  BY <1>1, <1>2, SizedRead
<1> HIDE DEF first
<1>5. last \in Sized(n, m) /\ last.data \in 0..MAX_PULSES
  BY <1>1, <1>4, EscapesAre, UnescapedIs, BoundedIs
<1> HIDE DEF last
<1>6. last \in Frames /\ Len(last.sum) = n /\ Len(last.shifts) = m /\ last.sum \in Seq(0..MAX_PULSES)
  BY <1>5, FrameParts DEF Sized
<1> DEFINE sum == Append(last.sum, last.data)
<1>7. sum \in Seq(0..MAX_PULSES) /\ Len(sum) = m
  BY <1>5, <1>6 DEF m
<1> HIDE DEF sum
<1>8. e \in Frames
  BY <1>6, <1>7, FrameUpdates DEF sum
<1>9. e.sum = sum /\ e.shifts = last.shifts
  BY <1>6 DEF Frames, sum
<1> HIDE DEF e
<1> QED
  BY <1>3, <1>6, <1>7, <1>8, <1>9 DEF Sized, m

(* All blocks have a sum and a number of shifts. *)
LEMMA ReadSumsAre ==
  ASSUME NEW d \in Sized(0, 0)
  PROVE  ReadSums(d) \in Sized(BLOCKS, BLOCKS)
<1> DEFINE S == UNION {Sized(n, n) : n \in Nat}
           n == BLOCKS
           step == [i \in 1..n |-> [e \in S |-> ReadSum(e, i)]]
<1>1. n \in Nat /\ Len(InBlocks) = n /\ \A i \in 1..n : InBlocks[i] = i
  BY RatesOfPulses DEF InBlocks, Blocks
<1>2. \A k \in Nat : \A e \in Sized(k, k) : \A i \in 1..n : ReadSum(e, i) \in Sized(k + 1, k + 1) /\ k + 1 \in Nat
  BY ReadSumIs
<1> HIDE DEF n
<1>3. \A i \in 1..n : \A e \in S : ReadSum(e, i) \in S
  BY <1>2
<1>4. step \in Steps(n, S)
  BY <1>3 DEF Steps
<1>5. d \in S
  OBVIOUS
<1> HIDE DEF step, S
<1>6. PICK w : WalksAlong(w, n, S, d, step)
  BY <1>1, <1>4, <1>5, StepsExist, Zenon
<1>7. \A i \in 1..n : w[i - 1] \in S
  BY <1>1, <1>6, StaysAlong, Zenon
<1>8. w[0] = d /\ \A i \in 1..n : w[i] = ReadSum(w[i - 1], i)
  BY <1>6, <1>7, Zenon DEF WalksAlong, step
<1>9. ReadSums(d) = w[n]
  BY <1>1, <1>8, ReadSumsFollow, Zenon
<1> DEFINE P == {i \in 0..n : w[i] \in Sized(i, i)}
<1>10. 0 \in P
  BY <1>1, <1>8
<1>11. ASSUME NEW i \in 0..n - 1, i \in P PROVE i + 1 \in P
  <2>1. i \in Nat /\ i + 1 \in 1..n /\ i + 1 \in 0..n /\ (i + 1) - 1 = i /\ w[i] \in Sized(i, i)
    BY <1>1, <1>11
  <2>2. w[i + 1] = ReadSum(w[i], i + 1)
    BY <1>8, <2>1
  <2> QED
    BY <1>2, <2>1, <2>2
<1> HIDE DEF P
<1>12. n \in P
  <2>1. n \in 0..n
    BY <1>1
  <2>2. 0..n \subseteq P
    BY <1>1, <1>10, <1>11, InductionUpTo
  <2> QED
    BY <2>1, <2>2
<1> QED
  BY <1>9, <1>12 DEF P, n

-----------------------------------------------------------------------------
(* The trees of the blocks. *)
Whole == Sized(BLOCKS, BLOCKS)

Sound(tree) == \A n \in Inner : tree[n] <= max_pulses_table[Level(n)]

(* Frames with a tree at hand: no sum in it is too large for the tables of its
   level, as long as there is no error. *)
Grown == {d \in Whole : /\ Len(d.tree) = 2 * SHELL_CODEC_FRAME_LENGTH - 1
                        /\ d.rc.error = OK => Sound(d.tree)}

(* What leaves the sums and shifts alone. *)
LEMMA WholeUpdates ==
  ASSUME NEW d \in Whole
  PROVE  /\ d \in Frames
         /\ \A tree \in Seq(Nat) : [d EXCEPT !.tree = tree] \in Whole
         /\ \A q \in Seq(Seq(Int)) : [d EXCEPT !.q = q] \in Whole
         /\ \A e \in Frames : e.sum = d.sum /\ e.shifts = d.shifts => e \in Whole
<1>1. d \in Frames
  BY DEF Whole, Sized
<1>2. \A e \in Frames : e.sum = d.sum /\ e.shifts = d.shifts => e \in Whole
  BY DEF Whole, Sized
<1>3. ASSUME NEW tree \in Seq(Nat) PROVE [d EXCEPT !.tree = tree] \in Whole
  <2>1. [d EXCEPT !.tree = tree].sum = d.sum /\ [d EXCEPT !.tree = tree].shifts = d.shifts
    BY <1>1 DEF Frames
  <2>2. [d EXCEPT !.tree = tree] \in Frames
    BY <1>1, FrameUpdates
  <2> QED
    BY <1>2, <2>1, <2>2, Zenon
<1>4. ASSUME NEW q \in Seq(Seq(Int)) PROVE [d EXCEPT !.q = q] \in Whole
  <2>1. [d EXCEPT !.q = q].sum = d.sum /\ [d EXCEPT !.q = q].shifts = d.shifts
    BY <1>1 DEF Frames
  <2>2. [d EXCEPT !.q = q] \in Frames
    BY <1>1, FrameUpdates
  <2> QED
    BY <1>2, <2>1, <2>2, Zenon
<1> QED
  BY <1>1, <1>2, <1>3, <1>4

(* A sum that splits leaves a sound tree. *)
LEMMA SplitTree ==
  ASSUME NEW t \in Seq(Nat), Len(t) = 2 * SHELL_CODEC_FRAME_LENGTH - 1,
         NEW n \in Inner, NEW x \in 0..t[n],
         NEW u, u = [[t EXCEPT ![2 * n] = x] EXCEPT ![2 * n + 1] = t[n] - x]
  PROVE  /\ t[n] \in Nat /\ u \in Seq(Nat) /\ Len(u) = Len(t)
         /\ Sound(t) /\ IsSplit(Level(n), t[n], x) => Sound(u)
<1> DEFINE F == SHELL_CODEC_FRAME_LENGTH
<1>1. F \in Nat /\ Inner = 1..F - 1
  BY BlockSize DEF Inner
<1>2. n \in 1..F - 1 /\ DOMAIN t = 1..2 * F - 1 /\ \A m \in 1..2 * F - 1 : t[m] \in Nat
  <2>1. n \in 1..F - 1
    BY <1>1
  <2>2. DOMAIN t = 1..Len(t) /\ \A m \in 1..Len(t) : t[m] \in Nat
    OBVIOUS
  <2>3. Len(t) = 2 * F - 1
    OBVIOUS
  <2> HIDE DEF F
  <2> QED
    BY <2>1, <2>2, <2>3, Zenon
<1>3. t[n] \in Nat
  BY <1>1, <1>2
<1> DEFINE y == t[n] - x
<1>4. x \in Nat /\ y \in Nat
  <2> DEFINE s == t[n]
  <2>1. s \in Nat /\ x \in 0..s
    BY <1>3
  <2> HIDE DEF s
  <2>2. x \in Nat /\ s - x \in Nat
    BY <2>1
  <2> QED
    BY <2>2 DEF s
<1> DEFINE v(m) == IF m = 2 * n + 1 THEN y ELSE IF m = 2 * n THEN x ELSE t[m]
<1>5. u = [m \in 1..2 * F - 1 |-> v(m)]
  <2>1. 2 * n + 1 # 2 * n
    BY <1>1, <1>2
  <2> HIDE DEF y, F
  <2> QED
    BY <1>2, <2>1 DEF y
<1> HIDE DEF y, F
<1>6. \A m \in 1..2 * F - 1 : v(m) \in Nat
  BY <1>2, <1>4
<1>7. u \in Seq(Nat) /\ Len(u) = Len(t)
  <2> DEFINE k == 2 * F - 1
  <2>1. k \in Nat /\ Len(t) = k
    BY <1>1, <1>2 DEF F
  <2> HIDE DEF v, k
  <2>2. u = [m \in 1..k |-> v(m)] /\ \A m \in 1..k : v(m) \in Nat
    BY <1>5, <1>6, Zenon DEF k
  <2>3. [m \in 1..k |-> v(m)] \in Seq(Nat) /\ Len([m \in 1..k |-> v(m)]) = k
    BY <2>1, <2>2
  <2> QED
    BY <2>1, <2>2, <2>3, Zenon
<1>8. ASSUME Sound(t), IsSplit(Level(n), t[n], x), NEW m \in Inner
      PROVE  u[m] <= max_pulses_table[Level(m)]
  <2>1. m \in 1..2 * F - 1 /\ (m = 2 * n + 1 => 2 * n \in Inner)
    BY <1>1, <1>2
  <2>2. u[m] = v(m)
    <3> HIDE DEF v
    <3> QED
      BY <1>5, <2>1
  <2>3. m = 2 * n \/ m = 2 * n + 1 => /\ Level(m) = Level(n) - 1
                                      /\ x <= max_pulses_table[Level(n) - 1]
                                      /\ y <= max_pulses_table[Level(n) - 1]
    <3>1. SUFFICES ASSUME m = 2 * n \/ m = 2 * n + 1
                   PROVE  /\ Level(m) = Level(n) - 1
                          /\ x <= max_pulses_table[Level(n) - 1]
                          /\ y <= max_pulses_table[Level(n) - 1]
      OBVIOUS
    <3>2. 2 * n \in Inner
      BY <2>1, <3>1
    <3>3. Level(n) > 0 /\ Level(2 * n) = Level(n) - 1 /\ Level(2 * n + 1) = Level(n) - 1
      BY <3>2, LevelOfChild, Zenon
    <3>4. x <= max_pulses_table[Level(n) - 1] /\ y <= max_pulses_table[Level(n) - 1]
      BY <1>8, <3>3, Zenon DEF IsSplit, y
    <3> QED
      BY <3>1, <3>3, <3>4, Zenon
  <2>4. m # 2 * n /\ m # 2 * n + 1 => u[m] = t[m]
    BY <2>2
  <2>5. t[m] <= max_pulses_table[Level(m)]
    BY <1>8 DEF Sound
  <2>6. (m = 2 * n \/ m = 2 * n + 1) => u[m] = x \/ u[m] = y
    BY <2>2
  <2> HIDE DEF v
  <2> QED
    BY <2>3, <2>4, <2>5, <2>6, Zenon
<1> QED
  BY <1>3, <1>7, <1>8 DEF Sound

(* A split leaves a sound tree sound. *)
LEMMA SplitIs ==
  ASSUME NEW d \in Grown, NEW n \in Inner
  PROVE  Split(d, n) \in Grown
<1> DEFINE t   == d.tree
           cdf == shell_code_table[Level(n)][t[n]]
           e   == Read(d, cdf)
           x   == e.data
           u   == [[t EXCEPT ![2 * n] = x] EXCEPT ![2 * n + 1] = t[n] - x]
           next == [e EXCEPT !.tree = u]
<1>1. /\ d \in Whole /\ d \in Frames /\ t \in Seq(Nat)
      /\ Len(t) = 2 * SHELL_CODEC_FRAME_LENGTH - 1 /\ (d.rc.error = OK => Sound(t))
  BY WholeUpdates, FrameParts DEF Grown
<1>2. t[n] \in Nat
  <2>1. n \in 1..Len(t)
    BY <1>1, BlockSize DEF Inner
  <2> QED
    BY <1>1, <2>1
<1>3. CASE t[n] = 0
  BY <1>3 DEF Split
<1>4. CASE t[n] # 0
  <2>1. d.rc.error = OK => /\ IsTable(cdf) /\ DOMAIN cdf = 0..t[n] + 1
                           /\ \A k \in 0..t[n] : cdf[k] < cdf[k + 1] <=> IsSplit(Level(n), t[n], k)
    <3>1. SUFFICES ASSUME d.rc.error = OK
                   PROVE  /\ IsTable(cdf) /\ DOMAIN cdf = 0..t[n] + 1
                          /\ \A k \in 0..t[n] : cdf[k] < cdf[k + 1] <=> IsSplit(Level(n), t[n], k)
      OBVIOUS
    <3>2. Level(n) \in 0..LEVELS - 1 /\ max_pulses_table[Level(n)] \in Nat
      BY LevelIs, PulseAssumption
    <3>3. t[n] <= max_pulses_table[Level(n)]
      BY <1>1, <3>1 DEF Sound
    <3> DEFINE sum == t[n]
               most == max_pulses_table[Level(n)]
    <3>4. sum \in 1..most
      <4>1. sum \in Nat /\ most \in Nat /\ sum # 0 /\ sum <= most
        BY <1>2, <1>4, <3>2, <3>3
      <4> HIDE DEF sum, most
      <4> QED
        BY <4>1
    <3> QED
      BY <3>2, <3>4, PulseTables, Zenon
  <2>2. Reads(e, d, cdf)
    <3> HIDE DEF cdf
    <3> QED
      BY <1>1, <2>1, ReadIs
  <2>3. /\ e \in Frames /\ e.sum = d.sum /\ e.shifts = d.shifts /\ e.tree = t /\ x \in Nat
        /\ (e.rc.error # OK => x = 0)
        /\ (e.rc.error = OK => d.rc.error = OK /\ IsSymbol(cdf, x) /\ cdf[x] < cdf[x + 1])
    <3>1. e \in Frames
      BY <2>2 DEF Reads
    <3>2. x \in Nat
      <4> HIDE DEF e
      <4> QED
        BY <3>1, FrameParts
    <3> HIDE DEF e, cdf
    <3> QED
      BY <2>2, <3>1, <3>2, Zenon DEF Reads
  <2>4. Split(d, n) = Divide(e, n)
    BY <1>4 DEF Split
  <2> HIDE DEF e
  <2>5. x \in 0..t[n] /\ (e.rc.error = OK => Sound(t) /\ IsSplit(Level(n), t[n], x))
    <3>1. CASE e.rc.error # OK
      BY <1>2, <2>3, <3>1
    <3>2. CASE e.rc.error = OK
      <4> DEFINE s == t[n]
      <4>1. x + 1 \in 0..s + 1 /\ x \in Nat /\ s \in Nat
        BY <1>2, <2>1, <2>3, <3>2, Zenon DEF IsSymbol
      <4> HIDE DEF s, x
      <4>2. x \in 0..s
        BY <4>1
      <4>3. IsSplit(Level(n), s, x)
        BY <2>1, <2>3, <3>2, <4>2, Zenon DEF s
      <4> QED
        BY <1>1, <2>3, <3>2, <4>2, <4>3, Zenon DEF s
    <3> QED
      BY <3>1, <3>2
  <2>6. Divide(e, n) = next
    <3>1. Divide(e, n) = [e EXCEPT !.tree[2 * n] = x, !.tree[2 * n + 1] = t[n] - x]
      BY <2>3 DEF Divide
    <3>2. e.tree = t
      BY <2>3
    <3> QED
      BY <2>3, <3>1, <3>2 DEF Frames
  <2> HIDE DEF t, x
  <2>7. u \in Seq(Nat) /\ Len(u) = Len(t) /\ (e.rc.error = OK => Sound(u))
    <3>1. /\ u \in Seq(Nat) /\ Len(u) = Len(t)
          /\ Sound(t) /\ IsSplit(Level(n), t[n], x) => Sound(u)
      BY <1>1, <2>5, SplitTree, Zenon
    <3> HIDE DEF u
    <3> QED
      BY <2>5, <3>1, Zenon
  <2> HIDE DEF u
  <2>8. e \in Whole /\ next \in Whole
    BY <1>1, <2>3, <2>7, WholeUpdates
  <2>9. next.tree = u /\ next.rc = e.rc
    BY <2>3 DEF Frames
  <2> HIDE DEF next
  <2> QED
    BY <1>1, <2>4, <2>6, <2>7, <2>8, <2>9 DEF Grown
<1> QED
  BY <1>3, <1>4

(* The walk of ReadShell(). *)
LEMMA ReadShellFollows ==
  ASSUME NEW d, NEW block, Len(Preorder) \in Nat, NEW w, w[0] = Planted(d, block),
         \A i \in 1..Len(Preorder) : w[i] = Split(w[i - 1], Preorder[i])
  PROVE  ReadShell(d, block) = Leaves(w[Len(Preorder)])
<1> DEFINE n == Len(Preorder)
           walked(f) == [i \in 0..n |->
                          IF i = 0 THEN Planted(d, block)
                          ELSE Split(f[i - 1], Preorder[i])]
           after == CHOOSE f : f = walked(f)
           g == [i \in 0..n |-> w[i]]
<1>1. g = walked(g)
  <2>1. 0 \in 0..n /\ \A i \in 0..n : i # 0 => i \in 1..n /\ i - 1 \in 0..n
    OBVIOUS
  <2>2. \A i \in 0..n : w[i] = IF i = 0 THEN Planted(d, block) ELSE Split(g[i - 1], Preorder[i])
    <3> HIDE DEF n
    <3>1. \A i \in 0..n : i # 0 => g[i - 1] = w[i - 1]
      BY <2>1, Zenon
    <3> HIDE DEF g
    <3> QED
      BY <2>1, <3>1, Zenon DEF n
  <2> HIDE DEF n
  <2> QED
    BY <2>2, Zenon
<1>2. after = walked(after)
  <2> HIDE DEF g, walked
  <2> QED
    BY <1>1
<1>3. ReadShell(d, block) = Leaves(after[n])
  BY Zenon DEF ReadShell, Walk
<1> HIDE DEF after, g
<1>4. \A i \in 0..n : after[i] =
          IF i = 0 THEN Planted(d, block)
          ELSE Split(after[i - 1], Preorder[i])
  BY <1>2, Zenon
<1>5. n \in Nat /\ 0 \in 0..n
  OBVIOUS
<1> HIDE DEF n, walked
<1>6. after[0] = w[0]
  BY <1>4, <1>5, Zenon
<1>7. \A i \in 1..n : after[i - 1] = w[i - 1] => after[i] = w[i]
  BY <1>4, <1>5, WithinWalk, Zenon DEF n
<1>8. after[n] = w[n]
  BY <1>5, <1>6, <1>7, Agree
<1> QED
  BY <1>3, <1>8, Zenon DEF n

(* The walk of ReadShells(). *)
LEMMA ReadShellsFollow ==
  ASSUME NEW d, Len(InBlocks) \in Nat, NEW w, w[0] = d,
         \A i \in 1..Len(InBlocks) : w[i] = ReadShell(w[i - 1], InBlocks[i])
  PROVE  ReadShells(d) = w[Len(InBlocks)]
<1> DEFINE n == Len(InBlocks)
           walked(f) == [i \in 0..n |-> IF i = 0 THEN d ELSE ReadShell(f[i - 1], InBlocks[i])]
           after == CHOOSE f : f = walked(f)
           g == [i \in 0..n |-> w[i]]
<1>1. g = walked(g)
  <2>1. 0 \in 0..n /\ \A i \in 0..n : i # 0 => i \in 1..n /\ i - 1 \in 0..n
    OBVIOUS
  <2>2. \A i \in 0..n : w[i] = IF i = 0 THEN d ELSE ReadShell(g[i - 1], InBlocks[i])
    <3> HIDE DEF n
    <3>1. \A i \in 0..n : i # 0 => g[i - 1] = w[i - 1]
      BY <2>1, Zenon
    <3> HIDE DEF g
    <3> QED
      BY <2>1, <3>1, Zenon DEF n
  <2> HIDE DEF n
  <2> QED
    BY <2>2, Zenon
<1>2. after = walked(after)
  <2> HIDE DEF g, walked
  <2> QED
    BY <1>1
<1>3. ReadShells(d) = after[n]
  BY Zenon DEF ReadShells, Walk
<1> HIDE DEF after, g
<1>4. \A i \in 0..n : after[i] = IF i = 0 THEN d ELSE ReadShell(after[i - 1], InBlocks[i])
  BY <1>2, Zenon
<1>5. n \in Nat /\ 0 \in 0..n
  OBVIOUS
<1> HIDE DEF n, walked
<1>6. after[0] = w[0]
  BY <1>4, <1>5, Zenon
<1>7. \A i \in 1..n : after[i - 1] = w[i - 1] => after[i] = w[i]
  BY <1>4, <1>5, WithinWalk, Zenon DEF n
<1>8. after[n] = w[n]
  BY <1>5, <1>6, <1>7, Agree
<1> QED
  BY <1>3, <1>8, Zenon DEF n

(* An element of a sequence over a set is in the set. *)
LEMMA ElementIs ==
  ASSUME NEW S, NEW s \in Seq(S), NEW i \in 1..Len(s)
  PROVE  s[i] \in S
OBVIOUS

(* A sum that is planted is the root of a sound tree. *)
LEMMA PlantedIs ==
  ASSUME NEW d \in Whole, NEW i \in Blocks
  PROVE  Planted(d, i) \in Grown
<1> DEFINE F == SHELL_CODEC_FRAME_LENGTH
           m == 2 * F - 2
           s == d.sum[i]
           zeros == [n \in 1..m |-> 0]
           tree == <<s>> \o zeros
           e == [d EXCEPT !.tree = tree]
<1>1. F \in Nat /\ F >= 2 /\ m \in Nat /\ m + 1 = 2 * F - 1 /\ Inner = 1..F - 1
  BY BlockSize DEF Inner
<1>2. d \in Frames /\ s \in 0..MAX_PULSES /\ s \in Nat
  <2>1. d \in Frames /\ Len(d.sum) = BLOCKS
    BY DEF Whole, Sized
  <2>2. i \in 1..Len(d.sum) /\ d.sum \in Seq(0..MAX_PULSES)
    BY <2>1, FrameParts DEF Blocks
  <2>3. s \in 0..MAX_PULSES
    BY <2>2, ElementIs, Zenon
  <2> HIDE DEF s
  <2>4. s \in Nat
    BY <2>3, RatesOfPulses
  <2> QED
    BY <2>1, <2>3, <2>4
<1> HIDE DEF s, m
<1>3. zeros \in Seq(Nat) /\ Len(zeros) = m /\ \A n \in 1..m : zeros[n] = 0
  BY <1>1
<1> HIDE DEF zeros
<1>4. /\ tree \in Seq(Nat) /\ Len(tree) = m + 1 /\ tree[1] = s
      /\ \A n \in 1..m : tree[n + 1] = zeros[n]
  BY <1>2, <1>3, Prepended
<1> HIDE DEF tree
<1>5. Sound(tree)
  <2>1. ASSUME NEW n \in Inner PROVE tree[n] <= max_pulses_table[Level(n)]
    <3>1. CASE n = 1
      <4>1. Level(n) = LEVELS - 1 /\ tree[n] = s
        BY <1>4, <3>1, LevelOfChild, Zenon
      <4>2. s <= max_pulses_table[LEVELS - 1]
        BY <1>2 DEF MAX_PULSES
      <4> QED
        BY <4>1, <4>2, Zenon
    <3>2. CASE n # 1
      <4>1. n - 1 \in 1..m /\ (n - 1) + 1 = n
        BY <1>1, <3>2 DEF m
      <4>2. tree[n] = 0
        BY <1>3, <1>4, <4>1, Zenon
      <4>3. max_pulses_table[Level(n)] \in Nat
        BY LevelIs, PulseAssumption
      <4> QED
        BY <4>2, <4>3
    <3> QED
      BY <3>1, <3>2
  <2> QED
    BY <2>1 DEF Sound
<1>6. e \in Whole
  BY <1>4, WholeUpdates
<1>7. e.tree = tree
  BY <1>2 DEF Frames
<1>8. Planted(d, i) = e
  BY Zenon DEF Planted, tree, zeros, s, m
<1> HIDE DEF e
<1> QED
  BY <1>1, <1>4, <1>5, <1>6, <1>7, <1>8 DEF Grown

(* The leaves of a tree are the pulses of one more block. *)
LEMMA LeavesAre ==
  ASSUME NEW d \in Grown
  PROVE  Leaves(d) \in Whole
<1> DEFINE leaves == SubSeq(d.tree, SHELL_CODEC_FRAME_LENGTH, Len(d.tree))
           q == Append(d.q, leaves)
<1>1. d \in Whole /\ d \in Frames /\ d.tree \in Seq(Nat) /\ d.q \in Seq(Seq(Int))
      /\ Len(d.tree) = 2 * SHELL_CODEC_FRAME_LENGTH - 1
  BY WholeUpdates, FrameParts DEF Grown
<1>2. leaves \in Seq(Int)
  <2> DEFINE s == d.tree
             F == SHELL_CODEC_FRAME_LENGTH
             k == Len(s) - F + 1
  <2>1. F \in Nat /\ F >= 2 /\ s \in Seq(Nat) /\ Len(s) = 2 * F - 1 /\ k \in Nat
    BY <1>1, BlockSize
  <2> HIDE DEF s, F
  <2>2. SubSeq(s, F, Len(s)) \in Seq(Nat)
    <3>1. \A i \in 1..k : i + F - 1 \in 1..Len(s) /\ s[i + F - 1] \in Nat
      BY <2>1
    <3>2. SubSeq(s, F, Len(s)) = [i \in 1..k |-> s[i + F - 1]]
      BY <2>1
    <3>3. [i \in 1..k |-> s[i + F - 1]] \in Seq(Nat)
      BY <2>1, <3>1
    <3> QED
      BY <3>2, <3>3
  <2>3. \A r \in Seq(Nat) : r \in Seq(Int)
    OBVIOUS
  <2> QED
    BY <2>2, <2>3 DEF s, F
<1> HIDE DEF leaves
<1>3. q \in Seq(Seq(Int))
  BY <1>1, <1>2
<1>4. Leaves(d) = [d EXCEPT !.q = q]
  BY DEF Leaves, leaves
<1> HIDE DEF q
<1> QED
  BY <1>1, <1>3, <1>4, WholeUpdates

(* A block is decoded into a frame that is whole. *)
LEMMA ReadShellIs ==
  ASSUME NEW d \in Whole, NEW i \in Blocks
  PROVE  ReadShell(d, i) \in Whole
<1> DEFINE n == Len(Preorder)
           S == Grown
           start == Planted(d, i)
           step == [k \in 1..n |-> [e \in S |-> Split(e, Preorder[k])]]
<1>1. n \in Nat /\ \A k \in 1..n : Preorder[k] \in Inner
  BY PreorderOfInner
<1>2. start \in S
  BY PlantedIs
<1> HIDE DEF n, start
<1>3. \A k \in 1..n : \A e \in S : Split(e, Preorder[k]) \in S
  BY <1>1, SplitIs
<1>4. step \in Steps(n, S)
  BY <1>3 DEF Steps
<1> HIDE DEF step, S
<1>5. PICK w : WalksAlong(w, n, S, start, step)
  BY <1>1, <1>2, <1>4, StepsExist, Zenon
<1>6. (\A k \in 1..n : w[k - 1] \in S) /\ w[n] \in S
  BY <1>1, <1>5, StaysAlong, Zenon
<1>7. w[0] = start /\ \A k \in 1..n : w[k] = Split(w[k - 1], Preorder[k])
  BY <1>5, <1>6, Zenon DEF WalksAlong, step
<1>8. ReadShell(d, i) = Leaves(w[n])
  BY <1>1, <1>7, ReadShellFollows, Zenon DEF n, start
<1> QED
  BY <1>6, <1>8, LeavesAre, Zenon DEF S

(* So are all of them. *)
LEMMA ReadShellsAre ==
  ASSUME NEW d \in Whole
  PROVE  ReadShells(d) \in Whole
<1> DEFINE S == Whole
           n == BLOCKS
           step == [i \in 1..n |-> [e \in S |-> ReadShell(e, i)]]
<1>1. n \in Nat /\ Len(InBlocks) = n /\ \A i \in 1..n : InBlocks[i] = i
  BY RatesOfPulses DEF InBlocks, Blocks
<1>2. \A i \in 1..n : \A e \in S : ReadShell(e, i) \in S
  BY ReadShellIs DEF Blocks
<1> HIDE DEF n
<1>3. step \in Steps(n, S)
  BY <1>2 DEF Steps
<1> HIDE DEF step, S
<1>4. PICK w : WalksAlong(w, n, S, d, step)
  BY <1>1, <1>3, StepsExist, Zenon DEF S
<1>5. (\A i \in 1..n : w[i - 1] \in S) /\ w[n] \in S
  BY <1>1, <1>4, StaysAlong, Zenon
<1>6. w[0] = d /\ \A i \in 1..n : w[i] = ReadShell(w[i - 1], i)
  BY <1>4, <1>5, Zenon DEF WalksAlong, step
<1>7. ReadShells(d) = w[n]
  BY <1>1, <1>6, ReadShellsFollow, Zenon
<1> QED
  BY <1>5, <1>7, Zenon DEF S

-----------------------------------------------------------------------------
(* The lower bits and the signs of the pulses. *)
LEMMA ChangedAt ==
  ASSUME NEW S, NEW s \in Seq(S), NEW i, NEW v, i \in 1..Len(s) => v \in S
  PROVE  [s EXCEPT ![i] = v] \in Seq(S)
<1> DEFINE n == Len(s)
           t == [s EXCEPT ![i] = v]
<1>1. n \in Nat /\ DOMAIN s = 1..n /\ \A j \in 1..n : s[j] \in S
  OBVIOUS
<1>2. t = [j \in 1..n |-> IF j = i THEN v ELSE s[j]]
  BY <1>1
<1>3. \A j \in 1..n : (IF j = i THEN v ELSE s[j]) \in S
  BY <1>1
<1> HIDE DEF t, n
<1>4. t \in Seq(S)
  BY <1>1, <1>2, <1>3
<1> QED
  BY <1>4 DEF t

PutPulse(d, at, v) == [d EXCEPT !.q[at[1]][at[2]] = v]

(* A pulse that is replaced by an integer. *)
LEMMA PutPulseIs ==
  ASSUME NEW d \in Frames, NEW at, NEW v,
         d.q[at[1]][at[2]] \in Int => v \in Int
  PROVE  PutPulse(d, at, v) \in Frames
<1> DEFINE q == d.q
           i == at[1]
           k == at[2]
           p == [q[i] EXCEPT ![k] = v]
           r == [q EXCEPT ![i] = p]
<1>1. q \in Seq(Seq(Int))
  BY FrameParts
<1>2. PutPulse(d, at, v) = [d EXCEPT !.q = r]
  BY DEF PutPulse
<1>3. q[i][k] \in Int => v \in Int
  OBVIOUS
<1> HIDE DEF q, i, k
<1>4. ASSUME i \in 1..Len(q) PROVE p \in Seq(Int)
  <2> DEFINE S == Seq(Int)
             Z == Int
             s == q[i]
  <2>1. s \in Seq(Z)
    <3>1. q \in Seq(S)
      BY <1>1
    <3> HIDE DEF S, s
    <3>2. q[i] \in S
      BY <1>4, <3>1, ElementIs, Zenon
    <3> QED
      BY <3>2 DEF S, s
  <2>2. k \in 1..Len(s) => v \in Z
    <3> HIDE DEF s, Z
    <3>1. k \in 1..Len(s) => s[k] \in Z
      BY <2>1, ElementIs, Zenon
    <3> QED
      BY <1>3, <3>1, Zenon DEF s, Z
  <2> HIDE DEF s, Z
  <2>3. [s EXCEPT ![k] = v] \in Seq(Z)
    BY <2>1, <2>2, ChangedAt, Zenon
  <2> QED
    BY <2>3 DEF s, Z
<1> HIDE DEF p
<1>5. r \in Seq(Seq(Int))
  <2> DEFINE S == Seq(Int)
  <2>1. q \in Seq(S) /\ (i \in 1..Len(q) => p \in S)
    BY <1>1, <1>4
  <2> HIDE DEF S
  <2>2. [q EXCEPT ![i] = p] \in Seq(S)
    BY <2>1, ChangedAt, Zenon
  <2> QED
    BY <2>2 DEF S
<1> HIDE DEF r
<1> QED
  BY <1>2, <1>5, FrameUpdates

(* A bit, or a sign, makes an integer of a pulse. *)
LEMMA AddIs ==
  ASSUME NEW d \in Frames, NEW at
  PROVE  AddBit(d, at) \in Frames /\ AddSign(d, at) \in Frames
<1> DEFINE p == d.q[at[1]][at[2]]
           a == 2 * p + d.data
           s == p * (2 * d.data - 1)
<1>1. p \in Int => a \in Int /\ s \in Int
  <2>1. d.data \in Nat
    BY FrameParts
  <2> HIDE DEF p
  <2>2. ASSUME p \in Int PROVE s \in Int
    <3>1. 2 * d.data - 1 \in Int
      BY <2>1
    <3>2. \A x, y \in Int : x * y \in Int
      BY SMT
    <3> QED
      BY <2>2, <3>1, <3>2, Zenon
  <2> QED
    BY <2>1, <2>2
<1>2. AddBit(d, at) = PutPulse(d, at, a)
  BY DEF AddBit, PutPulse
<1>3. AddSign(d, at) = PutPulse(d, at, s)
  BY DEF AddSign, PutPulse
<1> HIDE DEF a, s
<1> QED
  BY <1>1, <1>2, <1>3, PutPulseIs, Zenon

(* One bit is read. *)
LEMMA ReadLsbIs ==
  ASSUME NEW d \in Frames, NEW at
  PROVE  ReadLsb(d, at) \in Frames
<1>1. IsTable(lsb_CDF)
  BY PulseTables DEF IsFullTable
<1>2. Read(d, lsb_CDF) \in Frames
  BY <1>1, ReadIs DEF Reads
<1> QED
  BY <1>2, AddIs, Zenon DEF ReadLsb

(* One sign is read. *)
LEMMA ReadSignIs ==
  ASSUME NEW d \in Frames, NEW at
  PROVE  ReadSign(d, at) \in Frames
<1> DEFINE cdf == sign_CDF[Sigtype(d)][QuantOffsetType(d)][d.rate]
<1>1. IsTable(cdf)
  BY SigtypeIs, FrameParts, PulseTables DEF IsFullTable
<1>2. ReadSign(d, at) = d \/ ReadSign(d, at) = AddSign(Read(d, cdf), at)
  BY DEF ReadSign
<1> HIDE DEF cdf
<1>3. Read(d, cdf) \in Frames
  BY <1>1, ReadIs DEF Reads
<1> QED
  BY <1>2, <1>3, AddIs, Zenon

(* Where the pulses are. *)
Places == Blocks \X (1..SHELL_CODEC_FRAME_LENGTH)

(* There are finitely many positions. *)
LEMMA PositionsAre ==
  ASSUME NEW times, \A i \in Blocks : times[i] \in Nat
  PROVE  /\ \A i \in Blocks : \A k \in 1..SHELL_CODEC_FRAME_LENGTH :
              [j \in 1..times[i] |-> <<i, k>>] \in Seq(Places)
         /\ Positions(times) \in Seq(Places) /\ Len(Positions(times)) \in Nat
<1> DEFINE F == SHELL_CODEC_FRAME_LENGTH
           n == BLOCKS
           V == Places
           bits(i, k) == [j \in 1..times[i] |-> <<i, k>>]
           pulses(i)  == [k \in 1..F |-> bits(i, k)]
           parts == [i \in 1..n |-> Concat(pulses(i))]
<1>1. F \in Nat /\ n \in Nat /\ Blocks = 1..n
  BY BlockSize, RatesOfPulses DEF Blocks
<1>2. ASSUME NEW i \in Blocks, NEW k \in 1..F PROVE bits(i, k) \in Seq(V)
  <2> DEFINE m == times[i]
  <2>1. m \in Nat /\ <<i, k>> \in V
    BY DEF Places
  <2> HIDE DEF m, V
  <2>2. [j \in 1..m |-> <<i, k>>] \in Seq(V)
    BY <2>1
  <2> QED
    BY <2>2 DEF m
<1>3. Positions(times) = Concat(parts)
  BY <1>1, Zenon DEF Positions
<1> HIDE DEF bits, V, F
<1>4. ASSUME NEW i \in Blocks PROVE Concat(pulses(i)) \in Seq(V)
  <2>1. pulses(i) \in Parts(F, V)
    BY <1>2 DEF Parts
  <2> HIDE DEF pulses
  <2> QED
    BY <1>1, <2>1, ConcatType, Zenon
<1> HIDE DEF n, pulses
<1>5. parts \in Parts(n, V)
  BY <1>1, <1>4 DEF Parts
<1> HIDE DEF parts
<1>6. Concat(parts) \in Seq(V)
  BY <1>1, <1>5, ConcatType, Zenon
<1>7. \A i \in Blocks : \A k \in 1..F : bits(i, k) \in Seq(V)
  BY <1>2
<1> QED
  BY <1>3, <1>6, <1>7 DEF bits, V, F

(* The walk of ReadLsbs(). *)
LEMMA ReadLsbsFollow ==
  ASSUME NEW d, Len(Positions(d.shifts)) \in Nat, NEW w, w[0] = d,
         \A i \in 1..Len(Positions(d.shifts)) : w[i] = ReadLsb(w[i - 1], Positions(d.shifts)[i])
  PROVE  ReadLsbs(d) = w[Len(Positions(d.shifts))]
<1> DEFINE n == Len(Positions(d.shifts))
           walked(f) == [i \in 0..n |->
                          IF i = 0 THEN d
                          ELSE ReadLsb(f[i - 1], Positions(d.shifts)[i])]
           after == CHOOSE f : f = walked(f)
           g == [i \in 0..n |-> w[i]]
           at(i) == Positions(d.shifts)[i]
<1>0. \A i \in 1..n : w[i] = ReadLsb(w[i - 1], at(i))
  OBVIOUS
<1>1. g = walked(g)
  <2>1. 0 \in 0..n /\ \A i \in 0..n : i # 0 => i \in 1..n /\ i - 1 \in 0..n
    OBVIOUS
  <2>2. \A i \in 0..n : w[i] = IF i = 0 THEN d ELSE ReadLsb(g[i - 1], Positions(d.shifts)[i])
    <3> HIDE DEF n
    <3>1. \A i \in 0..n : i # 0 => g[i - 1] = w[i - 1]
      BY <2>1, Zenon
    <3> HIDE DEF g
    <3> QED
      BY <2>1, <3>1, Zenon DEF n
  <2> HIDE DEF n
  <2> QED
    BY <2>2, Zenon
<1>2. after = walked(after)
  <2> HIDE DEF g, walked
  <2> QED
    BY <1>1
<1>3. ReadLsbs(d) = after[n]
  BY Zenon DEF ReadLsbs, Walk
<1> HIDE DEF after, g
<1>4. \A i \in 0..n : after[i] = IF i = 0 THEN d ELSE ReadLsb(after[i - 1], at(i))
  BY <1>2, Zenon
<1>5. n \in Nat /\ 0 \in 0..n
  OBVIOUS
<1> HIDE DEF n, walked, at
<1>6. after[0] = w[0]
  BY <1>4, <1>5, Zenon
<1>7. \A i \in 1..n : after[i - 1] = w[i - 1] => after[i] = w[i]
  BY <1>0, <1>4, <1>5, WithinWalk, Zenon
<1>8. after[n] = w[n]
  BY <1>5, <1>6, <1>7, Agree
<1> QED
  BY <1>3, <1>8, Zenon DEF n

(* The walk of ReadSigns(). *)
LEMMA ReadSignsFollow ==
  ASSUME NEW d, Len(Positions(Once)) \in Nat, NEW w, w[0] = d,
         \A i \in 1..Len(Positions(Once)) : w[i] = ReadSign(w[i - 1], Positions(Once)[i])
  PROVE  ReadSigns(d) = w[Len(Positions(Once))]
<1> DEFINE n == Len(Positions(Once))
           walked(f) == [i \in 0..n |-> IF i = 0 THEN d ELSE ReadSign(f[i - 1], Positions(Once)[i])]
           after == CHOOSE f : f = walked(f)
           g == [i \in 0..n |-> w[i]]
           at(i) == Positions(Once)[i]
<1>0. \A i \in 1..n : w[i] = ReadSign(w[i - 1], at(i))
  OBVIOUS
<1>1. g = walked(g)
  <2>1. 0 \in 0..n /\ \A i \in 0..n : i # 0 => i \in 1..n /\ i - 1 \in 0..n
    OBVIOUS
  <2>2. \A i \in 0..n : w[i] = IF i = 0 THEN d ELSE ReadSign(g[i - 1], Positions(Once)[i])
    <3> HIDE DEF n
    <3>1. \A i \in 0..n : i # 0 => g[i - 1] = w[i - 1]
      BY <2>1, Zenon
    <3> HIDE DEF g
    <3> QED
      BY <2>1, <3>1, Zenon DEF n
  <2> HIDE DEF n
  <2> QED
    BY <2>2, Zenon
<1>2. after = walked(after)
  <2> HIDE DEF g, walked
  <2> QED
    BY <1>1
<1>3. ReadSigns(d) = after[n]
  BY Zenon DEF ReadSigns, Walk
<1> HIDE DEF after, g
<1>4. \A i \in 0..n : after[i] = IF i = 0 THEN d ELSE ReadSign(after[i - 1], at(i))
  BY <1>2, Zenon
<1>5. n \in Nat /\ 0 \in 0..n
  OBVIOUS
<1> HIDE DEF n, walked, at
<1>6. after[0] = w[0]
  BY <1>4, <1>5, Zenon
<1>7. \A i \in 1..n : after[i - 1] = w[i - 1] => after[i] = w[i]
  BY <1>0, <1>4, <1>5, WithinWalk, Zenon
<1>8. after[n] = w[n]
  BY <1>5, <1>6, <1>7, Agree
<1> QED
  BY <1>3, <1>8, Zenon DEF n

(* All lower bits are read. *)
LEMMA ReadLsbsAre ==
  ASSUME NEW d \in Whole
  PROVE  ReadLsbs(d) \in Frames
<1> DEFINE n == Len(Positions(d.shifts))
           S == Frames
           step == [i \in 1..n |-> [e \in S |-> ReadLsb(e, Positions(d.shifts)[i])]]
<1>1. n \in Nat /\ d \in S
  <2>1. d \in Frames /\ d.shifts \in Seq(Nat) /\ Len(d.shifts) = BLOCKS
    BY FrameParts DEF Whole, Sized
  <2> DEFINE shifts == d.shifts
  <2>2. shifts \in Seq(Nat) /\ Len(shifts) = BLOCKS
    BY <2>1
  <2> HIDE DEF shifts
  <2>3. \A i \in Blocks : shifts[i] \in Nat
    BY <2>2, RatesOfPulses DEF Blocks
  <2> QED
    BY <2>1, <2>3, PositionsAre DEF shifts
<1> HIDE DEF n
<1>2. \A i \in 1..n : \A e \in S : ReadLsb(e, Positions(d.shifts)[i]) \in S
  BY ReadLsbIs
<1>3. step \in Steps(n, S)
  BY <1>2 DEF Steps
<1> HIDE DEF step, S
<1>4. PICK w : WalksAlong(w, n, S, d, step)
  BY <1>1, <1>3, StepsExist, Zenon
<1>5. (\A i \in 1..n : w[i - 1] \in S) /\ w[n] \in S
  BY <1>1, <1>4, StaysAlong, Zenon
<1>6. w[0] = d /\ \A i \in 1..n : w[i] = ReadLsb(w[i - 1], Positions(d.shifts)[i])
  BY <1>4, <1>5, Zenon DEF WalksAlong, step
<1>7. ReadLsbs(d) = w[n]
  BY <1>1, <1>6, ReadLsbsFollow, Zenon DEF n
<1> QED
  BY <1>5, <1>7, Zenon DEF S

(* All signs are read. *)
LEMMA ReadSignsAre ==
  ASSUME NEW d \in Frames
  PROVE  ReadSigns(d) \in Frames
<1> DEFINE n == Len(Positions(Once))
           S == Frames
           step == [i \in 1..n |-> [e \in S |-> ReadSign(e, Positions(Once)[i])]]
<1>1. n \in Nat /\ d \in S
  <2>1. \A i \in Blocks : Once[i] \in Nat
    BY DEF Once
  <2> QED
    BY <2>1, PositionsAre
<1> HIDE DEF n
<1>2. \A i \in 1..n : \A e \in S : ReadSign(e, Positions(Once)[i]) \in S
  BY ReadSignIs
<1>3. step \in Steps(n, S)
  BY <1>2 DEF Steps
<1> HIDE DEF step, S
<1>4. PICK w : WalksAlong(w, n, S, d, step)
  BY <1>1, <1>3, StepsExist, Zenon
<1>5. (\A i \in 1..n : w[i - 1] \in S) /\ w[n] \in S
  BY <1>1, <1>4, StaysAlong, Zenon
<1>6. w[0] = d /\ \A i \in 1..n : w[i] = ReadSign(w[i - 1], Positions(Once)[i])
  BY <1>4, <1>5, Zenon DEF WalksAlong, step
<1>7. ReadSigns(d) = w[n]
  BY <1>1, <1>6, ReadSignsFollow, Zenon DEF n
<1> QED
  BY <1>5, <1>7, Zenon DEF S

(* The pulses of a frame are decoded from whatever payload. *)
LEMMA DecodePulsesAre ==
  ASSUME NEW d \in Sized(0, 0)
  PROVE  DecodePulses(d) \in Frames
<1>1. ReadRate(d) \in Sized(0, 0)
  BY ReadRateIs DEF Sized
<1>2. ReadSums(ReadRate(d)) \in Whole
  BY <1>1, ReadSumsAre DEF Whole
<1>3. ReadShells(ReadSums(ReadRate(d))) \in Whole
  BY <1>2, ReadShellsAre, Zenon
<1>4. ReadLsbs(ReadShells(ReadSums(ReadRate(d)))) \in Frames
  BY <1>3, ReadLsbsAre, Zenon
<1> QED
  BY <1>4, ReadSignsAre, Zenon DEF DecodePulses

-----------------------------------------------------------------------------
(* The other parameters of a frame. *)
SameSize(e, d) == e \in Frames /\ e.sum = d.sum /\ e.shifts = d.shifts

(* A field that is read has the values that its table has symbols for. *)
LEMMA KeepsSize ==
  ASSUME NEW d \in Frames,
         NEW field \in {"fs", "typeOffset", "gain", "nlsf", "lag", "seed", "vad", "term"},
         NEW cdf, IsFullTable(cdf),
         field \in {"fs", "typeOffset"} => DOMAIN cdf = 0..4
  PROVE  SameSize(Keep(Read(d, cdf), field), d)
<1> DEFINE e == Read(d, cdf)
<1>1. Reads(e, d, cdf)
  BY ReadIs DEF IsFullTable
<1>2. field \in {"fs", "typeOffset"} => e.data \in 0..3
  <2>1. field \in {"fs", "typeOffset"} => e.data \in 0..4 - 1
    BY ReadWithin
  <2> QED
    BY <2>1
<1> HIDE DEF e
<1>3. e \in Frames /\ e.sum = d.sum /\ e.shifts = d.shifts
  BY <1>1 DEF Reads
<1>4. Keep(e, field) \in Frames
  <2>1. CASE field \in {"fs", "typeOffset"}
    BY <1>2, <1>3, <2>1, KeepIs
  <2>2. CASE field \notin {"fs", "typeOffset"}
    <3>1. field \in {"gain", "nlsf", "lag", "seed", "vad", "term"}
      BY <2>2
    <3> QED
      BY <1>3, <3>1, KeepIs
  <2> QED
    BY <2>1, <2>2
<1>5. Keep(e, field).sum = e.sum /\ Keep(e, field).shifts = e.shifts
  BY <1>3 DEF Keep, Frames
<1> QED
  BY <1>3, <1>4, <1>5 DEF SameSize, e

(* The rate of a packet is one of four, and tunes the decoder to one of two
   codebooks. *)
LEMMA ReadRateOfPacketIs ==
  ASSUME NEW d \in Frames
  PROVE  SameSize(ReadRateOfPacket(d), d)
<1> DEFINE e == Keep(Read(d, SamplingRates_CDF), "fs")
<1>1. SameSize(e, d)
  BY IndexTables, KeepsSize
<1>2. ReadRateOfPacket(d) = d \/ ReadRateOfPacket(d) = Tuned(e, d.fs)
  BY DEF ReadRateOfPacket
<1> HIDE DEF e
<1>3. SameSize([e EXCEPT !.book = BookOf(e.fs)], d)
  <2>1. e \in Frames /\ BookOf(e.fs) \in Books
    BY <1>1 DEF SameSize, BookOf, Books
  <2> DEFINE book == BookOf(e.fs)
  <2> HIDE DEF book
  <2>2. [e EXCEPT !.book = book] \in Frames
    BY <2>1, FrameUpdates DEF book
  <2>3. [e EXCEPT !.book = book].sum = e.sum /\ [e EXCEPT !.book = book].shifts = e.shifts
    BY <2>1 DEF Frames
  <2> QED
    BY <1>1, <2>2, <2>3 DEF SameSize, book
<1>4. SameSize(Tuned(e, d.fs), d)
  BY <1>1, <1>3 DEF Tuned
<1>5. SameSize(d, d)
  BY DEF SameSize
<1> QED
  BY <1>2, <1>4, <1>5

(* The table of each field leaves no interval empty. *)
LEMMA TableOfField ==
  ASSUME NEW d \in Frames, NEW field \in {"typeOffset", "gain", "nlsf", "lag", "seed", "vad", "term"}
  PROVE  /\ IsFullTable(Table(d, field))
         /\ field = "typeOffset" => DOMAIN Table(d, field) = 0..4
<1>1. /\ Sigtype(d) \in 0..1 /\ d.typeOffset \in 0..3 /\ d.book \in Books /\ d.fs \in Rates
  BY SigtypeIs, FrameParts
<1>2. CASE field = "typeOffset"
  <2>1. Table(d, field) \in {type_offset_CDF, type_offset_joint_CDF[d.typeOffset]}
    BY <1>2 DEF Table
  <2>2. \A cdf \in {type_offset_CDF, type_offset_joint_CDF[d.typeOffset]} :
          IsFullTable(cdf) /\ DOMAIN cdf = 0..4
    BY <1>1, IndexTables
  <2> QED
    BY <2>1, <2>2
<1>3. CASE field = "gain"
  <2>1. Table(d, field) \in {gain_CDF[Sigtype(d)], delta_gain_CDF}
    BY <1>3 DEF Table
  <2> QED
    BY <1>1, <1>3, <2>1, IndexTables
<1>4. CASE field = "nlsf"
  <2>1. Table(d, field) = NLSF_CDF[d.book][Sigtype(d)]
    BY <1>4 DEF Table
  <2> QED
    BY <1>1, <1>4, <2>1, IndexTables
<1>5. CASE field = "lag"
  <2>1. Table(d, field) = pitch_lag_CDF[d.fs]
    BY <1>5 DEF Table
  <2> QED
    BY <1>1, <1>5, <2>1, IndexTables
<1>6. CASE field \in {"seed", "vad", "term"}
  <2>1. Table(d, field) \in {Seed_CDF, vadflag_CDF, FrameTermination_CDF}
    BY <1>6 DEF Table
  <2> QED
    BY <1>6, <2>1, IndexTables
<1> QED
  BY <1>2, <1>3, <1>4, <1>5, <1>6

(* One field is read. *)
LEMMA ReadFieldIs ==
  ASSUME NEW d \in Frames, NEW field \in {"typeOffset", "gain", "nlsf", "lag", "seed", "vad", "term"}
  PROVE  SameSize(ReadField(d, field), d)
<1> DEFINE cdf == Table(d, field)
<1>1. IsFullTable(cdf) /\ (field = "typeOffset" => DOMAIN cdf = 0..4)
  BY TableOfField
<1>2. ReadField(d, field) = d \/ ReadField(d, field) = Keep(Read(d, cdf), field)
  BY DEF ReadField
<1> HIDE DEF cdf
<1>3. SameSize(Keep(Read(d, cdf), field), d)
  BY <1>1, KeepsSize
<1>4. SameSize(d, d)
  BY DEF SameSize
<1> QED
  BY <1>2, <1>3, <1>4

(* The walk through the fields. *)
LEMMA FieldsFollow ==
  ASSUME NEW d, NEW fields, Len(fields) \in Nat, NEW w, w[0] = d,
         \A i \in 1..Len(fields) : w[i] = ReadField(w[i - 1], fields[i])
  PROVE  Walk(ReadField, d, fields) = w[Len(fields)]
<1> DEFINE n == Len(fields)
           walked(f) == [i \in 0..n |-> IF i = 0 THEN d ELSE ReadField(f[i - 1], fields[i])]
           after == CHOOSE f : f = walked(f)
           g == [i \in 0..n |-> w[i]]
<1>1. g = walked(g)
  <2>1. 0 \in 0..n /\ \A i \in 0..n : i # 0 => i \in 1..n /\ i - 1 \in 0..n
    OBVIOUS
  <2>2. \A i \in 0..n : w[i] = IF i = 0 THEN d ELSE ReadField(g[i - 1], fields[i])
    <3> HIDE DEF n
    <3>1. \A i \in 0..n : i # 0 => g[i - 1] = w[i - 1]
      BY <2>1, Zenon
    <3> HIDE DEF g
    <3> QED
      BY <2>1, <3>1, Zenon DEF n
  <2> HIDE DEF n
  <2> QED
    BY <2>2, Zenon
<1>2. after = walked(after)
  <2> HIDE DEF g, walked
  <2> QED
    BY <1>1
<1>3. Walk(ReadField, d, fields) = after[n]
  BY Zenon DEF Walk
<1> HIDE DEF after, g
<1>4. \A i \in 0..n : after[i] = IF i = 0 THEN d ELSE ReadField(after[i - 1], fields[i])
  BY <1>2, Zenon
<1>5. n \in Nat /\ 0 \in 0..n
  OBVIOUS
<1> HIDE DEF n, walked
<1>6. after[0] = w[0]
  BY <1>4, <1>5, Zenon
<1>7. \A i \in 1..n : after[i - 1] = w[i - 1] => after[i] = w[i]
  BY <1>4, <1>5, WithinWalk, Zenon DEF n
<1>8. after[n] = w[n]
  BY <1>5, <1>6, <1>7, Agree
<1> QED
  BY <1>3, <1>8, Zenon DEF n

(* All fields are read. *)
LEMMA FieldsAre ==
  ASSUME NEW d \in Frames,
         NEW fields \in Seq({"typeOffset", "gain", "nlsf", "lag", "seed", "vad", "term"})
  PROVE  SameSize(Walk(ReadField, d, fields), d)
<1> DEFINE n == Len(fields)
           S == {e \in Frames : SameSize(e, d)}
           step == [i \in 1..n |-> [e \in S |-> ReadField(e, fields[i])]]
<1>1. n \in Nat /\ d \in S /\ \A e : e \in S <=> SameSize(e, d)
  BY DEF SameSize
<1>2. \A i \in 1..n : fields[i] \in {"typeOffset", "gain", "nlsf", "lag", "seed", "vad", "term"}
  OBVIOUS
<1> HIDE DEF n, S
<1>3. \A i \in 1..n : \A e \in S : ReadField(e, fields[i]) \in S
  <2> TAKE i \in 1..n
  <2> TAKE e \in S
  <2>1. SameSize(e, d) /\ SameSize(ReadField(e, fields[i]), e)
    BY <1>1, <1>2, ReadFieldIs DEF SameSize
  <2>2. SameSize(ReadField(e, fields[i]), d)
    BY <2>1 DEF SameSize
  <2> QED
    BY <1>1, <2>2
<1>4. step \in Steps(n, S)
  BY <1>3 DEF Steps
<1> HIDE DEF step
<1>5. PICK w : WalksAlong(w, n, S, d, step)
  BY <1>1, <1>4, StepsExist, Zenon
<1>6. (\A i \in 1..n : w[i - 1] \in S) /\ w[n] \in S
  BY <1>1, <1>5, StaysAlong, Zenon
<1>7. w[0] = d /\ \A i \in 1..n : w[i] = ReadField(w[i - 1], fields[i])
  BY <1>5, <1>6, Zenon DEF WalksAlong, step
<1>8. Walk(ReadField, d, fields) = w[n]
  BY <1>1, <1>7, FieldsFollow, Zenon DEF n
<1> QED
  BY <1>1, <1>6, <1>8

(* A frame is decoded from whatever payload. *)
LEMMA DecodedParameters ==
  ASSUME NEW rc, Unknown(rc) \in Sized(0, 0)
  PROVE  DecodeParameters(rc) \in Frames
<1> DEFINE d       == ReadRateOfPacket(Unknown(rc))
           indices == <<"typeOffset", "gain", "nlsf", "lag", "seed">>
           ends    == <<"vad", "term">>
           e       == Walk(ReadField, d, indices)
           g       == DecodePulses(e)
           All     == {"typeOffset", "gain", "nlsf", "lag", "seed", "vad", "term"}
<1>1. indices \in Seq(All) /\ ends \in Seq(All)
  OBVIOUS
<1>2. d \in Sized(0, 0)
  <2>1. Unknown(rc) \in Frames
    BY DEF Sized
  <2>2. SameSize(d, Unknown(rc))
    BY <2>1, ReadRateOfPacketIs
  <2> QED
    BY <2>2 DEF SameSize, Sized
<1>3. DecodeParameters(rc) = Walk(ReadField, g, ends)
  BY DEF DecodeParameters, ReadIndices
<1> HIDE DEF d, indices, ends
<1>4. e \in Sized(0, 0)
  <2>1. d \in Frames
    BY <1>2 DEF Sized
  <2>2. SameSize(e, d)
    BY <1>1, <2>1, FieldsAre
  <2> HIDE DEF e
  <2> QED
    BY <1>2, <2>2 DEF SameSize, Sized
<1> HIDE DEF e
<1>5. g \in Frames
  BY <1>4, DecodePulsesAre, Zenon
<1> HIDE DEF g
<1>6. SameSize(Walk(ReadField, g, ends), g)
  BY <1>1, <1>5, FieldsAre
<1> QED
  BY <1>3, <1>6, Zenon DEF SameSize

(* How a packet ends, and how it begins. *)
LEMMA CheckedIs ==
  ASSUME NEW rc \in Reader
  PROVE  Checked(rc) \in Reader
<1>1. [rc EXCEPT !.error = READ_BEYOND] \in Reader /\ [rc EXCEPT !.error = CHECK_FAILED] \in Reader
  BY ReaderUpdates DEF ReadErrors
<1>2. Checked(rc) \in {rc, [rc EXCEPT !.error = READ_BEYOND], [rc EXCEPT !.error = CHECK_FAILED]}
  <2>1. CheckAfterDecoding(rc) \in {rc, [rc EXCEPT !.error = CHECK_FAILED]}
    BY Zenon DEF CheckAfterDecoding
  <2> QED
    BY <2>1 DEF Checked
<1> QED
  BY <1>1, <1>2

(* The decoder starts on any bytes, with any bytes behind them. *)
LEMMA ReaderStarts ==
  ASSUME NEW payload \in Seq(Byte), NEW stale \in Byte
  PROVE  RangeDecInit(payload, stale) \in Reader
<1> DEFINE n == Len(payload)
           behind == <<stale, stale, stale, stale>>
           buffer == payload \o behind
           base == ((buffer[1] * B + buffer[2]) * B + buffer[3]) * B + buffer[4]
<1>1. n \in Nat /\ buffer \in Seq(Byte) /\ Len(buffer) = n + 4
  OBVIOUS
<1>2. RangeDecInit(payload, stale)
        = [base |-> base, range |-> B2 - 1, ix |-> 0, length |-> n, buffer |-> buffer, error |-> OK]
  BY DEF RangeDecInit
<1> HIDE DEF buffer, n
<1>3. base \in Nat
  <2>1. buffer[1] \in Nat /\ buffer[2] \in Nat /\ buffer[3] \in Nat /\ buffer[4] \in Nat
    <3>1. \A i \in 1..4 : buffer[i] \in Byte
      BY <1>1
    <3>2. \A x \in Byte : x \in Nat
      BY Powers DEF Byte
    <3> QED
      BY <3>1, <3>2
  <2>2. B \in Nat
    BY Powers
  <2>3. \A x, y \in Nat : x * B + y \in Nat
    BY <2>2
  <2>4. buffer[1] * B + buffer[2] \in Nat
    BY <2>1, <2>3, Zenon
  <2>5. (buffer[1] * B + buffer[2]) * B + buffer[3] \in Nat
    BY <2>1, <2>3, <2>4, Zenon
  <2> QED
    BY <2>1, <2>3, <2>5, Zenon
<1> HIDE DEF base
<1>4. B2 - 1 \in B..B2 - 1
  BY Powers
<1>5. OK \in ReadErrors
  BY DEF ReadErrors
<1> QED
  BY <1>1, <1>2, <1>3, <1>4, <1>5 DEF Reader, Readers

-----------------------------------------------------------------------------
(* The receiver, whatever packets come. *)
ReceiverInv ==
  /\ packet.bytes \in Seq(Byte)
  /\ dec.rc.range \in B..B2 - 1 /\ (dec.more => dec.rc \in Reader)
  /\ dec.prev \in 0..3 /\ dec.fs \in Rates /\ dec.book \in Books

(* No coder has a whole range, and no packet no bytes. *)
LEMMA NoCoderIs == NoCoder.range \in B..B2 - 1 /\ NoPacket.bytes \in Seq(Byte)
<1>1. B2 - 1 \in B..B2 - 1
  BY Powers
<1> QED
  BY <1>1 DEF NoCoder, NoPacket

(* The receiver at the start. *)
LEMMA ReceiverStarts == Init => ReceiverInv
<1> SUFFICES ASSUME Init PROVE ReceiverInv
  OBVIOUS
<1>1. /\ packet = NoPacket
      /\ dec = [rc |-> NoCoder, n |-> 0, prev |-> 0, fs |-> 3, book |-> BookOf(3), more |-> FALSE]
  BY DEF Init
<1>2. 3 \in Rates /\ BookOf(3) \in Books /\ 0 \in 0..3
  BY DEF Rates, BookOf, Books
<1> QED
  BY <1>1, <1>2, NoCoderIs DEF ReceiverInv

(* A frame that nothing is known of yet. *)
LEMMA UnknownIs ==
  ASSUME ReceiverInv, NEW rc \in Reader
  PROVE  Unknown(rc) \in Sized(0, 0)
<1> DEFINE d == Unknown(rc)
           first == dec.n = 0
<1>1. /\ dec.prev \in 0..3 /\ dec.fs \in Rates /\ dec.book \in Books
      /\ 0 \in 0..N_RATE_LEVELS - 2 /\ first \in BOOLEAN
  BY RatesOfPulses DEF ReceiverInv
<1>2. d = [rc |-> rc, data |-> 0, first |-> first, book |-> dec.book, fs |-> dec.fs,
           typeOffset |-> dec.prev, gain |-> 0, nlsf |-> 0, lag |-> 0, seed |-> 0, rate |-> 0,
           sum |-> <<>>, shifts |-> <<>>, tree |-> <<>>, q |-> <<>>, vad |-> 0, term |-> 0]
  BY DEF Unknown
<1> HIDE DEF d, first
<1>3. d \in Frames
  BY <1>1, <1>2 DEF Frames
<1>4. Len(d.sum) = 0 /\ Len(d.shifts) = 0
  BY <1>2
<1> QED
  BY <1>3, <1>4 DEF Sized, d

(* Whatever the payload, a frame is decoded with sums and indices that are in
   the tables which the next symbol is looked up in (SKP_Silk_decode_parameters()
   and SKP_Silk_decode_pulses(), which check none of them). *)
THEOREM AnyPayloadDecodes ==
  ASSUME ReceiverInv, NEW rc \in Reader
  PROVE  DecodeParameters(rc) \in Frames
BY UnknownIs, DecodedParameters, Zenon

(* A frame that is decoded keeps the receiver's invariant. *)
LEMMA FrameKeepsReceiver ==
  ASSUME ReceiverInv, NEW rc \in Reader, NEW source, DecodeFrame(rc, source),
         packet'.bytes \in Seq(Byte)
  PROVE  ReceiverInv'
<1> DEFINE d == DecodeParameters(rc)
           c == Checked(d.rc)
           more == dec'.more
<1>1. d \in Frames
  BY UnknownIs, DecodedParameters
<1>2. c \in Reader
  BY <1>1, FrameParts, CheckedIs
<1>3. \E m : dec' = [rc   |-> IF m THEN c ELSE NoCoder,
                     n    |-> IF m THEN dec.n + 1 ELSE 0,
                     prev |-> IF m THEN d.typeOffset ELSE 0,
                     fs   |-> IF c.error = OK THEN d.fs ELSE dec.fs,
                     book |-> d.book,
                     more |-> m]
  BY Zenon DEF DecodeFrame
<1> HIDE DEF d, c
<1>4. PICK m : /\ dec'.rc = IF m THEN c ELSE NoCoder
               /\ dec'.prev = IF m THEN d.typeOffset ELSE 0
               /\ dec'.fs = IF c.error = OK THEN d.fs ELSE dec.fs
               /\ dec'.book = d.book /\ dec'.more = m
  BY <1>3
<1>5. /\ d.typeOffset \in 0..3 /\ d.fs \in Rates /\ d.book \in Books /\ dec.fs \in Rates
      /\ c.range \in B..B2 - 1 /\ NoCoder.range \in B..B2 - 1
  BY <1>1, <1>2, FrameParts, ReaderParts, NoCoderIs DEF ReceiverInv
<1>6. dec'.rc.range \in B..B2 - 1 /\ (dec'.more => dec'.rc \in Reader)
  BY <1>2, <1>4, <1>5
<1>7. dec'.prev \in 0..3 /\ dec'.fs \in Rates /\ dec'.book \in Books
  BY <1>4, <1>5
<1> QED
  BY <1>6, <1>7 DEF ReceiverInv

(* What the encoder puts into a packet are bytes. *)
LEMMA LastFrameSendsBytes ==
  ASSUME SenderInv, ReceiverInv, NEW f \in NextFrames, NEW rc, rc = Parameters(f),
         NEW r \in Redundancy, EncodeLastFrame(f, rc, r.term, r.lbrr)
  PROVE  packet'.bytes \in Seq(Byte)
<1> DEFINE ended  == RangeEncode(rc, FrameTermination_CDF, r.term)
           nBytes == LengthInBytes(Len(ended.buffer), ended.range)
           stream == RangeEncWrapUp(ended)
           spare  == IF r.term > MORE_FRAMES /\ MAX_BYTES_OUT >= nBytes + Len(r.lbrr)
                     THEN r.lbrr ELSE <<>>
           part   == [i \in 1..nBytes |-> IF i <= Len(stream) THEN stream[i] ELSE 0]
<1>1. Normal(ended)
  BY ParametersAreNormal, TerminatedIsNormal, PayloadAssumption
<1>2. packet' = NoPacket \/ (packet'.bytes = part \o spare /\ ended.error = OK)
  BY DEF EncodeLastFrame
<1>3. spare \in Seq(Byte)
  BY PayloadAssumption
<1> HIDE DEF spare, ended
<1>4. nBytes \in Nat
  <2> DEFINE K == Len(ended.buffer)
             range == ended.range
  <2>1. K \in Nat /\ range \in B..B2 - 1
    BY <1>1, NormalTypes
  <2> HIDE DEF K, range
  <2>2. LengthInBytes(K, range) = K + LastBytes(BitsToStore(range))
    BY <2>1, LengthIs
  <2>3. LastBytes(BitsToStore(range)) \in Nat
    BY DEF LastBytes
  <2>4. LengthInBytes(K, range) \in Nat
    BY <2>1, <2>2, <2>3
  <2> QED
    BY <2>4 DEF K, range
<1> HIDE DEF nBytes
<1>5. ASSUME ended.error = OK PROVE part \in Seq(Byte)
  <2>1. stream \in Seq(Byte)
    BY <1>1, <1>5, WrapUpKeepsBytes
  <2> HIDE DEF stream
  <2>2. 0 \in Byte
    BY Powers DEF Byte
  <2>3. \A i \in 1..nBytes : (IF i <= Len(stream) THEN stream[i] ELSE 0) \in Byte
    BY <1>4, <2>1, <2>2
  <2> QED
    BY <1>4, <2>3
<1> HIDE DEF part
<1>6. ended.error = OK => part \o spare \in Seq(Byte)
  BY <1>3, <1>5
<1> QED
  BY <1>2, <1>6, NoCoderIs

(* Every step keeps it. *)
LEMMA ReceiverSteps ==
  ASSUME SenderInv, ReceiverInv, [Next]_vars
  PROVE  ReceiverInv'
<1>1. ASSUME dec' = dec, packet'.bytes \in Seq(Byte) PROVE ReceiverInv'
  BY <1>1 DEF ReceiverInv
<1>2. ASSUME Encode PROVE ReceiverInv'
  <2>1. PICK f \in NextFrames : \E rc \in {Parameters(f)} :
          EncodeFrame(f, rc) \/ \E r \in Redundancy : EncodeLastFrame(f, rc, r.term, r.lbrr)
    BY <1>2, Zenon DEF Encode
  <2>2. PICK rc : rc = Parameters(f) /\
          (EncodeFrame(f, rc) \/ \E r \in Redundancy : EncodeLastFrame(f, rc, r.term, r.lbrr))
    BY <2>1, Zenon
  <2>3. EncodeFrame(f, rc) => packet' = packet
    BY Zenon DEF EncodeFrame
  <2>4. packet.bytes \in Seq(Byte)
    BY DEF ReceiverInv
  <2>5. packet'.bytes \in Seq(Byte)
    BY <2>2, <2>3, <2>4, LastFrameSendsBytes, Zenon
  <2>6. dec' = dec
    BY <1>2 DEF Encode
  <2> QED
    BY <1>1, <2>5, <2>6
<1>3. ASSUME DecodeFirst PROVE ReceiverInv'
  <2>1. packet' = NoPacket /\ packet.bytes \in Seq(Byte)
    BY <1>3 DEF DecodeFirst, ReceiverInv
  <2>2. packet'.bytes \in Seq(Byte)
    BY <2>1, NoCoderIs
  <2>3. CASE dec' = dec
    BY <1>1, <2>2, <2>3
  <2>4. ASSUME NEW stale \in StaleBytes, NEW source,
             DecodeFrame(RangeDecInit(packet.bytes, stale), source)
        PROVE  ReceiverInv'
    <3>1. stale \in Byte
      BY PayloadAssumption
    <3>2. RangeDecInit(packet.bytes, stale) \in Reader
      BY <2>1, <3>1, ReaderStarts
    <3> QED
      BY <2>2, <2>4, <3>2, FrameKeepsReceiver, Zenon
  <2>5. dec' = dec \/ \E stale \in StaleBytes :
                        DecodeFrame(RangeDecInit(packet.bytes, stale),
                                    IF Misread THEN Damaged ELSE packet.holds)
    BY <1>3, Zenon DEF DecodeFirst
  <2> QED
    BY <2>3, <2>4, <2>5, Zenon
<1>4. ASSUME DecodeNext PROVE ReceiverInv'
  <2>1. dec.rc \in Reader /\ packet' = packet /\ packet.bytes \in Seq(Byte)
       /\ DecodeFrame(dec.rc, playing)
    BY <1>4, Zenon DEF DecodeNext, ReceiverInv
  <2> QED
    BY <2>1, FrameKeepsReceiver, Zenon
<1>5. ASSUME Stray PROVE ReceiverInv'
  <2>1. dec' = dec /\ \E bytes \in StrayPayloads : packet'.bytes = bytes
    BY <1>5 DEF Stray
  <2> QED
    BY <1>1, <2>1, PayloadAssumption
<1>6. ASSUME Lose PROVE ReceiverInv'
  <2>1. dec' = dec /\ packet' = NoPacket
    BY <1>6 DEF Lose
  <2> QED
    BY <1>1, <2>1, NoCoderIs
<1>7. ASSUME ChangeRate \/ Take \/ UNCHANGED vars PROVE ReceiverInv'
  <2>1. dec' = dec /\ packet' = packet
    BY <1>7 DEF ChangeRate, Take, vars
  <2> QED
    BY <1>1, <2>1 DEF ReceiverInv
<1> QED
  BY <1>2, <1>3, <1>4, <1>5, <1>6, <1>7, Zenon DEF Next

(* No range ever loses its byte of resolution, neither of a coder that encodes
   nor of one that decodes, for whatever frames, tables and payloads: no symbol
   is encoded that its table leaves no interval for, which for the shell coder
   only the scaling in SKP_Silk_encode_pulses() sees to, and none is decoded
   that has none, however damaged the payload is. *)
THEOREM IntervalsAreNormal == Spec => []IntervalIsNormal
<1> DEFINE Inv == SenderInv /\ ReceiverInv
<1>1. Init => Inv
  BY SenderStarts, ReceiverStarts
<1>2. Inv /\ [Next]_vars => Inv'
  BY SenderSteps, ReceiverSteps
<1>3. Inv => IntervalIsNormal
  <2>1. SUFFICES ASSUME Inv PROVE IntervalIsNormal
    OBVIOUS
  <2>2. enc.rc.range \in B..B2 - 1 /\ packet.rc.range \in B..B2 - 1
    BY <2>1, NormalTypes DEF SenderInv
  <2>3. dec.rc.range \in B..B2 - 1
    BY <2>1 DEF ReceiverInv
  <2> QED
    BY <2>2, <2>3 DEF IntervalIsNormal
<1> HIDE DEF Inv
<1> QED
  BY <1>1, <1>2, <1>3, PTL DEF Spec
=============================================================================
