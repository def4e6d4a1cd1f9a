----------------------------- MODULE RangeCoder -----------------------------
(***************************************************************************)
(* The range coder of the SILK codec (SKP_Silk_range_coder.c), as          *)
(* operators on the structure that the functions share, for bytes of any   *)
(* width.  A byte has b bits and B values, 8 and 256 in the code: base_Q32 *)
(* is then below B^4, a range and a table entry below B^2, and the last    *)
(* entry of a table B^2 - 1 (0xFFFF).                                      *)
(*                                                                         *)
(* A table is a function cdf on 0..n with cdf[0] = 0 and cdf[n] = B^2 - 1: *)
(* symbol i owns the interval cdf[i] .. cdf[i + 1].  The encoder never     *)
(* reads its buffer beyond bufferIx, so its buffer is the sequence of the  *)
(* bytes written and bufferIx its length.                                  *)
(***************************************************************************)
EXTENDS Integers, Sequences

CONSTANTS
  b,                   \* bits of a byte
  B,                   \* values of a byte
  MAX_ARITHM_BYTES     \* size of the buffer

ASSUME ByteAssumption == b \in Nat /\ b >= 2 /\ B \in Nat /\ B >= 2 /\ B = 2^b
ASSUME BufferAssumption == MAX_ARITHM_BYTES \in Nat

B2 == B * B
B3 == B * B2
B4 == B * B3
Byte == 0..B - 1

OK                 == "no error"
WRITE_BEYOND       == "write beyond buffer"
CARRY_LOST         == "carry lost"
CDF_OUT_OF_RANGE   == "cdf out of range"
NORMALIZATION      == "normalization failed"
ZERO_INTERVAL      == "zero interval width"
CHECK_FAILED       == "decoder check failed"
READ_BEYOND        == "read beyond buffer"

-----------------------------------------------------------------------------
(* A table, one that leaves an interval to each of its symbols, and those. *)
IsTable(cdf) ==
  \E n \in DOMAIN cdf :
    /\ n \in Nat /\ cdf \in [0..n -> 0..B2 - 1]
    /\ cdf[0] = 0 /\ cdf[n] = B2 - 1
    /\ \A i \in 0..n - 1 : cdf[i] <= cdf[i + 1]

IsFullTable(cdf) ==
  IsTable(cdf) /\ \A i \in DOMAIN cdf : i + 1 \in DOMAIN cdf => cdf[i] < cdf[i + 1]

IsSymbol(cdf, data) == data \in DOMAIN cdf /\ data + 1 \in DOMAIN cdf

-----------------------------------------------------------------------------
(* If every byte wraps, the loop goes on to the byte before the buffer, the
   highest one of the field error. *)
AllOnes(buffer) == \A i \in 1..Len(buffer) : buffer[i] = B - 1

(* ++ on the last byte, and on those before it while they wrap to zero. *)
Carry(buffer) ==
  LET last == CHOOSE i \in 0..Len(buffer) :
                /\ i > 0 => buffer[i] # B - 1
                /\ \A j \in i + 1..Len(buffer) : buffer[j] = B - 1
  IN [i \in 1..Len(buffer) |->
        IF i < last THEN buffer[i] ELSE IF i = last THEN buffer[i] + 1 ELSE 0]

(* How many bytes an interval of this width lets out of the coder, and what
   they leave of the width: again a range below B^2. *)
Normalization(width) == IF width >= B3 THEN 0 ELSE IF width >= B2 THEN 1 ELSE 2

Narrowed(width) == IF width >= B3 THEN width \div B2
                   ELSE IF width >= B2 THEN width \div B ELSE width

(* Faulty variant of Low: the upper end of the interval. *)
LowOfNext(rc, cdf, data) == rc.range * cdf[data + 1]

Low(rc, cdf, data)   == rc.range * cdf[data]
Width(rc, cdf, data) == rc.range * (cdf[data + 1] - cdf[data])

TopBytes(base, n) ==
  IF n = 0 THEN <<>>
  ELSE IF n = 1 THEN <<base \div B3>> ELSE <<base \div B3, (base \div B2) % B>>

ShiftedOut(base, n) ==
  IF n = 0 THEN base ELSE IF n = 1 THEN (base * B) % B4 ELSE (base * B2) % B4

RangeEncInit == [base |-> 0, range |-> B2 - 1, buffer |-> <<>>, error |-> OK]

(* SKP_Silk_range_encoder().  Without room the carry has been made, but base
   and range stay as they were. *)
RangeEncode(rc, cdf, data) ==
  LET sum    == rc.base + Low(rc, cdf, data)
      base   == sum % B4
      width  == Width(rc, cdf, data)
      n      == Normalization(width)
      buffer == IF sum >= B4 THEN Carry(rc.buffer) ELSE rc.buffer
  IN IF rc.error # OK THEN rc
     ELSE IF sum >= B4 /\ AllOnes(rc.buffer) THEN [rc EXCEPT !.error = CARRY_LOST]
     ELSE IF Len(buffer) + n > MAX_ARITHM_BYTES
     THEN [rc EXCEPT !.buffer = buffer, !.error = WRITE_BEYOND]
     ELSE [rc EXCEPT !.base = ShiftedOut(base, n), !.range = Narrowed(width),
                     !.buffer = buffer \o TopBytes(base, n)]

-----------------------------------------------------------------------------
(* The decoder copies the payload, and what lies behind it is left over from
   an earlier one: 4 bytes of it are within its reach. *)
RangeDecInit(payload, stale) ==
  LET buffer == payload \o <<stale, stale, stale, stale>>
  IN [base   |-> ((buffer[1] * B + buffer[2]) * B + buffer[3]) * B + buffer[4],
      range  |-> B2 - 1,
      ix     |-> 0,
      length |-> Len(payload),
      buffer |-> buffer,
      error  |-> OK]

(* One byte shifted into the base: zero once as many bytes have been read as
   the payload has. *)
ReadByte(rc) ==
  [rc EXCEPT !.base = @ * B + (IF rc.ix < rc.length THEN rc.buffer[rc.ix + 5] ELSE 0),
             !.ix   = IF rc.ix < rc.length THEN @ + 1 ELSE @]

Failed(rc, error) == [rc |-> [rc EXCEPT !.error = error], data |-> 0]

(* The first entry of the table above the base, the upper end of the interval
   that holds it; where the search starts makes no difference to it. *)
Found(rc, cdf) ==
  CHOOSE i \in DOMAIN cdf : /\ rc.base < rc.range * cdf[i]
                           /\ \A j \in 0..i - 1 : rc.range * cdf[j] <= rc.base

Limit(n) == CASE n = 0 -> B4 [] n = 1 -> B3 [] n = 2 -> B2

Shifted(rc, n) == CASE n = 0 -> rc [] n = 1 -> ReadByte(rc) [] n = 2 -> ReadByte(ReadByte(rc))

(* The interval of the symbol, as wide as width, in which the base has come to
   lie. *)
Within(rc, data, base, width) ==
  IF base >= Limit(Normalization(width)) THEN Failed(rc, NORMALIZATION)
  ELSE IF Narrowed(width) = 0 THEN Failed(rc, ZERO_INTERVAL)
  ELSE [rc   |-> Shifted([rc EXCEPT !.base = base, !.range = Narrowed(width)], Normalization(width)),
        data |-> data]

Decoded(rc, cdf, data) ==
  Within(rc, data, rc.base - rc.range * cdf[data], rc.range * (cdf[data + 1] - cdf[data]))

(* SKP_Silk_range_decoder(): the coder, and the symbol. *)
RangeDecode(rc, cdf) ==
  IF rc.error # OK THEN [rc |-> rc, data |-> 0]
  ELSE IF rc.base >= rc.range * (B2 - 1) THEN Failed(rc, CDF_OUT_OF_RANGE)
  ELSE Decoded(rc, cdf, Found(rc, cdf) - 1)

-----------------------------------------------------------------------------
(* SKP_Silk_range_coder_get_length(), from the bytes that were written or read
   and the range that is left. *)
BitLength(x) == CHOOSE k \in 0..2 * b : x < 2^k /\ (k = 0 \/ 2^(k - 1) <= x)

BitsToStore(range) == 2 * b + 2 - BitLength(range - 1)
LengthInBits(ix, range) == b * ix + BitsToStore(range)
LengthInBytes(ix, range) == (LengthInBits(ix, range) + b - 1) \div b

(* Faulty variant of Rounded: the base, cut to the bits that are stored. *)
Cut(rc) ==
  LET unit == 2^(3 * b - BitsToStore(rc.range))
  IN ((rc.base \div B) \div unit) * unit

(* SKP_Silk_range_enc_wrap_up(): the base, rounded up to the bits that are
   stored, and ones in the rest of the last byte.  Returns the bytes of the
   stream. *)
Rounded(rc) ==
  LET unit == 2^(3 * b - BitsToStore(rc.range))
  IN ((rc.base \div B + unit) \div unit) * unit

Fill(bits) == IF bits % b = 0 THEN 0 ELSE 2^(b - (bits % b)) - 1

RangeEncWrapUp(rc) ==
  LET store  == BitsToStore(rc.range)
      base   == Rounded(rc)
      buffer == IF base >= B3 THEN Carry(rc.buffer) ELSE rc.buffer
      first  == (base \div B2) % B
      second == (base \div B) % B
      stored == buffer \o (IF store > b THEN <<first, second + Fill(store)>>
                                        ELSE <<first + Fill(store)>>)
  IN SubSeq(stored, 1, IF Len(stored) < MAX_ARITHM_BYTES THEN Len(stored) ELSE MAX_ARITHM_BYTES)

(* SKP_Silk_range_coder_check_after_decoding(): the rest of the last byte must
   be ones. *)
CheckAfterDecoding(rc) ==
  LET bits == LengthInBits(rc.ix, rc.range)
      last == LengthInBytes(rc.ix, rc.range)
      ones == Fill(bits)
  IN IF last > rc.length \/ rc.buffer[last] % (ones + 1) # ones
     THEN [rc EXCEPT !.error = CHECK_FAILED] ELSE rc
=============================================================================
