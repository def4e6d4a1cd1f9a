-------------------------- MODULE SilkPipeProofs ---------------------------
(***************************************************************************)
(* That what is heard is what was encoded, from the round trip of the      *)
(* range coder (RoundTrip) and the invariants of the two ends              *)
(* (SilkStreamProofs).                                                     *)
(*                                                                         *)
(* A frame is parts of symbols, laid end to end.  The decoder knows only   *)
(* the tables it looks symbols up in; its steps over a frame read the      *)
(* symbols part by part, so that a decoder in step with the encoder        *)
(* returns the frame (FrameCrosses).  The steps are lifted to loops by     *)
(* way of what is read so far (RunArrives): the sums, the shells, the      *)
(* lower bits, the signs.                                                  *)
(*                                                                         *)
(* A payload holds the frames that were put into it (Holds), from the      *)
(* encoder that is still building it to the decoder that is half through   *)
(* it; StreamInv says this of every place where a payload can be.  With    *)
(* it the redundancy behind the frames is found (RedundancyIsFound), and   *)
(* the whole is the pipe of FramePipe, with what that says of a decoder    *)
(* that is astray (StreamIsPipe).                                          *)
(***************************************************************************)
EXTENDS SilkStreamProofs

-----------------------------------------------------------------------------
(* What is read.  A coder that is read from symbol by symbol, from the tables of
   the symbols, returns them and ends as another. *)
Delivers(rc, part, rc2) ==
  \E w : /\ w[0] = rc /\ w[Len(part)] = rc2
         /\ \A i \in 1..Len(part) : LET r == RangeDecode(w[i - 1], part[i].cdf)
                                    IN r.rc = w[i] /\ r.data = part[i].data

(* Nothing is read. *)
LEMMA DeliversNothing ==
  ASSUME NEW rc, NEW rc2, Delivers(rc, <<>>, rc2)
  PROVE  rc2 = rc
BY DEF Delivers

(* One symbol is read. *)
LEMMA DeliversOne ==
  ASSUME NEW rc, NEW s, NEW rc2, Delivers(rc, <<s>>, rc2)
  PROVE  RangeDecode(rc, s.cdf).rc = rc2 /\ RangeDecode(rc, s.cdf).data = s.data
<1> DEFINE part == <<s>>
<1>1. Len(part) = 1 /\ part[1] = s
  OBVIOUS
<1> HIDE DEF part
<1>2. PICK w : /\ w[0] = rc /\ w[1] = rc2
               /\ \A i \in 1..1 : LET r == RangeDecode(w[i - 1], part[i].cdf)
                                  IN r.rc = w[i] /\ r.data = part[i].data
  <2>1. Delivers(rc, part, rc2)
    BY DEF part
  <2> QED
    BY <1>1, <2>1 DEF Delivers
<1>3. 1 \in 1..1 /\ 1 - 1 = 0
  OBVIOUS
<1> QED
  BY <1>1, <1>2, <1>3

(* One part after the other is read. *)
LEMMA DeliversBoth ==
  ASSUME NEW p \in Seq(Symbols), NEW q \in Seq(Symbols), NEW rc, NEW rc2,
         Delivers(rc, p \o q, rc2)
  PROVE  \E m : Delivers(rc, p, m) /\ Delivers(m, q, rc2)
<1> DEFINE part == p \o q
<1>1. /\ Len(p) \in Nat /\ Len(q) \in Nat /\ Len(part) = Len(p) + Len(q)
      /\ \A i \in 1..Len(p) : part[i] = p[i] /\ i \in 1..Len(part)
      /\ \A i \in 1..Len(q) : /\ part[Len(p) + i] = q[i] /\ Len(p) + i \in 1..Len(part)
                              /\ (Len(p) + i) - 1 = Len(p) + (i - 1)
  OBVIOUS
<1>2. PICK w : /\ w[0] = rc /\ w[Len(part)] = rc2
               /\ \A i \in 1..Len(part) : LET r == RangeDecode(w[i - 1], part[i].cdf)
                                          IN r.rc = w[i] /\ r.data = part[i].data
  BY DEF Delivers
<1> HIDE DEF part
<1>3. Delivers(rc, p, w[Len(p)])
  <2>1. \A i \in 1..Len(p) : LET r == RangeDecode(w[i - 1], p[i].cdf)
                             IN r.rc = w[i] /\ r.data = p[i].data
    BY <1>1, <1>2
  <2> QED
    BY <2>1, <1>2, Zenon DEF Delivers
<1>4. Delivers(w[Len(p)], q, rc2)
  <2> DEFINE v == [i \in 0..Len(q) |-> w[Len(p) + i]]
  <2>1. v[0] = w[Len(p)] /\ v[Len(q)] = rc2
    BY <1>1, <1>2
  <2>2. \A i \in 1..Len(q) : v[i] = w[Len(p) + i] /\ v[i - 1] = w[Len(p) + (i - 1)]
    BY <1>1
  <2> HIDE DEF v
  <2>3. \A i \in 1..Len(q) : LET r == RangeDecode(v[i - 1], q[i].cdf)
                             IN r.rc = v[i] /\ r.data = q[i].data
    BY <1>1, <1>2, <2>2
  <2> QED
    BY <2>1, <2>3, Zenon DEF Delivers
<1> QED
  BY <1>3, <1>4, Zenon

(* A symbol of the stream that the decoder has before it, up to the place where
   the encoder is after it. *)
Reaches(e, d) == e.error = OK /\ Len(e.buffer) <= d.length /\ Inside(e, d.buffer)

(* One symbol crosses. *)
LEMMA SymbolCrosses ==
  ASSUME NEW e, Normal(e), NEW d, InStep(e, d), NEW s \in Symbols,
         Reaches(RangeEncode(e, s.cdf, s.data), d)
  PROVE  LET r == RangeDecode(d, s.cdf) IN
         /\ r.data = s.data /\ InStep(RangeEncode(e, s.cdf, s.data), r.rc)
         /\ r.rc.buffer = d.buffer /\ r.rc.length = d.length
<1> DEFINE cdf  == s.cdf
           data == s.data
           next == RangeEncode(e, cdf, data)
           t    == Values(d.buffer)[Len(e.buffer) + 4]
           l    == Lower(e) + Low(e, cdf, data)
<1>1. Codeable(cdf, data) /\ HasInterval(cdf, data)
  BY DEF Symbols, Codeable
<1>2. /\ d.length \in Nat /\ d.buffer \in Seq(Byte) /\ Len(d.buffer) = d.length + 4
      /\ d.base \in Nat
  BY DEF InStep, Decoder
<1> HIDE DEF cdf, data
<1>3. next.error = OK /\ Len(next.buffer) <= d.length /\ Inside(next, d.buffer)
  BY DEF Reaches, cdf, data
<1>4. e.error = OK /\ Normal(next)
  BY <1>1, <1>3, EncodeMoves, EncoderStaysNormal
<1>5. Len(e.buffer) \in Nat /\ Len(next.buffer) \in Nat /\ Lower(e) \in Nat
  BY <1>4, NormalTypes
<1>6. Len(next.buffer) + 4 <= Len(d.buffer)
  <2> HIDE DEF next
  <2> QED
    BY <1>2, <1>3, <1>5
<1>7. l <= t /\ t < l + Width(e, cdf, data)
  BY <1>1, <1>2, <1>3, <1>6, InsideSymbol
<1>8. Low(e, cdf, data) <= d.base /\ d.base < Low(e, cdf, data) + Width(e, cdf, data)
  <2>1. d.base = t - Lower(e)
    BY DEF InStep
  <2>2. Low(e, cdf, data) \in Nat /\ Width(e, cdf, data) \in Nat
    BY <1>1, <1>4, SymbolFits
  <2>3. t \in Nat
    <3>1. Len(next.buffer) = Len(e.buffer) + Normalization(Width(e, cdf, data))
      BY <1>1, <1>3, EncodeMoves
    <3>2. Normalization(Width(e, cdf, data)) \in 0..2
      BY DEF Normalization
    <3>3. Len(e.buffer) + 4 \in 0..Len(d.buffer)
      <4> HIDE DEF next
      <4> QED
        BY <1>2, <1>5, <1>6, <3>1, <3>2
    <3> QED
      BY <1>2, <3>3, ValuesExist DEF AreValues
  <2> HIDE DEF t
  <2> QED
    BY <1>5, <1>7, <2>1, <2>2, <2>3
<1> QED
  BY <1>1, <1>3, <1>8, DecodeMoves DEF cdf, data

(* The interval before a symbol is around that after it. *)
LEMMA ReachesBefore ==
  ASSUME NEW e, Normal(e), NEW s \in Symbols, NEW d, d.buffer \in Seq(Byte), d.length \in Nat,
         Len(d.buffer) = d.length + 4, Reaches(RangeEncode(e, s.cdf, s.data), d)
  PROVE  Reaches(e, d)
<1> DEFINE cdf  == s.cdf
           data == s.data
           next == RangeEncode(e, cdf, data)
<1>1. HasInterval(cdf, data)
  BY DEF Symbols, Codeable
<1> HIDE DEF cdf, data
<1>3. next.error = OK /\ Len(next.buffer) <= d.length /\ Inside(next, d.buffer)
  BY DEF Reaches, cdf, data
<1>4. e.error = OK /\ Normal(next)
  BY <1>1, <1>3, EncodeMoves, EncoderStaysNormal
<1>5. Len(e.buffer) \in Nat /\ Len(next.buffer) \in Nat /\ Lower(e) \in Nat
  BY <1>4, NormalTypes
<1>6. Len(next.buffer) + 4 <= Len(d.buffer)
  <2> HIDE DEF next
  <2> QED
    BY <1>3, <1>5
<1>7. Inside(e, d.buffer)
  BY <1>1, <1>3, <1>6, InsideSymbol
<1>8. Len(e.buffer) <= d.length
  <2>1. Len(next.buffer) = Len(e.buffer) + Normalization(Width(e, cdf, data))
    BY <1>1, <1>3, EncodeMoves
  <2>2. Normalization(Width(e, cdf, data)) \in 0..2
    BY DEF Normalization
  <2> HIDE DEF next
  <2> QED
    BY <1>3, <1>5, <2>1, <2>2
<1> QED
  BY <1>4, <1>7, <1>8 DEF Reaches

(* The walk of an encoder through symbols. *)
IsEncoded(w, e, part) ==
  /\ w[0] = e /\ w[Len(part)] = EncodeSymbols(e, part)
  /\ \A i \in 0..Len(part) : Normal(w[i])
  /\ \A i \in 1..Len(part) : w[i] = RangeEncode(w[i - 1], part[i].cdf, part[i].data)

(* It exists. *)
LEMMA EncodedAlong ==
  ASSUME NEW rc, Normal(rc), NEW symbols \in Seq(Symbols)
  PROVE  \E w : IsEncoded(w, rc, symbols)
<1> DEFINE n == Len(symbols)
           S == {c \in Coder : Normal(c)}
           step == [i \in 1..n |-> [c \in S |-> RangeEncode(c, symbols[i].cdf, symbols[i].data)]]
<1>1. n \in Nat /\ \A i \in 1..n : symbols[i] \in Symbols
  OBVIOUS
<1>2. \A c : c \in S <=> Normal(c)
  BY DEF Normal
<1> HIDE DEF n, S
<1>3. \A i \in 1..n : \A c \in S : RangeEncode(c, symbols[i].cdf, symbols[i].data) \in S
  <2> TAKE i \in 1..n
  <2> TAKE c \in S
  <2>1. HasInterval(symbols[i].cdf, symbols[i].data)
    BY <1>1 DEF Symbols, Codeable
  <2> QED
    BY <1>2, <2>1, EncoderStaysNormal, Zenon
<1>4. step \in Steps(n, S)
  BY <1>3 DEF Steps
<1> HIDE DEF step
<1>5. PICK w : WalksAlong(w, n, S, rc, step)
  BY <1>1, <1>2, <1>4, StepsExist, Zenon
<1>6. (\A i \in 1..n : w[i - 1] \in S) /\ (\A i \in 0..n : w[i] \in S) /\ w[n] \in S
  BY <1>1, <1>5, StaysAlong, Zenon
<1>7. w[0] = rc /\ \A i \in 1..n : w[i] = RangeEncode(w[i - 1], symbols[i].cdf, symbols[i].data)
  BY <1>5, <1>6, Zenon DEF WalksAlong, step
<1>8. EncodeSymbols(rc, symbols) = w[n]
  BY <1>1, <1>7, EncodeFollows, Zenon DEF n
<1>9. \A i \in 0..n : Normal(w[i])
  BY <1>2, <1>6, Zenon
<1> QED
  BY <1>7, <1>8, <1>9, Zenon DEF IsEncoded, n

(* The interval before a part of the stream is around that after it. *)
LEMMA ReachesAlong ==
  ASSUME NEW e, NEW part \in Seq(Symbols), NEW w, IsEncoded(w, e, part),
         NEW d, d.buffer \in Seq(Byte), d.length \in Nat, Len(d.buffer) = d.length + 4,
         Reaches(EncodeSymbols(e, part), d)
  PROVE  \A i \in 0..Len(part) : Normal(w[i]) /\ Reaches(w[i], d)
<1> DEFINE n == Len(part)
<1>1. IsEncoded(w, e, part)
  OBVIOUS
<1>2. n \in Nat /\ \A i \in 1..n : part[i] \in Symbols
  OBVIOUS
<1>3. d.length \in Nat /\ d.buffer \in Seq(Byte) /\ Len(d.buffer) = d.length + 4
  OBVIOUS
<1> HIDE DEF n
<1> DEFINE N == {i \in 0..n : Reaches(w[i], d)}
<1>4. n \in N
  BY <1>1, <1>2 DEF IsEncoded, n
<1>5. \A i \in 0..n - 1 : i + 1 \in N => i \in N
  <2> SUFFICES ASSUME NEW i \in 0..n - 1, i + 1 \in N PROVE i \in N
    OBVIOUS
  <2>1. i + 1 \in 1..n /\ (i + 1) - 1 = i /\ i \in 0..n
    BY <1>2
  <2>2. w[i + 1] = RangeEncode(w[i], part[i + 1].cdf, part[i + 1].data) /\ Normal(w[i])
    BY <1>1, <2>1 DEF IsEncoded, n
  <2>3. Reaches(w[i + 1], d) /\ part[i + 1] \in Symbols
    BY <1>2, <2>1
  <2>4. Reaches(w[i], d)
    BY <1>3, <2>2, <2>3, ReachesBefore, Zenon
  <2> QED
    BY <2>1, <2>4
<1> HIDE DEF N
<1>6. 0..n \subseteq N
  BY <1>2, <1>4, <1>5, InductionDownFrom, Zenon
<1> QED
  BY <1>1, <1>6 DEF N, IsEncoded, n

(* So is the one before all of it. *)
LEMMA PartReaches ==
  ASSUME NEW e, Normal(e), NEW part \in Seq(Symbols),
         NEW d, d.buffer \in Seq(Byte), d.length \in Nat, Len(d.buffer) = d.length + 4,
         Reaches(EncodeSymbols(e, part), d)
  PROVE  Reaches(e, d)
<1>1. PICK w : IsEncoded(w, e, part)
  BY EncodedAlong, Zenon
<1>2. \A i \in 0..Len(part) : Reaches(w[i], d)
  BY <1>1, ReachesAlong, Zenon
<1>3. 0 \in 0..Len(part)
  OBVIOUS
<1> QED
  BY <1>1, <1>2, <1>3 DEF IsEncoded

(* What was encoded is delivered to a decoder that is in step, and they are in
   step again. *)
LEMMA PartArrives ==
  ASSUME NEW e, Normal(e), NEW part \in Seq(Symbols), NEW d, InStep(e, d),
         Reaches(EncodeSymbols(e, part), d)
  PROVE  \E d2 : /\ Delivers(d, part, d2) /\ InStep(EncodeSymbols(e, part), d2)
                 /\ d2.buffer = d.buffer /\ d2.length = d.length
<1>1. PICK w : IsEncoded(w, e, part)
  BY EncodedAlong, Zenon
<1> DEFINE n == Len(part)
<1>2. n \in Nat /\ \A i \in 1..n : part[i] \in Symbols
  OBVIOUS
<1>3. /\ d \in Decoder /\ d.length \in Nat /\ d.buffer \in Seq(Byte)
      /\ Len(d.buffer) = d.length + 4
  BY DEF InStep, Decoder
<1> HIDE DEF n
<1>4. \A i \in 0..n : Normal(w[i]) /\ Reaches(w[i], d)
  BY <1>1, <1>3, ReachesAlong, Zenon DEF n
<1> DEFINE next(c, i) == RangeDecode(c, part[i].cdf).rc
           step == [i \in 1..n |-> [c \in Decoder |-> IF next(c, i) \in Decoder THEN next(c, i) ELSE c]]
<1>5. step \in Steps(n, Decoder)
  <2> HIDE DEF next
  <2> QED
    BY DEF Steps
<1> HIDE DEF step
<1>6. PICK v : WalksAlong(v, n, Decoder, d, step)
  BY <1>2, <1>3, <1>5, StepsExist, Zenon
<1>7. v[0] = d /\ \A i \in 1..n : v[i] = step[i][v[i - 1]]
  BY <1>6 DEF WalksAlong
<1> DEFINE same(i) == InStep(w[i], v[i]) /\ v[i].buffer = d.buffer /\ v[i].length = d.length
           N == {i \in 0..n : same(i)}
<1>8. 0 \in N
  BY <1>1, <1>2, <1>7 DEF IsEncoded
<1>9. ASSUME NEW i \in 0..n - 1, i \in N
      PROVE  /\ i + 1 \in N /\ v[i + 1] = RangeDecode(v[i], part[i + 1].cdf).rc
             /\ RangeDecode(v[i], part[i + 1].cdf).data = part[i + 1].data
  <2>1. i + 1 \in 1..n /\ (i + 1) - 1 = i /\ i \in 0..n /\ i + 1 \in 0..n
    BY <1>2
  <2>2. w[i + 1] = RangeEncode(w[i], part[i + 1].cdf, part[i + 1].data)
    BY <1>1, <2>1 DEF IsEncoded, n
  <2>3. Normal(w[i]) /\ Reaches(w[i + 1], d) /\ part[i + 1] \in Symbols
    BY <1>2, <1>4, <2>1
  <2>4. same(i)
    BY <1>9
  <2>5. Reaches(w[i + 1], v[i])
    BY <2>3, <2>4 DEF Reaches
  <2>6. LET r == RangeDecode(v[i], part[i + 1].cdf) IN
        /\ r.data = part[i + 1].data /\ InStep(w[i + 1], r.rc)
        /\ r.rc.buffer = d.buffer /\ r.rc.length = d.length
    <3> HIDE DEF N
    <3> QED
      BY <2>2, <2>3, <2>4, <2>5, SymbolCrosses
  <2>7. RangeDecode(v[i], part[i + 1].cdf).rc \in Decoder /\ v[i] \in Decoder
    BY <2>4, <2>6 DEF InStep
  <2>8. v[i + 1] = RangeDecode(v[i], part[i + 1].cdf).rc
    BY <1>7, <2>1, <2>7 DEF step
  <2> QED
    BY <2>1, <2>6, <2>8
<1>10. 0..n \subseteq N
  <2> HIDE DEF N
  <2> QED
    BY <1>2, <1>8, <1>9, InductionUpTo, Zenon
<1>11. Delivers(d, part, v[n])
  <2>1. \A i \in 1..n : LET r == RangeDecode(v[i - 1], part[i].cdf)
                        IN r.rc = v[i] /\ r.data = part[i].data
    <3> TAKE i \in 1..n
    <3>1. i - 1 \in 0..n - 1 /\ i - 1 \in N /\ (i - 1) + 1 = i
      <4> HIDE DEF N
      <4> QED
        BY <1>2, <1>10
    <3> HIDE DEF N
    <3> QED
      BY <3>1, <1>9
  <2> QED
    BY <1>7, <2>1, Zenon DEF Delivers, n
<1>12. same(n)
  BY <1>2, <1>10
<1>13. w[n] = EncodeSymbols(e, part)
  BY <1>1 DEF IsEncoded, n
<1> QED
  BY <1>11, <1>12, <1>13, Zenon

-----------------------------------------------------------------------------
(* Two sequences that are joined. *)
LEMMA JoinedIs ==
  ASSUME NEW S, NEW p \in Seq(S), NEW q \in Seq(S), NEW j, j = p \o q
  PROVE  /\ j \in Seq(S) /\ Len(p) \in Nat /\ Len(q) \in Nat /\ Len(j) = Len(p) + Len(q)
         /\ \A k \in 1..Len(p) : j[k] = p[k]
         /\ \A k \in 1..Len(q) : j[Len(p) + k] = q[k]
OBVIOUS

(* Where the parts of what is joined begin. *)
IsPlaced(len, n, parts) ==
  /\ len[0] = 0 /\ len[n] = Len(Concat(parts)) /\ \A i \in 0..n : len[i] \in Nat
  /\ \A i \in 1..n : /\ Len(parts[i]) \in Nat /\ len[i] = len[i - 1] + Len(parts[i])
                     /\ \A j \in 1..Len(parts[i]) :
                          /\ Concat(parts)[len[i - 1] + j] = parts[i][j]
                          /\ len[i - 1] + j \in 1..Len(Concat(parts))

(* Every part is where those before it end. *)
LEMMA PartsArePlaced ==
  ASSUME NEW S, NEW n \in Nat, NEW parts \in Parts(n, S)
  PROVE  \E len : IsPlaced(len, n, parts)
<1>1. PICK w : IsConcat(w, n, S, parts)
  BY ConcatIs, Zenon
<1>2. /\ \A i \in 0..n : w[i] \in Seq(S)
      /\ w[0] = <<>> /\ \A i \in 1..n : w[i] = w[i - 1] \o parts[i]
      /\ Concat(parts) = w[n]
  BY <1>1 DEF IsConcat
<1>3. \A i \in 1..n : parts[i] \in Seq(S)
  BY DEF Parts
<1> DEFINE len == [i \in 0..n |-> Len(w[i])]
           begins(i) == Len(w[i]) <= Len(w[n]) /\ \A j \in 1..Len(w[i]) : w[i][j] = w[n][j]
           N == {i \in 0..n : begins(i)}
<1>4. n \in N
  <2>1. n \in 0..n
    OBVIOUS
  <2> QED
    BY <1>2, <2>1
<1>5. \A i \in 1..n : /\ Len(w[i]) = Len(w[i - 1]) + Len(parts[i])
                      /\ Len(parts[i]) \in Nat /\ Len(w[i - 1]) \in Nat
                      /\ \A j \in 1..Len(w[i - 1]) : w[i][j] = w[i - 1][j]
                      /\ \A j \in 1..Len(parts[i]) : w[i][Len(w[i - 1]) + j] = parts[i][j]
  <2> TAKE i \in 1..n
  <2>1. i - 1 \in 0..n /\ i \in 0..n
    OBVIOUS
  <2>2. w[i - 1] \in Seq(S) /\ parts[i] \in Seq(S) /\ w[i] = w[i - 1] \o parts[i]
    BY <1>2, <1>3, <2>1
  <2> DEFINE p == w[i - 1]
             q == parts[i]
             j == w[i]
  <2>3. p \in Seq(S) /\ q \in Seq(S) /\ j = p \o q
    BY <2>2
  <2> HIDE DEF p, q, j
  <2>4. /\ Len(p) \in Nat /\ Len(q) \in Nat /\ Len(j) = Len(p) + Len(q)
        /\ \A k \in 1..Len(p) : j[k] = p[k]
        /\ \A k \in 1..Len(q) : j[Len(p) + k] = q[k]
    BY <2>3, JoinedIs
  <2> QED
    BY <2>4 DEF p, q, j
<1>6. \A i \in 0..n - 1 : i + 1 \in N => i \in N
  <2> SUFFICES ASSUME NEW i \in 0..n - 1, i + 1 \in N PROVE begins(i)
    OBVIOUS
  <2>1. i + 1 \in 1..n /\ (i + 1) - 1 = i
    OBVIOUS
  <2>2. begins(i + 1)
    OBVIOUS
  <2> HIDE DEF begins, N
  <2>3. /\ Len(w[i + 1]) = Len(w[i]) + Len(parts[i + 1]) /\ Len(parts[i + 1]) \in Nat
        /\ Len(w[i]) \in Nat /\ \A j \in 1..Len(w[i]) : w[i + 1][j] = w[i][j]
    <3> DEFINE k == i + 1
    <3>1. k \in 1..n /\ k - 1 = i
      BY <2>1
    <3> HIDE DEF k
    <3>2. /\ Len(w[k]) = Len(w[k - 1]) + Len(parts[k]) /\ Len(parts[k]) \in Nat
          /\ Len(w[k - 1]) \in Nat /\ \A j \in 1..Len(w[k - 1]) : w[k][j] = w[k - 1][j]
      BY <1>5, <3>1, Zenon
    <3> QED
      BY <3>1, <3>2, Zenon DEF k
  <2>4. Len(w[n]) \in Nat
    BY <1>2
  <2> DEFINE s == w[i]
             t == w[i + 1]
             z == w[n]
  <2>5. Len(t) <= Len(z) /\ \A j \in 1..Len(t) : t[j] = z[j]
    BY <2>2 DEF begins
  <2>6. /\ Len(t) = Len(s) + Len(parts[i + 1]) /\ Len(parts[i + 1]) \in Nat
        /\ Len(s) \in Nat /\ \A j \in 1..Len(s) : t[j] = s[j]
    BY <2>3
  <2> HIDE DEF s, t, z
  <2>7. Len(s) <= Len(z) /\ \A j \in 1..Len(s) : s[j] = z[j]
    BY <2>4, <2>5, <2>6 DEF z
  <2> QED
    BY <2>7 DEF begins, s, z
<1> HIDE DEF N
<1>7. 0..n \subseteq N
  BY <1>4, <1>6, InductionDownFrom, Zenon
<1>8. \A i \in 0..n : begins(i) /\ Len(w[i]) \in Nat
  BY <1>2, <1>7 DEF N
<1>9. ASSUME NEW i \in 1..n
      PROVE  /\ Len(parts[i]) \in Nat /\ len[i] = len[i - 1] + Len(parts[i])
             /\ \A j \in 1..Len(parts[i]) :
                  /\ Concat(parts)[len[i - 1] + j] = parts[i][j]
                  /\ len[i - 1] + j \in 1..Len(Concat(parts))
  <2>1. i - 1 \in 0..n /\ i \in 0..n
    OBVIOUS
  <2>2. len[i] = Len(w[i]) /\ len[i - 1] = Len(w[i - 1])
    BY <2>1
  <2>3. begins(i) /\ Len(w[i]) \in Nat /\ Len(w[n]) \in Nat
    BY <1>8, <2>1
  <2> HIDE DEF len, begins
  <2>4. ASSUME NEW j \in 1..Len(parts[i])
        PROVE  /\ w[n][Len(w[i - 1]) + j] = parts[i][j]
               /\ Len(w[i - 1]) + j \in 1..Len(w[n])
    <3>1. Len(w[i - 1]) + j \in 1..Len(w[i])
      <4>1. Len(w[i]) = Len(w[i - 1]) + Len(parts[i]) /\ Len(parts[i]) \in Nat
            /\ Len(w[i - 1]) \in Nat
        BY <1>5
      <4> DEFINE p == Len(w[i - 1])
                 q == Len(parts[i])
      <4>2. p \in Nat /\ q \in Nat /\ j \in 1..q /\ Len(w[i]) = p + q
        BY <4>1
      <4> HIDE DEF p, q
      <4>3. p + j \in 1..p + q
        BY <4>2
      <4> QED
        BY <4>2, <4>3 DEF p
    <3>2. w[i][Len(w[i - 1]) + j] = parts[i][j]
      BY <1>5
    <3>3. w[i][Len(w[i - 1]) + j] = w[n][Len(w[i - 1]) + j]
      BY <2>3, <3>1 DEF begins
    <3> QED
      BY <2>3, <3>1, <3>2, <3>3 DEF begins
  <2>5. Len(parts[i]) \in Nat /\ Len(w[i]) = Len(w[i - 1]) + Len(parts[i])
    BY <1>5
  <2> QED
    BY <1>2, <2>2, <2>4, <2>5
<1>10. len[0] = 0 /\ len[n] = Len(Concat(parts)) /\ \A i \in 0..n : len[i] \in Nat
  BY <1>2, <1>8
<1> QED
  BY <1>9, <1>10, Zenon DEF IsPlaced

(* All parts are read, one after the other. *)
DeliversEach(m, n, parts, rc, rc2) ==
  /\ m[0] = rc /\ m[n] = rc2
  /\ \A i \in 1..n : Delivers(m[i - 1], parts[i], m[i])

(* What is encoded part after part is delivered part after part. *)
LEMMA DeliversParts ==
  ASSUME NEW S, NEW n \in Nat, NEW parts \in Parts(n, S), NEW rc, NEW rc2,
         Delivers(rc, Concat(parts), rc2)
  PROVE  \E m : DeliversEach(m, n, parts, rc, rc2)
<1>1. PICK len : IsPlaced(len, n, parts)
  BY PartsArePlaced, Zenon
<1> DEFINE all == Concat(parts)
<1>2. PICK w : /\ w[0] = rc /\ w[Len(all)] = rc2
               /\ \A i \in 1..Len(all) : LET r == RangeDecode(w[i - 1], all[i].cdf)
                                         IN r.rc = w[i] /\ r.data = all[i].data
  BY DEF Delivers
<1> DEFINE m == [i \in 0..n |-> w[len[i]]]
<1> HIDE DEF all
<1>3. m[0] = rc /\ m[n] = rc2
  BY <1>1, <1>2 DEF IsPlaced, all
<1>4. ASSUME NEW i \in 1..n PROVE Delivers(m[i - 1], parts[i], m[i])
  <2> DEFINE p == parts[i]
             v == [j \in 0..Len(p) |-> w[len[i - 1] + j]]
  <2>1. i - 1 \in 0..n /\ i \in 0..n
    OBVIOUS
  <2>2. /\ len[i - 1] \in Nat /\ Len(p) \in Nat /\ len[i] = len[i - 1] + Len(p)
        /\ \A j \in 1..Len(p) : /\ all[len[i - 1] + j] = p[j]
                                /\ len[i - 1] + j \in 1..Len(all)
    BY <1>1, <2>1 DEF IsPlaced, all
  <2> HIDE DEF p
  <2>3. v[0] = m[i - 1] /\ v[Len(p)] = m[i]
    BY <2>1, <2>2
  <2>4. \A j \in 1..Len(p) : /\ v[j] = w[len[i - 1] + j] /\ v[j - 1] = w[(len[i - 1] + j) - 1]
    BY <2>2
  <2> HIDE DEF v, m
  <2>5. \A j \in 1..Len(p) : LET r == RangeDecode(v[j - 1], p[j].cdf)
                             IN r.rc = v[j] /\ r.data = p[j].data
    <3> TAKE j \in 1..Len(p)
    <3> DEFINE k == len[i - 1] + j
    <3>1. k \in 1..Len(all) /\ all[k] = p[j] /\ v[j] = w[k] /\ v[j - 1] = w[k - 1]
      BY <2>2, <2>4, Zenon
    <3> HIDE DEF k
    <3>2. RangeDecode(w[k - 1], all[k].cdf).rc = w[k] /\ RangeDecode(w[k - 1], all[k].cdf).data = all[k].data
      BY <1>2, <3>1, Zenon
    <3> QED
      BY <3>1, <3>2, Zenon
  <2> QED
    BY <2>3, <2>5, Zenon DEF Delivers, p
<1> QED
  BY <1>3, <1>4, Zenon DEF DeliversEach

(* A step from d to e that reads a part. *)
StepReads(d, from, part, e, to) ==
  d \in from => \A r : Delivers(d.rc, part, r) => e \in to /\ e.rc = r

WalkReads(w, n, G, parts) ==
  \A i \in 1..n : StepReads(w[i - 1], G[i - 1], parts[i], w[i], G[i])

(* A walk whose steps each read one part and keep what is known on the way has
   read all parts in the end. *)
LEMMA WalkArrives ==
  ASSUME NEW S, NEW n \in Nat, NEW parts \in Parts(n, S), NEW G, NEW w,
         WalkReads(w, n, G, parts)
  PROVE  StepReads(w[0], G[0], Concat(parts), w[n], G[n])
<1> SUFFICES ASSUME w[0] \in G[0], NEW rc2, Delivers(w[0].rc, Concat(parts), rc2)
             PROVE  w[n] \in G[n] /\ w[n].rc = rc2
  BY DEF StepReads
<1>1. PICK m : DeliversEach(m, n, parts, w[0].rc, rc2)
  BY DeliversParts, Zenon
<1>2. m[0] = w[0].rc /\ m[n] = rc2 /\ \A i \in 1..n : Delivers(m[i - 1], parts[i], m[i])
  BY <1>1 DEF DeliversEach
<1> DEFINE N == {i \in 0..n : w[i] \in G[i] /\ w[i].rc = m[i]}
<1>3. 0 \in N
  BY <1>2
<1>4. \A i \in 0..n - 1 : i \in N => i + 1 \in N
  <2> SUFFICES ASSUME NEW i \in 0..n - 1, i \in N PROVE i + 1 \in N
    OBVIOUS
  <2> DEFINE k == i + 1
  <2>1. k \in 1..n /\ k \in 0..n /\ k - 1 = i
    OBVIOUS
  <2> HIDE DEF k
  <2>2. w[k - 1] \in G[k - 1] /\ w[k - 1].rc = m[k - 1]
    BY <2>1
  <2>3. Delivers(w[k - 1].rc, parts[k], m[k])
    BY <1>2, <2>1, <2>2, Zenon
  <2>4. StepReads(w[k - 1], G[k - 1], parts[k], w[k], G[k])
    BY <2>1, Zenon DEF WalkReads
  <2>5. w[k] \in G[k] /\ w[k].rc = m[k]
    BY <2>2, <2>3, <2>4, Zenon DEF StepReads
  <2> QED
    BY <2>1, <2>5 DEF k
<1> HIDE DEF N
<1>5. 0..n \subseteq N
  BY <1>3, <1>4, InductionUpTo, Zenon
<1> QED
  BY <1>2, <1>5 DEF N

(* Steps along places: f has for each place what is done there. *)
Runs(f, d, s, e) ==
  \E w : w[0] = d /\ w[Len(s)] = e /\ \A i \in 1..Len(s) : w[i] = f[s[i]][w[i - 1]]

(* Along the places of one part after the other. *)
RunsEach(m, n, parts, f, d, e) ==
  /\ m[0] = d /\ m[n] = e
  /\ \A i \in 1..n : Runs(f, m[i - 1], parts[i], m[i])

(* Steps through places that are laid end to end are steps through each part. *)
LEMMA RunsParts ==
  ASSUME NEW S, NEW n \in Nat, NEW parts \in Parts(n, S), NEW f, NEW d, NEW e,
         Runs(f, d, Concat(parts), e)
  PROVE  \E m : RunsEach(m, n, parts, f, d, e)
<1>1. PICK len : IsPlaced(len, n, parts)
  BY PartsArePlaced, Zenon
<1> DEFINE all == Concat(parts)
<1>2. PICK w : w[0] = d /\ w[Len(all)] = e /\ \A i \in 1..Len(all) : w[i] = f[all[i]][w[i - 1]]
  BY DEF Runs
<1> DEFINE m == [i \in 0..n |-> w[len[i]]]
<1> HIDE DEF all
<1>3. m[0] = d /\ m[n] = e
  BY <1>1, <1>2 DEF IsPlaced, all
<1>4. ASSUME NEW i \in 1..n PROVE Runs(f, m[i - 1], parts[i], m[i])
  <2> DEFINE p == parts[i]
             v == [j \in 0..Len(p) |-> w[len[i - 1] + j]]
  <2>1. i - 1 \in 0..n /\ i \in 0..n
    OBVIOUS
  <2>2. /\ len[i - 1] \in Nat /\ Len(p) \in Nat /\ len[i] = len[i - 1] + Len(p)
        /\ \A j \in 1..Len(p) : /\ all[len[i - 1] + j] = p[j]
                                /\ len[i - 1] + j \in 1..Len(all)
    BY <1>1, <2>1 DEF IsPlaced, all
  <2> HIDE DEF p
  <2>3. v[0] = m[i - 1] /\ v[Len(p)] = m[i]
    BY <2>1, <2>2
  <2>4. \A j \in 1..Len(p) : /\ v[j] = w[len[i - 1] + j] /\ v[j - 1] = w[(len[i - 1] + j) - 1]
    BY <2>2
  <2> HIDE DEF v, m
  <2>5. \A j \in 1..Len(p) : v[j] = f[p[j]][v[j - 1]]
    <3> TAKE j \in 1..Len(p)
    <3> DEFINE k == len[i - 1] + j
    <3>1. k \in 1..Len(all) /\ all[k] = p[j] /\ v[j] = w[k] /\ v[j - 1] = w[k - 1]
      BY <2>2, <2>4, Zenon
    <3> HIDE DEF k
    <3> QED
      BY <1>2, <3>1
  <2> QED
    BY <2>3, <2>5, Zenon DEF Runs, p
<1> QED
  BY <1>3, <1>4, Zenon DEF RunsEach

(* Places that read a part. *)
RunReads(f, from, part, places, to) ==
  \A d, e : Runs(f, d, places, e) => StepReads(d, from, part, e, to)

(* If each part of the steps reads its part of the symbols, all the steps read
   all the symbols. *)
LEMMA RunArrives ==
  ASSUME NEW S, NEW T, NEW n \in Nat, NEW parts \in Parts(n, S), NEW places \in Parts(n, T),
         NEW G, NEW f, \A i \in 1..n : RunReads(f, G[i - 1], parts[i], places[i], G[i])
  PROVE  RunReads(f, G[0], Concat(parts), Concat(places), G[n])
<1> SUFFICES ASSUME NEW d, NEW e, Runs(f, d, Concat(places), e)
             PROVE  StepReads(d, G[0], Concat(parts), e, G[n])
  BY DEF RunReads
<1>1. PICK w : RunsEach(w, n, places, f, d, e)
  BY RunsParts, Zenon
<1>2. w[0] = d /\ w[n] = e /\ \A i \in 1..n : Runs(f, w[i - 1], places[i], w[i])
  BY <1>1 DEF RunsEach
<1>3. WalkReads(w, n, G, parts)
  BY <1>2, Zenon DEF RunReads, WalkReads
<1>4. StepReads(w[0], G[0], Concat(parts), w[n], G[n])
  BY <1>3, WalkArrives, Zenon
<1> QED
  BY <1>2, <1>4

-----------------------------------------------------------------------------
(* A frame reads what is delivered.  What it knows of its indices. *)
Params(d) == <<d.first, d.book, d.fs, d.typeOffset, d.gain, d.nlsf, d.lag, d.seed, d.rate>>

(* A symbol has been taken from the stream. *)
Took(e, d, v, r) ==
  /\ e \in Frames /\ e.rc = r /\ e.data = v
  /\ Params(e) = Params(d)
  /\ e.sum = d.sum /\ e.shifts = d.shifts /\ e.tree = d.tree /\ e.q = d.q

(* A symbol that the encoder sent is the one that the decoder reads. *)
LEMMA ReadTakes ==
  ASSUME NEW d \in Frames, NEW cdf, IsTable(cdf), NEW v, NEW r,
         Delivers(d.rc, <<Symbol(cdf, v)>>, r)
  PROVE  Took(Read(d, cdf), d, v, r)
<1> DEFINE s == Symbol(cdf, v)
           c == RangeDecode(d.rc, cdf)
<1>1. s.cdf = cdf /\ s.data = v
  BY DEF Symbol
<1> HIDE DEF s
<1>2. c.rc = r /\ c.data = v
  BY <1>1, DeliversOne DEF s
<1> HIDE DEF c
<1>3. Read(d, cdf) = [d EXCEPT !.rc = r, !.data = v]
  BY <1>2 DEF Read, Put, c
<1>4. Read(d, cdf) \in Frames
  BY ReadIs DEF Reads
<1> DEFINE e == [d EXCEPT !.rc = r, !.data = v]
<1>5. /\ e.rc = r /\ e.data = v /\ e.first = d.first /\ e.book = d.book /\ e.fs = d.fs
      /\ e.typeOffset = d.typeOffset /\ e.gain = d.gain /\ e.nlsf = d.nlsf /\ e.lag = d.lag
      /\ e.seed = d.seed /\ e.rate = d.rate
      /\ e.sum = d.sum /\ e.shifts = d.shifts /\ e.tree = d.tree /\ e.q = d.q
  BY DEF Frames
<1> HIDE DEF e
<1> QED
  BY <1>3, <1>4, <1>5 DEF Took, Params, e

-----------------------------------------------------------------------------
(* The sums that are read.  A block is scaled down less often than the decoder
   counts the escapes. *)
LEMMA ScaledWithin ==
  ASSUME NEW q \in Pulses, NEW i \in Blocks
  PROVE  q[i] \in Block /\ \E r \in 0..MAX_SHIFTS : IsScaled(Scaled(q[i]), q[i], r)
<1> DEFINE p == q[i]
           F == SHELL_CODEC_FRAME_LENGTH
<1>1. p \in Block /\ \A k \in 1..F : p[k] \in -MAX_SHIFTS..MAX_SHIFTS
  <2>1. p \in Block
    BY DEF Pulses, Block
  <2>2. p \in [1..F -> -MAX_SHIFTS..MAX_SHIFTS]
    BY Zenon DEF Pulses
  <2> HIDE DEF p
  <2> QED
    BY <2>1, <2>2
<1>2. MAX_SHIFTS \in Nat
  BY RatesOfPulses
<1> HIDE DEF p
<1>3. ASSUME NEW k \in 1..F PROVE Halved(p, MAX_SHIFTS)[k] = 0
  <2> DEFINE P == 2^MAX_SHIFTS
  <2>1. P \in Nat /\ P > MAX_SHIFTS
    BY <1>2, PowersGrow
  <2>2. p[k] \in Int /\ -MAX_SHIFTS <= p[k] /\ p[k] <= MAX_SHIFTS
    BY <1>1, <1>2
  <2>3. Abs(p[k]) \in Nat /\ Abs(p[k]) <= MAX_SHIFTS
    BY <1>2, <2>2 DEF Abs
  <2> HIDE DEF P
  <2>4. Abs(p[k]) = 0 * P + Abs(p[k]) /\ Abs(p[k]) < P
    BY <1>2, <2>1, <2>3
  <2>5. Abs(p[k]) \div P = 0
    <3>1. 0 \in Nat
      OBVIOUS
    <3> QED
      BY <2>1, <2>3, <2>4, <3>1, DivisionIsUnique
  <2>6. k \in DOMAIN p
    BY <1>1 DEF Block
  <2> QED
    BY <2>5, <2>6 DEF Halved, P
<1>4. \E r \in 0..MAX_SHIFTS : IsScaled(Scaled(p), p, r)
  BY <1>1, <1>2, <1>3, ScaledUpTo, Zenon
<1> QED
  BY <1>1, <1>4 DEF p

(* Every frame has some size. *)
LEMMA SizeOf ==
  ASSUME NEW d \in Frames
  PROVE  \E n, m \in Nat : d \in Sized(n, m)
<1>1. Len(d.sum) \in Nat /\ Len(d.shifts) \in Nat
  BY FrameParts
<1> QED
  BY <1>1 DEF Sized

(* The escapes one after the other. *)
LEMMA UnescapedNext ==
  ASSUME NEW d \in Frames, NEW i, NEW times \in Nat
  PROVE  /\ Unescaped(d, i, 0) = d
         /\ Unescaped(d, i, times + 1) = Unescape(Unescaped(d, i, times), i)
<1>0. PICK n \in Nat, m \in Nat : d \in Sized(n, m)
  BY SizeOf
<1> DEFINE S == Sized(n, m)
           t == times + 1
           step == [k \in 1..t |-> [e \in S |-> Unescape(e, i)]]
<1>1. \A k \in Nat : Len(Repeated(i, k)) = k /\ \A j \in 1..k : Repeated(i, k)[j] = i
  BY DEF Repeated
<1>2. t \in Nat
  OBVIOUS
<1>3. step \in Steps(t, S)
  BY UnescapeIs DEF Steps
<1> HIDE DEF step, S, t
<1>4. PICK w : WalksAlong(w, t, S, d, step)
  BY <1>0, <1>2, <1>3, StepsExist, Zenon DEF S
<1>5. \A k \in 1..t : w[k - 1] \in S
  BY <1>2, <1>4, StaysAlong, Zenon
<1>6. w[0] = d /\ \A k \in 1..t : w[k] = Unescape(w[k - 1], i)
  BY <1>4, <1>5, Zenon DEF WalksAlong, step
<1>7. ASSUME NEW k \in Nat, k <= t PROVE Unescaped(d, i, k) = w[k]
  <2> DEFINE s == Repeated(i, k)
  <2>1. Len(s) = k /\ \A j \in 1..k : s[j] = i /\ j \in 1..t
    BY <1>1, <1>2, <1>7
  <2> HIDE DEF s
  <2>2. \A j \in 1..Len(s) : w[j] = Unescape(w[j - 1], s[j])
    BY <1>6, <2>1
  <2>3. Unescapes(w, d, i, k)
    BY <1>6, <2>1, <2>2, Zenon DEF Unescapes, s
  <2> QED
    BY <2>1, <2>3, UnescapedFollows DEF s
<1>8. Unescaped(d, i, 0) = w[0] /\ Unescaped(d, i, times) = w[times] /\ Unescaped(d, i, t) = w[t]
  <2>1. 0 \in Nat /\ 0 <= t /\ times <= t /\ t <= t
    BY DEF t
  <2> QED
    BY <1>2, <1>7, <2>1, Zenon
<1>9. w[t] = Unescape(w[times], i)
  <2>1. t \in 1..t /\ t - 1 = times
    BY DEF t
  <2> QED
    BY <1>6, <2>1
<1> QED
  BY <1>6, <1>8, <1>9 DEF t

(* The escapes end with the first sum that is none. *)
LEMMA EscapesEnd ==
  ASSUME NEW d \in Frames, NEW i, NEW R \in 0..MAX_SHIFTS,
         \A k \in 0..R - 1 : Unescaped(d, i, k).data > MAX_PULSES,
         Unescaped(d, i, R).data <= MAX_PULSES
  PROVE  Escapes(d, i) = R
<1> DEFINE data(k) == Unescaped(d, i, k).data
           last(k) == /\ k < MAX_SHIFTS => data(k) <= MAX_PULSES
                      /\ \A j \in 0..k - 1 : data(j) > MAX_PULSES
<1>1. MAX_SHIFTS \in Nat /\ MAX_PULSES \in Nat /\ R \in Nat
  BY RatesOfPulses
<1>2. \A k \in Nat : data(k) \in Nat
  <2>1. PICK n \in Nat, m \in Nat : d \in Sized(n, m)
    BY SizeOf
  <2> QED
    BY <2>1, UnescapedIs, FrameParts DEF Sized
<1>3. last(R)
  OBVIOUS
<1>4. ASSUME NEW k \in 0..MAX_SHIFTS, last(k) PROVE k = R
  <2> HIDE DEF data
  <2>1. CASE k < R
    <3>1. k < MAX_SHIFTS /\ k \in 0..R - 1 /\ k \in Nat
      BY <1>1, <2>1
    <3>2. data(k) <= MAX_PULSES /\ data(k) > MAX_PULSES /\ data(k) \in Nat
      <4>1. data(k) > MAX_PULSES
        BY <3>1 DEF data
      <4> QED
        BY <1>2, <1>4, <3>1, <4>1
    <3> QED
      BY <1>1, <3>2
  <2>2. CASE k > R
    <3>1. R \in 0..k - 1
      BY <1>1, <2>2
    <3>2. data(R) <= MAX_PULSES /\ data(R) > MAX_PULSES /\ data(R) \in Nat
      <4>1. data(R) <= MAX_PULSES
        BY DEF data
      <4> QED
        BY <1>1, <1>2, <1>4, <3>1, <4>1
    <3> QED
      BY <1>1, <3>2
  <2> QED
    BY <1>1, <2>1, <2>2
<1>5. Escapes(d, i) = CHOOSE times \in 0..MAX_SHIFTS : last(times)
  BY DEF Escapes
<1> HIDE DEF last
<1> QED
  BY <1>3, <1>4, <1>5, Zenon

(* One symbol is delivered. *)
LEMMA OneIsDelivered ==
  ASSUME NEW rc, NEW s, NEW rc2, RangeDecode(rc, s.cdf).rc = rc2, RangeDecode(rc, s.cdf).data = s.data
  PROVE  Delivers(rc, <<s>>, rc2)
<1> DEFINE part == <<s>>
           w == [i \in 0..1 |-> IF i = 0 THEN rc ELSE rc2]
<1>1. Len(part) = 1 /\ part[1] = s
  OBVIOUS
<1>2. w[0] = rc /\ w[1] = rc2
  OBVIOUS
<1> HIDE DEF part, w
<1>3. \A i \in 1..Len(part) : LET r == RangeDecode(w[i - 1], part[i].cdf)
                              IN r.rc = w[i] /\ r.data = part[i].data
  <2> TAKE i \in 1..Len(part)
  <2>1. i = 1 /\ i - 1 = 0
    BY <1>1
  <2> QED
    BY <1>1, <1>2, <2>1
<1>4. w[0] = rc /\ w[Len(part)] = rc2
  BY <1>1, <1>2
<1> QED
  BY <1>3, <1>4, Zenon DEF Delivers, part

(* What a frame is after some escapes of block i. *)
Escaped(e, d, i, k) ==
  /\ Params(e) = Params(d) /\ e.sum = d.sum /\ e.q = d.q
  /\ e.shifts = [d.shifts EXCEPT ![i] = k]

(* A turn of the decoder's loop of escapes counts one escape and reads the
   next symbol. *)
LEMMA UnescapeTakes ==
  ASSUME NEW d, NEW e \in Frames, NEW i, NEW k \in Nat,
         d.shifts \in Seq(Nat), i \in DOMAIN d.shifts,
         Escaped(e, d, i, k), NEW v, NEW r,
         Delivers(e.rc, <<Symbol(pulses_per_block_CDF[N_RATE_LEVELS - 1], v)>>, r)
  PROVE  LET u == Unescape(e, i) IN
         u \in Frames /\ u.rc = r /\ u.data = v /\ Escaped(u, d, i, k + 1)
<1> DEFINE cdf == pulses_per_block_CDF[N_RATE_LEVELS - 1]
           c == [e EXCEPT !.shifts[i] = @ + 1]
           u == Unescape(e, i)
           up == [d.shifts EXCEPT ![i] = k + 1]
<1>1. e \in Frames /\ e.shifts = [d.shifts EXCEPT ![i] = k]
  BY DEF Escaped
<1>2. e.shifts \in Seq(Nat) /\ [e.shifts EXCEPT ![i] = @ + 1] = up
  <2> DEFINE s == d.shifts
  <2>1. s \in Seq(Nat) /\ i \in DOMAIN s
    OBVIOUS
  <2> HIDE DEF s
  <2>2. [[s EXCEPT ![i] = k] EXCEPT ![i] = @ + 1] = [s EXCEPT ![i] = k + 1]
    BY <2>1
  <2>3. e.shifts \in Seq(Nat)
    BY <1>1, FrameParts
  <2> QED
    BY <1>1, <2>2, <2>3 DEF s
<1>3. up \in Seq(Nat)
  <2> DEFINE s == d.shifts
  <2>1. s \in Seq(Nat) /\ k + 1 \in Nat
    OBVIOUS
  <2> HIDE DEF s
  <2>2. [s EXCEPT ![i] = k + 1] \in Seq(Nat)
    BY <2>1, ChangedAt
  <2> QED
    BY <2>2 DEF s
<1> HIDE DEF up
<1>4. c = [e EXCEPT !.shifts = up]
  BY <1>2
<1>5. c \in Frames
  BY <1>1, <1>3, <1>4, FrameUpdates
<1>6. /\ c.rc = e.rc /\ c.first = e.first /\ c.book = e.book /\ c.fs = e.fs
      /\ c.typeOffset = e.typeOffset /\ c.gain = e.gain /\ c.nlsf = e.nlsf /\ c.lag = e.lag
      /\ c.seed = e.seed /\ c.rate = e.rate
      /\ c.sum = e.sum /\ c.shifts = up /\ c.tree = e.tree /\ c.q = e.q
  BY <1>1, <1>4 DEF Frames
<1> HIDE DEF c
<1>7. IsTable(cdf)
  <2>1. N_RATE_LEVELS - 1 \in 0..N_RATE_LEVELS - 1
    BY RatesOfPulses
  <2> QED
    BY <2>1, PulseTables DEF IsFullTable
<1>8. u = Read(c, cdf)
  BY DEF Unescape, c
<1>9. Took(u, c, v, r)
  BY <1>5, <1>6, <1>7, <1>8, ReadTakes
<1>10. u \in Frames
  BY <1>9 DEF Took
<1> HIDE DEF u
<1>11. u.rc = r /\ u.data = v /\ Params(u) = Params(c) /\ u.sum = c.sum /\ u.q = c.q
       /\ u.shifts = c.shifts
  BY <1>9 DEF Took
<1>12. Params(c) = Params(e)
  BY <1>6 DEF Params
<1>13. Escaped(u, d, i, k + 1)
  BY <1>6, <1>11, <1>12 DEF Escaped, up
<1> QED
  BY <1>10, <1>11, <1>13 DEF u

(* The symbols behind the first one of a block that is scaled down. *)
IsEscape(part, R, sum) ==
  /\ Len(part) = R
  /\ \A j \in 1..R : part[j] = Symbol(pulses_per_block_CDF[N_RATE_LEVELS - 1],
                                      IF j < R THEN MAX_PULSES + 1 ELSE sum)

(* They have been read. *)
EscapesRead(u, d, i, R, sum, r) == u \in Frames /\ u.rc = r /\ u.data = sum /\ Escaped(u, d, i, R)

(* The loop of escapes ends with the shifts that were encoded, and the sum
   after them. *)
LEMMA EscapesTaken ==
  ASSUME NEW d \in Frames, NEW i, i \in DOMAIN d.shifts,
         d.shifts[i] = 0, d.data > MAX_PULSES,
         NEW R \in 1..MAX_SHIFTS, NEW sum \in 0..MAX_PULSES, NEW part, IsEscape(part, R, sum),
         NEW r, Delivers(d.rc, part, r)
  PROVE  EscapesRead(Unescaped(d, i, Escapes(d, i)), d, i, R, sum, r)
<1> DEFINE rest == pulses_per_block_CDF[N_RATE_LEVELS - 1]
           at(k) == Unescaped(d, i, k)
           is(k) == IF k < R THEN MAX_PULSES + 1 ELSE sum
<1>1. MAX_SHIFTS \in Nat /\ MAX_PULSES \in Nat /\ R \in Nat /\ d.shifts \in Seq(Nat)
  BY RatesOfPulses, FrameParts
<1>2. Len(part) = R /\ \A j \in 1..R : part[j] = Symbol(rest, is(j))
  BY DEF IsEscape
<1> HIDE DEF rest, is
<1>3. PICK w : /\ w[0] = d.rc /\ w[R] = r
               /\ \A j \in 1..R : LET y == RangeDecode(w[j - 1], part[j].cdf)
                                  IN y.rc = w[j] /\ y.data = part[j].data
  BY <1>2 DEF Delivers
<1>4. \A j \in 1..R : Delivers(w[j - 1], <<Symbol(rest, is(j))>>, w[j])
  <2> TAKE j \in 1..R
  <2>1. RangeDecode(w[j - 1], part[j].cdf).rc = w[j]
        /\ RangeDecode(w[j - 1], part[j].cdf).data = part[j].data
    BY <1>3
  <2>2. Delivers(w[j - 1], <<part[j]>>, w[j])
    BY <2>1, OneIsDelivered, Zenon
  <2> QED
    BY <1>2, <2>2
<1>5. at(0) = d /\ \A k \in Nat : at(k + 1) = Unescape(at(k), i)
  <2>1. 0 \in Nat
    OBVIOUS
  <2>2. at(0) = d
    BY <2>1, UnescapedNext, Zenon
  <2>3. ASSUME NEW k \in Nat PROVE at(k + 1) = Unescape(at(k), i)
    BY UnescapedNext, Zenon
  <2> QED
    BY <2>2, <2>3, Zenon
<1> DEFINE good(k) == /\ at(k) \in Frames /\ at(k).rc = w[k] /\ Escaped(at(k), d, i, k)
                      /\ k # 0 => at(k).data = is(k)
           N == {k \in 0..R : good(k)}
<1>6. 0 \in N
  <2>1. [d.shifts EXCEPT ![i] = 0] = d.shifts
    <3> DEFINE s == d.shifts
    <3>1. s \in Seq(Nat) /\ s[i] = 0 /\ i \in DOMAIN s
      BY <1>1
    <3> HIDE DEF s
    <3>2. [s EXCEPT ![i] = 0] = s
      BY <3>1
    <3> QED
      BY <3>2 DEF s
  <2>2. Escaped(d, d, i, 0)
    BY <2>1 DEF Escaped
  <2>3. 0 \in 0..R
    BY <1>1
  <2> HIDE DEF at
  <2> QED
    BY <1>3, <1>5, <2>2, <2>3
<1>7. \A k \in 0..R - 1 : k \in N => k + 1 \in N
  <2> SUFFICES ASSUME NEW k \in 0..R - 1, good(k) PROVE k + 1 \in N
    OBVIOUS
  <2> DEFINE t == k + 1
  <2>1. k \in Nat /\ t \in 1..R /\ t \in 0..R /\ t - 1 = k /\ t # 0
    <3> HIDE DEF good
    <3> QED
      BY <1>1
  <2>2. Delivers(at(k).rc, <<Symbol(rest, is(t))>>, w[t])
    <3> HIDE DEF t, at
    <3> QED
      BY <1>4, <2>1
  <2>3. LET u == Unescape(at(k), i) IN
        u \in Frames /\ u.rc = w[t] /\ u.data = is(t) /\ Escaped(u, d, i, k + 1)
    <3> DEFINE c == at(k)
               s == <<Symbol(rest, is(t))>>
    <3>1. c \in Frames /\ Escaped(c, d, i, k)
      OBVIOUS
    <3>2. Delivers(c.rc, s, w[t])
      BY <2>2
    <3> HIDE DEF t, s, c, at, good
    <3> QED
      <4> DEFINE v == is(t)
                 z == w[t]
      <4>1. k \in Nat /\ d.shifts \in Seq(Nat) /\ i \in DOMAIN d.shifts
        BY <1>1, <2>1
      <4>2. Delivers(c.rc, <<Symbol(pulses_per_block_CDF[N_RATE_LEVELS - 1], v)>>, z)
        BY <3>2 DEF rest, s
      <4> HIDE DEF v, z
      <4>3. LET u == Unescape(c, i) IN
            u \in Frames /\ u.rc = z /\ u.data = v /\ Escaped(u, d, i, k + 1)
        BY <3>1, <4>1, <4>2, UnescapeTakes, Zenon
      <4> QED
        BY <4>3 DEF c, v, z
  <2>4. at(t) = Unescape(at(k), i)
    BY <1>5, <2>1
  <2> HIDE DEF at
  <2> QED
    BY <2>1, <2>3, <2>4
<1> HIDE DEF N
<1>8. 0..R \subseteq N
  BY <1>1, <1>6, <1>7, InductionUpTo, Zenon
<1>9. \A k \in 0..R : good(k)
  BY <1>8 DEF N
<1>10. Escapes(d, i) = R
  <2>1. R \in 0..MAX_SHIFTS
    BY <1>1
  <2>2. \A k \in 0..R - 1 : at(k).data > MAX_PULSES
    <3> TAKE k \in 0..R - 1
    <3>1. CASE k = 0
      <4> HIDE DEF at
      <4> QED
        BY <1>5, <3>1
    <3>2. CASE k # 0
      <4>1. at(k).data = is(k) /\ k < R
        BY <1>1, <1>9, <3>2
      <4> HIDE DEF at
      <4> QED
        BY <1>1, <4>1 DEF is
    <3> QED
      BY <3>1, <3>2
  <2>3. at(R).data <= MAX_PULSES
    <3>1. at(R).data = is(R)
      BY <1>1, <1>9
    <3> HIDE DEF at
    <3> QED
      BY <1>1, <3>1 DEF is
  <2> QED
    BY <2>1, <2>2, <2>3, EscapesEnd, Zenon
<1>11. good(R) /\ is(R) = sum /\ R # 0
  BY <1>1, <1>9 DEF is
<1>12. at(R) = Unescaped(d, i, Escapes(d, i))
  BY <1>10
<1> HIDE DEF at
<1> QED
  BY <1>3, <1>11, <1>12 DEF EscapesRead

(* A sum, or an escape, in the tables of the sums. *)
LEMMA SumIsSymbol ==
  ASSUME NEW level \in 0..N_RATE_LEVELS - 1, NEW data \in 0..MAX_PULSES + 1
  PROVE  /\ IsTable(pulses_per_block_CDF[level])
         /\ Symbol(pulses_per_block_CDF[level], data) \in Symbols
<1> DEFINE cdf == pulses_per_block_CDF[level]
<1>1. IsFullTable(cdf) /\ DOMAIN cdf = 0..MAX_PULSES + 2
  BY PulseTables
<1>2. IsSymbol(cdf, data)
  BY <1>1, RatesOfPulses DEF IsSymbol
<1> HIDE DEF cdf
<1>3. Symbol(cdf, data) \in Symbols /\ IsTable(cdf)
  BY <1>1, <1>2, SymbolOfFullTable DEF IsFullTable
<1> QED
  BY <1>3 DEF cdf

(* The sum of a block that was scaled is one that the tables can code. *)
LEMMA SumOfBlock ==
  ASSUME NEW q \in Block, NEW R, NEW block, IsScaled(block, q, R)
  PROVE  block.sum[1] \in 0..MAX_PULSES /\ block.nRshifts = R /\ R \in Nat
<1>1. 1 \in Inner /\ Level(1) = LEVELS - 1
  BY LevelOfChild
<1>2. block.sum[1] \in Nat /\ block.sum[1] <= MAX_PULSES
  BY <1>1, SumsOfBlock DEF MAX_PULSES
<1>3. block.nRshifts = R /\ R \in Nat
  BY DEF IsScaled
<1> QED
  BY <1>2, <1>3, RatesOfPulses

(* A block that is scaled down is announced by an escape. *)
LEMMA SumSymbolsSplit ==
  ASSUME NEW q \in Block, NEW R \in Nat, R # 0, NEW block, IsScaled(block, q, R),
         NEW rate \in 0..N_RATE_LEVELS - 1
  PROVE  \E part \in Seq(Symbols) :
           /\ IsEscape(part, R, block.sum[1])
           /\ SumSymbols(block, rate) = <<Symbol(pulses_per_block_CDF[rate], MAX_PULSES + 1)>> \o part
<1> DEFINE last == N_RATE_LEVELS - 1
           a == Symbol(pulses_per_block_CDF[rate], MAX_PULSES + 1)
           c == Symbol(pulses_per_block_CDF[last], MAX_PULSES + 1)
           z == Symbol(pulses_per_block_CDF[last], block.sum[1])
           p == [j \in 1..R - 1 |-> c]
           part == p \o <<z>>
<1>1. block.nRshifts = R /\ block.sum[1] \in 0..MAX_PULSES
  BY SumOfBlock
<1>2. last \in 0..N_RATE_LEVELS - 1 /\ MAX_PULSES + 1 \in 0..MAX_PULSES + 1
      /\ \A s \in 0..MAX_PULSES : s \in 0..MAX_PULSES + 1
  BY RatesOfPulses
<1> HIDE DEF last
<1>3. a \in Symbols /\ c \in Symbols /\ z \in Symbols
  BY <1>1, <1>2, SumIsSymbol
<1>4. SumSymbols(block, rate) = <<a>> \o p \o <<z>>
  BY <1>1, Zenon DEF SumSymbols, last
<1>5. \A j \in 1..R : Symbol(pulses_per_block_CDF[last], IF j < R THEN MAX_PULSES + 1 ELSE block.sum[1])
                        = IF j < R THEN c ELSE z
  OBVIOUS
<1> HIDE DEF a, c, z
<1>6. part \in Seq(Symbols) /\ <<a>> \o p \o <<z>> = <<a>> \o part
      /\ Len(part) = R /\ \A j \in 1..R : part[j] = IF j < R THEN c ELSE z
  <2>1. p \in Seq(Symbols) /\ Len(p) = R - 1 /\ \A j \in 1..R - 1 : p[j] = c
    BY <1>3
  <2> HIDE DEF p
  <2>2. part \in Seq(Symbols) /\ <<a>> \o p \o <<z>> = <<a>> \o part
    BY <1>3, <2>1
  <2>3. Len(part) = R /\ \A j \in 1..R : part[j] = IF j < R THEN c ELSE z
    BY <1>3, <2>1
  <2> QED
    BY <2>2, <2>3
<1> HIDE DEF part
<1>7. IsEscape(part, R, block.sum[1])
  BY <1>5, <1>6 DEF IsEscape, last
<1> QED
  BY <1>4, <1>6, <1>7 DEF a

(* A block has got its sum and the number of its shifts. *)
SumTaken(e, d, R, s) ==
  /\ e \in Frames /\ Params(e) = Params(d) /\ e.q = d.q
  /\ e.shifts = Append(d.shifts, R) /\ e.sum = Append(d.sum, s)

SumEnds(e, d, R, s, r) == SumTaken(e, d, R, s) /\ e.rc = r

(* Before its sum is taken. *)
SumRead(e, d, R, s, r) ==
  /\ e \in Frames /\ e.rc = r /\ e.data = s /\ Params(e) = Params(d) /\ e.q = d.q
  /\ e.shifts = Append(d.shifts, R) /\ e.sum = d.sum

(* And when it is. *)
WithSum(u) == [Bounded(u) EXCEPT !.sum = Append(@, Bounded(u).data)]

(* A sum that was read takes its place behind the sums of the blocks before. *)
LEMMA SumIsAppended ==
  ASSUME NEW d \in Frames, NEW u, NEW R \in Nat, NEW s \in 0..MAX_PULSES, NEW r, SumRead(u, d, R, s, r)
  PROVE  SumEnds(WithSum(u), d, R, s, r)
<1> DEFINE sum == Append(d.sum, s)
           e == [u EXCEPT !.sum = sum]
<1>1. u \in Frames /\ u.data = s /\ MAX_PULSES \in Nat /\ d.sum \in Seq(0..MAX_PULSES) /\ u.sum = d.sum
  BY RatesOfPulses, FrameParts DEF SumRead
<1>2. Bounded(u) = u
  BY <1>1 DEF Bounded
<1>3. sum \in Seq(0..MAX_PULSES)
  BY <1>1
<1> HIDE DEF sum
<1>4. e \in Frames
  BY <1>1, <1>3, FrameUpdates
<1>5. /\ e.rc = u.rc /\ Params(e) = Params(u) /\ e.q = u.q /\ e.shifts = u.shifts /\ e.sum = sum
  BY <1>1 DEF Frames, Params
<1>6. [u EXCEPT !.sum = Append(@, u.data)] = e
  BY <1>1 DEF sum
<1> HIDE DEF e
<1>7. SumTaken(e, d, R, s) /\ e.rc = r
  BY <1>4, <1>5 DEF SumTaken, SumRead, sum
<1>8. WithSum(u) = e
  BY <1>2, <1>6 DEF WithSum
<1> QED
  BY <1>7, <1>8 DEF SumEnds

(* An element is appended. *)
IsAppended(a, t, v, n, S) ==
  /\ a \in Seq(S) /\ a \in [1..n + 1 -> S] /\ a[n + 1] = v
  /\ \A j \in 1..n + 1 : j # n + 1 => a[j] = t[j]

(* Append, place by place. *)
LEMMA AppendedIs ==
  ASSUME NEW S, NEW t \in Seq(S), NEW v \in S, NEW n \in Nat, Len(t) = n
  PROVE  IsAppended(Append(t, v), t, v, n, S)
<1> DEFINE a == Append(t, v)
<1>1. a \in Seq(S) /\ Len(a) = n + 1 /\ a[n + 1] = v /\ \A j \in 1..n : a[j] = t[j]
  OBVIOUS
<1> HIDE DEF a
<1>2. a \in [1..n + 1 -> S]
  BY <1>1
<1>3. \A j \in 1..n + 1 : j # n + 1 => j \in 1..n
  OBVIOUS
<1> QED
  BY <1>1, <1>2, <1>3 DEF a, IsAppended

(* The symbols of the sum of a block, and no more than these, give it the sum
   and the shifts that the encoder scaled it down by. *)
LEMMA ReadSumTakes ==
  ASSUME NEW n \in Nat, NEW d \in Sized(n, n), NEW q \in Block, NEW R \in 0..MAX_SHIFTS,
         NEW block, IsScaled(block, q, R), NEW r, Delivers(d.rc, SumSymbols(block, d.rate), r)
  PROVE  SumEnds(ReadSum(d, n + 1), d, R, block.sum[1], r)
<1> DEFINE i == n + 1
           shifts == Append(d.shifts, 0)
           start == [d EXCEPT !.shifts = shifts]
           cdf   == pulses_per_block_CDF[d.rate]
           first == Read(start, cdf)
           u     == Unescaped(first, i, Escapes(first, i))
           s     == block.sum[1]
<1>1. d \in Frames /\ Len(d.sum) = n /\ Len(d.shifts) = n /\ d.shifts \in Seq(Nat) /\ d.sum \in Seq(0..MAX_PULSES)
      /\ d.rate \in 0..N_RATE_LEVELS - 1 /\ MAX_PULSES \in Nat /\ MAX_SHIFTS \in Nat
  BY FrameParts, RatesOfPulses DEF Sized
<1>2. s \in 0..MAX_PULSES /\ block.nRshifts = R /\ R \in Nat
  BY SumOfBlock
<1> HIDE DEF s
<1>3. shifts \in Seq(Nat) /\ i \in DOMAIN shifts /\ shifts[i] = 0 /\ [shifts EXCEPT ![i] = R] = Append(d.shifts, R)
  <2> DEFINE t == d.shifts
  <2>1. t \in Seq(Nat) /\ Len(t) = n
    BY <1>1
  <2> HIDE DEF t
  <2> DEFINE a == Append(t, 0)
             z == Append(t, R)
  <2>2. a \in Seq(Nat) /\ a \in [1..i -> Nat] /\ a[i] = 0 /\ \A j \in 1..i : j # i => a[j] = t[j]
    <3>1. 0 \in Nat
      OBVIOUS
    <3>2. IsAppended(a, t, 0, n, Nat)
      BY <2>1, <3>1, AppendedIs, Zenon
    <3> QED
      BY <3>2 DEF IsAppended
  <2>3. z \in [1..i -> Nat] /\ z[i] = R /\ \A j \in 1..i : j # i => z[j] = t[j]
    <3>1. IsAppended(z, t, R, n, Nat)
      BY <1>2, <2>1, AppendedIs, Zenon
    <3> QED
      BY <3>1 DEF IsAppended
  <2>4. i \in 1..i
    OBVIOUS
  <2> HIDE DEF i, a, z
  <2>5. a \in [1..i -> Nat] /\ \A j \in 1..i : z[j] = IF j = i THEN R ELSE a[j]
    BY <2>2, <2>3
  <2>6. [a EXCEPT ![i] = R] \in [1..i -> Nat]
    BY <1>2, <2>5
  <2>7. [a EXCEPT ![i] = R] = z
    BY <2>3, <2>5, <2>6
  <2> QED
    BY <2>2, <2>4, <2>7 DEF t, a, z
<1> HIDE DEF shifts, i
<1>4. start \in Frames
  BY <1>1, <1>3, FrameUpdates
<1>5. /\ start.rc = d.rc /\ Params(start) = Params(d) /\ start.q = d.q /\ start.shifts = shifts
      /\ start.sum = d.sum
  BY <1>1 DEF Frames, Params
<1>6. [d EXCEPT !.shifts = Append(@, 0)] = start
  BY DEF shifts
<1> HIDE DEF start
<1>7. ReadSum(d, i) = WithSum(u)
  BY <1>6, Zenon DEF ReadSum, WithSum
<1>8. IsTable(cdf)
  <2>1. 0 \in 0..MAX_PULSES + 1
    BY <1>1
  <2> QED
    BY <1>1, <2>1, SumIsSymbol
<1>9. SumRead(u, d, R, s, r)
  <2>1. CASE R = 0
    <3>1. SumSymbols(block, d.rate) = <<Symbol(cdf, s)>>
      BY <1>2, <2>1 DEF SumSymbols, s
    <3> HIDE DEF cdf
    <3>2. Took(first, start, s, r)
      BY <1>4, <1>5, <1>8, <3>1, ReadTakes
    <3>3. first \in Frames /\ first.data = s
      BY <3>2 DEF Took
    <3> HIDE DEF first
    <3>4. Unescaped(first, i, 0) = first
      <4>1. 0 \in Nat
        OBVIOUS
      <4> QED
        BY <3>3, <4>1, UnescapedNext, Zenon
    <3>5. Escapes(first, i) = 0
      <4>1. 0 \in 0..MAX_SHIFTS /\ \A k \in 0..0 - 1 : Unescaped(first, i, k).data > MAX_PULSES
        BY <1>1
      <4>2. Unescaped(first, i, 0).data <= MAX_PULSES
        BY <1>1, <1>2, <3>3, <3>4
      <4> QED
        BY <3>3, <4>1, <4>2, EscapesEnd, Zenon
    <3>6. u = first
      BY <3>4, <3>5
    <3>7. Append(d.shifts, R) = shifts
      BY <2>1 DEF shifts
    <3> HIDE DEF u
    <3> QED
      BY <1>5, <3>2, <3>6, <3>7 DEF Took, SumRead
  <2>2. CASE R # 0
    <3> DEFINE esc == MAX_PULSES + 1
    <3>1. PICK part \in Seq(Symbols) :
             /\ IsEscape(part, R, s)
             /\ SumSymbols(block, d.rate) = <<Symbol(cdf, esc)>> \o part
      BY <1>1, <1>2, <2>2, SumSymbolsSplit DEF s
    <3>2. <<Symbol(cdf, esc)>> \in Seq(Symbols) /\ esc > MAX_PULSES
      <4>1. esc \in 0..MAX_PULSES + 1
        BY <1>1
      <4>2. Symbol(cdf, esc) \in Symbols
        BY <1>1, <4>1, SumIsSymbol
      <4> QED
        BY <1>1, <4>2
    <3> HIDE DEF cdf, esc
    <3>3. PICK m : Delivers(d.rc, <<Symbol(cdf, esc)>>, m) /\ Delivers(m, part, r)
      BY <3>1, <3>2, DeliversBoth, Zenon
    <3>4. Took(first, start, esc, m)
      BY <1>4, <1>5, <1>8, <3>3, ReadTakes
    <3> HIDE DEF first
    <3>5. first \in Frames /\ first.rc = m /\ first.data > MAX_PULSES /\ first.shifts = shifts
      BY <1>5, <3>2, <3>4 DEF Took
    <3>6. i \in DOMAIN first.shifts /\ first.shifts[i] = 0 /\ R \in 1..MAX_SHIFTS
      BY <1>1, <1>3, <2>2, <3>5
    <3>7. Delivers(first.rc, part, r)
      BY <3>3, <3>5
    <3>8. EscapesRead(u, first, i, R, s, r)
      BY <1>2, <3>1, <3>5, <3>6, <3>7, EscapesTaken, Zenon
    <3> HIDE DEF u
    <3> QED
      BY <1>3, <1>5, <3>4, <3>5, <3>8 DEF SumRead, Took, Escaped, EscapesRead
  <2> QED
    BY <2>1, <2>2
<1> HIDE DEF u
<1>10. SumEnds(ReadSum(d, i), d, R, s, r)
  <2>1. d \in Frames /\ R \in Nat /\ s \in 0..MAX_PULSES
    BY <1>1, <1>2
  <2>2. SumEnds(WithSum(u), d, R, s, r)
    BY <1>9, <2>1, SumIsAppended, Zenon
  <2> QED
    BY <1>7, <2>2
<1> QED
  BY <1>10 DEF i, s

(* The frames that have the sums and the shifts of the first n blocks. *)
SumsUpTo(d, Q, n) ==
  {e \in Sized(n, n) : /\ Params(e) = Params(d) /\ e.q = d.q
                       /\ \A j \in 1..n : /\ e.shifts[j] = Scaled(Q[j]).nRshifts
                                          /\ e.sum[j] = Scaled(Q[j]).sum[1]}

(* One block more. *)
LEMMA SumReads ==
  ASSUME NEW d \in Frames, NEW Q \in Pulses, NEW i \in Blocks, NEW e
  PROVE  StepReads(e, SumsUpTo(d, Q, i - 1), SumSymbols(Scaled(Q[i]), d.rate), ReadSum(e, i), SumsUpTo(d, Q, i))
<1> DEFINE n == i - 1
           block == Scaled(Q[i])
<1>1. n \in Nat /\ n + 1 = i /\ i \in Nat /\ BLOCKS \in Nat
  BY RatesOfPulses DEF Blocks
<1> HIDE DEF n
<1> SUFFICES ASSUME e \in SumsUpTo(d, Q, n), NEW r, Delivers(e.rc, SumSymbols(block, d.rate), r)
             PROVE  ReadSum(e, i) \in SumsUpTo(d, Q, i) /\ ReadSum(e, i).rc = r
  BY DEF StepReads, n
<1>2. /\ e \in Sized(n, n) /\ Params(e) = Params(d) /\ e.q = d.q
      /\ \A j \in 1..n : e.shifts[j] = Scaled(Q[j]).nRshifts /\ e.sum[j] = Scaled(Q[j]).sum[1]
  BY DEF SumsUpTo
<1>3. e.rate = d.rate
  BY <1>2 DEF Params
<1>4. Q[i] \in Block /\ \E R \in 0..MAX_SHIFTS : IsScaled(block, Q[i], R)
  BY ScaledWithin
<1>5. PICK R \in 0..MAX_SHIFTS : IsScaled(block, Q[i], R)
  BY <1>4
<1>6. Delivers(e.rc, SumSymbols(block, e.rate), r)
  BY <1>3
<1>7. block.sum[1] \in 0..MAX_PULSES /\ block.nRshifts = R /\ R \in Nat
  BY <1>4, <1>5, SumOfBlock
<1> DEFINE s == block.sum[1]
           u == ReadSum(e, i)
<1>8. block.nRshifts = Scaled(Q[i]).nRshifts /\ s = Scaled(Q[i]).sum[1]
  OBVIOUS
<1> HIDE DEF block
<1>9. SumEnds(ReadSum(e, n + 1), e, R, s, r)
  BY <1>1, <1>2, <1>4, <1>5, <1>6, ReadSumTakes, Zenon DEF s
<1>10. SumEnds(u, e, R, s, r)
  BY <1>1, <1>9
<1> HIDE DEF u, s
<1>11. u \in Frames /\ u.rc = r /\ Params(u) = Params(e) /\ u.q = e.q
       /\ u.shifts = Append(e.shifts, R) /\ u.sum = Append(e.sum, s)
  BY <1>10 DEF SumEnds, SumTaken
<1>12. /\ Len(e.shifts) = n /\ e.shifts \in Seq(Nat) /\ Len(e.sum) = n /\ e.sum \in Seq(0..MAX_PULSES)
       /\ s \in 0..MAX_PULSES
  BY <1>2, <1>7, FrameParts DEF Sized, s
<1>13. IsAppended(u.shifts, e.shifts, R, n, Nat) /\ IsAppended(u.sum, e.sum, s, n, 0..MAX_PULSES)
  <2>1. IsAppended(Append(e.shifts, R), e.shifts, R, n, Nat)
    BY <1>1, <1>7, <1>12, AppendedIs, Zenon
  <2>2. IsAppended(Append(e.sum, s), e.sum, s, n, 0..MAX_PULSES)
    BY <1>1, <1>12, AppendedIs, Zenon
  <2> QED
    BY <1>11, <2>1, <2>2
<1>14. Len(u.shifts) = i /\ Len(u.sum) = i
  <2>1. u.shifts \in Seq(Nat) /\ u.sum \in Seq(0..MAX_PULSES)
    BY <1>13 DEF IsAppended
  <2>2. DOMAIN u.shifts = 1..i /\ DOMAIN u.sum = 1..i
    BY <1>1, <1>13 DEF IsAppended
  <2> QED
    BY <1>1, <2>1, <2>2
<1>15. \A j \in 1..i : u.shifts[j] = Scaled(Q[j]).nRshifts /\ u.sum[j] = Scaled(Q[j]).sum[1]
  <2> TAKE j \in 1..i
  <2>1. CASE j = i
    BY <1>1, <1>7, <1>8, <1>13, <2>1 DEF IsAppended
  <2>2. CASE j # i
    <3>1. j \in 1..n /\ j \in 1..n + 1 /\ j # n + 1
      BY <1>1, <2>2
    <3>2. u.shifts[j] = e.shifts[j] /\ u.sum[j] = e.sum[j]
      BY <1>13, <3>1 DEF IsAppended
    <3> QED
      BY <1>2, <3>1, <3>2
  <2> QED
    BY <2>1, <2>2
<1> QED
  BY <1>2, <1>11, <1>14, <1>15 DEF SumsUpTo, Sized, u

(* ReadSums() goes through the blocks. *)
LEMMA SumsAlong ==
  ASSUME NEW d \in Sized(0, 0)
  PROVE  \E w : /\ w[0] = d /\ w[BLOCKS] = ReadSums(d)
                /\ \A i \in 1..BLOCKS : w[i] = ReadSum(w[i - 1], i)
<1> DEFINE S == UNION {Sized(n, n) : n \in Nat}
           n == BLOCKS
           step == [i \in 1..n |-> [e \in S |-> ReadSum(e, i)]]
<1>1. n \in Nat /\ Len(InBlocks) = n /\ \A i \in 1..n : InBlocks[i] = i
  BY RatesOfPulses DEF InBlocks, Blocks
<1>2. \A k \in Nat : \A e \in Sized(k, k) : \A i \in 1..n : ReadSum(e, i) \in Sized(k + 1, k + 1) /\ k + 1 \in Nat
  BY ReadSumIs
<1> HIDE DEF n
<1>3. \A i \in 1..n : \A e \in S : ReadSum(e, i) \in S
  BY <1>2
<1>4. step \in Steps(n, S)
  BY <1>3 DEF Steps
<1>5. d \in S
  OBVIOUS
<1> HIDE DEF step, S
<1>6. PICK w : WalksAlong(w, n, S, d, step)
  BY <1>1, <1>4, <1>5, StepsExist, Zenon
<1>7. \A i \in 1..n : w[i - 1] \in S
  BY <1>1, <1>6, StaysAlong, Zenon
<1>8. w[0] = d /\ \A i \in 1..n : w[i] = ReadSum(w[i - 1], i)
  BY <1>6, <1>7, Zenon DEF WalksAlong, step
<1>9. ReadSums(d) = w[n]
  BY <1>1, <1>8, ReadSumsFollow, Zenon
<1> QED
  BY <1>8, <1>9, Zenon DEF n

(* The symbols of the sums, of all blocks. *)
AllSums(Q, rate) == Concat([i \in Blocks |-> SumSymbols(Scaled(Q[i]), rate)])

(* They give every block its sum and the shifts that it was scaled down by. *)
LEMMA ReadSumsTake ==
  ASSUME NEW d \in Sized(0, 0), NEW Q \in Pulses
  PROVE  /\ AllSums(Q, d.rate) \in Seq(Symbols)
         /\ StepReads(d, SumsUpTo(d, Q, 0), AllSums(Q, d.rate), ReadSums(d), SumsUpTo(d, Q, BLOCKS))
<1> DEFINE rate == d.rate
           parts == [i \in Blocks |-> SumSymbols(Scaled(Q[i]), rate)]
           G == [i \in 0..BLOCKS |-> SumsUpTo(d, Q, i)]
<1>1. d \in Frames /\ BLOCKS \in Nat /\ Blocks = 1..BLOCKS /\ rate \in 0..N_RATE_LEVELS - 1
  BY FrameParts, RatesOfPulses DEF Sized, Blocks
<1>2. PICK w : /\ w[0] = d /\ w[BLOCKS] = ReadSums(d)
               /\ \A i \in 1..BLOCKS : w[i] = ReadSum(w[i - 1], i)
  BY SumsAlong, Zenon
<1> HIDE DEF rate
<1>3. \A i \in Blocks : SumSymbols(Scaled(Q[i]), rate) \in Seq(Symbols)
  <2> TAKE i \in Blocks
  <2>1. Q[i] \in Block /\ \E R \in 0..MAX_SHIFTS : IsScaled(Scaled(Q[i]), Q[i], R)
    BY ScaledWithin
  <2> QED
    BY <1>1, <2>1, SumSymbolsAre, Zenon
<1>4. parts \in Parts(BLOCKS, Symbols)
  BY <1>1, <1>3 DEF Parts
<1>5. \A i \in 1..BLOCKS : StepReads(w[i - 1], G[i - 1], parts[i], w[i], G[i])
  <2> TAKE i \in 1..BLOCKS
  <2>1. i \in Blocks /\ i - 1 \in 0..BLOCKS /\ i \in 0..BLOCKS
    BY <1>1
  <2>2. G[i - 1] = SumsUpTo(d, Q, i - 1) /\ G[i] = SumsUpTo(d, Q, i)
        /\ parts[i] = SumSymbols(Scaled(Q[i]), rate)
    BY <2>1
  <2>3. w[i] = ReadSum(w[i - 1], i)
    BY <1>2
  <2> HIDE DEF G, parts
  <2>4. StepReads(w[i - 1], SumsUpTo(d, Q, i - 1), SumSymbols(Scaled(Q[i]), rate),
                  ReadSum(w[i - 1], i), SumsUpTo(d, Q, i))
    BY <1>1, <2>1, SumReads, Zenon DEF rate
  <2> QED
    BY <2>2, <2>3, <2>4
<1>6. G[0] = SumsUpTo(d, Q, 0) /\ G[BLOCKS] = SumsUpTo(d, Q, BLOCKS)
  <2>1. 0 \in 0..BLOCKS /\ BLOCKS \in 0..BLOCKS
    BY <1>1
  <2> QED
    BY <2>1
<1>7. AllSums(Q, rate) = Concat(parts)
  BY DEF AllSums
<1> HIDE DEF parts, G
<1>8. Concat(parts) \in Seq(Symbols)
  BY <1>1, <1>4, ConcatType, Zenon
<1>9. WalkReads(w, BLOCKS, G, parts)
  BY <1>5, Zenon DEF WalkReads
<1>10. StepReads(w[0], G[0], Concat(parts), w[BLOCKS], G[BLOCKS])
  BY <1>1, <1>4, <1>9, WalkArrives, Zenon
<1> QED
  BY <1>2, <1>6, <1>7, <1>8, <1>10 DEF rate

-----------------------------------------------------------------------------
(* The order in which the sums split: a node has been seen, or it is a child of
   one that was before it. *)
IsKid(m, s, k) == \E j \in 1..k : m = 2 * s[j] \/ m = 2 * s[j] + 1

IsOrdered(s, n) == \A i \in 1..Len(s) : s[i] = n \/ IsKid(s[i], s, i - 1)

(* Two orders in which each node follows its parent, one after the other, are
   such an order. *)
LEMMA OrderedJoined ==
  ASSUME NEW s \in Seq(Inner), NEW t \in Seq(Inner), NEW n, NEW m, IsOrdered(s, n), IsOrdered(t, m),
         IsKid(m, s, Len(s))
  PROVE  /\ IsOrdered(s \o t, n) /\ s \o t \in Seq(Inner)
         /\ \A j \in 1..Len(s) : (s \o t)[j] = s[j] /\ j \in 1..Len(s \o t)
         /\ \A j \in 1..Len(t) : \E k \in 1..Len(s \o t) : (s \o t)[k] = t[j]
<1> DEFINE u == s \o t
           l == Len(s)
<1>1. /\ u \in Seq(Inner) /\ l \in Nat /\ Len(t) \in Nat /\ Len(u) = l + Len(t)
      /\ \A k \in 1..l : u[k] = s[k]
      /\ \A k \in 1..Len(t) : u[l + k] = t[k]
  OBVIOUS
<1> HIDE DEF u
<1>2. ASSUME NEW c, NEW k \in 0..l, IsKid(c, s, k) PROVE IsKid(c, u, k)
  <2>1. PICK j \in 1..k : c = 2 * s[j] \/ c = 2 * s[j] + 1
    BY <1>2, Zenon DEF IsKid
  <2>2. u[j] = s[j]
    <3>1. j \in 1..l
      BY <1>1, <2>1
    <3> QED
      BY <1>1, <3>1, Zenon
  <2> QED
    BY <2>1, <2>2, Zenon DEF IsKid
<1>3. ASSUME NEW c, NEW k \in Nat, k <= l, NEW i \in Nat, k <= i, IsKid(c, u, k) PROVE IsKid(c, u, i)
  <2>1. PICK j \in 1..k : c = 2 * u[j] \/ c = 2 * u[j] + 1
    BY <1>3, Zenon DEF IsKid
  <2>2. j \in 1..i
    BY <1>3
  <2> QED
    BY <2>1, <2>2, Zenon DEF IsKid
<1>4. ASSUME NEW i \in 1..Len(u) PROVE u[i] = n \/ IsKid(u[i], u, i - 1)
  <2>1. CASE i <= l
    <3>1. i \in 1..l /\ i - 1 \in 0..l
      BY <1>1, <2>1
    <3>2. s[i] = n \/ IsKid(s[i], s, i - 1)
      BY <3>1, Zenon DEF IsOrdered, l
    <3>3. u[i] = s[i]
      BY <1>1, <3>1, Zenon
    <3> QED
      BY <1>2, <3>1, <3>2, <3>3, Zenon
  <2>2. CASE ~(i <= l)
    <3> DEFINE k == i - l
    <3>1. k \in 1..Len(t) /\ l + k = i /\ l \in 0..l /\ i - 1 \in Nat /\ l <= i - 1 /\ k - 1 \in Nat
          /\ l <= l
      BY <1>1, <2>2
    <3>2. u[i] = t[k]
      BY <1>1, <3>1
    <3> HIDE DEF k
    <3>3. t[k] = m \/ IsKid(t[k], t, k - 1)
      BY <3>1, Zenon DEF IsOrdered
    <3>4. CASE t[k] = m
      <4>1. IsKid(m, u, l)
        BY <1>2, <3>1 DEF l
      <4> QED
        BY <1>1, <1>3, <3>1, <3>2, <3>4, <4>1
    <3>5. CASE IsKid(t[k], t, k - 1)
      <4>1. PICK j \in 1..k - 1 : t[k] = 2 * t[j] \/ t[k] = 2 * t[j] + 1
        BY <3>5, Zenon DEF IsKid
      <4>2. j \in 1..Len(t) /\ l + j \in 1..i - 1
        BY <1>1, <3>1, <4>1
      <4>3. u[l + j] = t[j]
        BY <1>1, <4>2, Zenon
      <4> QED
        BY <3>2, <4>1, <4>2, <4>3, Zenon DEF IsKid
    <3> QED
      BY <3>3, <3>4, <3>5
  <2> QED
    BY <2>1, <2>2
<1>5. \A j \in 1..l : u[j] = s[j] /\ j \in 1..Len(u)
  BY <1>1
<1>6. ASSUME NEW j \in 1..Len(t) PROVE \E k \in 1..Len(u) : u[k] = t[j]
  <2>1. l + j \in 1..Len(u)
    BY <1>1
  <2>2. u[l + j] = t[j]
    BY <1>1, Zenon
  <2> QED
    BY <2>1, <2>2, Zenon
<1> QED
  BY <1>1, <1>4, <1>5, <1>6, Zenon DEF IsOrdered, u, l

(* What occurs in the order of the nodes below a node. *)
OccursIn(m, s) == \E k \in 1..Len(s) : s[k] = m

Covers(u, s, t, n) ==
  /\ IsOrdered(u, n) /\ OccursIn(n, u)
  /\ \A m : OccursIn(m, s) \/ OccursIn(m, t) => OccursIn(m, u)

(* The order of the nodes below a node starts with it, and contains those of its
   children. *)
LEMMA PreorderStep ==
  ASSUME NEW n \in Inner, NEW s \in Seq(Inner), NEW t \in Seq(Inner),
         IsOrdered(s, 2 * n), IsOrdered(t, 2 * n + 1)
  PROVE  Covers(<<n>> \o s \o t, s, t, n)
<1> DEFINE u == <<n>> \o s \o t
           a == <<n>>
           c == a \o s
<1>1. a \in Seq(Inner) /\ Len(a) = 1 /\ a[1] = n
  OBVIOUS
<1> HIDE DEF a
<1>2. IsOrdered(a, n) /\ IsKid(2 * n, a, Len(a)) /\ IsKid(2 * n + 1, a, Len(a))
  BY <1>1 DEF IsOrdered, IsKid
<1>3. /\ IsOrdered(c, n) /\ c \in Seq(Inner)
      /\ \A j \in 1..Len(a) : c[j] = a[j] /\ j \in 1..Len(c)
      /\ \A j \in 1..Len(s) : \E k \in 1..Len(c) : c[k] = s[j]
  BY <1>1, <1>2, OrderedJoined, Zenon
<1> HIDE DEF c
<1>4. c[1] = n /\ 1 \in 1..Len(c) /\ Len(c) \in Nat
  BY <1>1, <1>3
<1>5. IsKid(2 * n + 1, c, Len(c))
  BY <1>4 DEF IsKid
<1>6. /\ IsOrdered(c \o t, n)
      /\ \A j \in 1..Len(c) : (c \o t)[j] = c[j] /\ j \in 1..Len(c \o t)
      /\ \A j \in 1..Len(t) : \E k \in 1..Len(c \o t) : (c \o t)[k] = t[j]
  BY <1>3, <1>5, OrderedJoined, Zenon
<1>7. u = c \o t
  BY DEF a, c
<1>8. OccursIn(n, u)
  BY <1>4, <1>6, <1>7, Zenon DEF OccursIn
<1>9. ASSUME NEW m, OccursIn(m, s) PROVE OccursIn(m, u)
  <2>1. PICK j \in 1..Len(s) : s[j] = m
    BY <1>9, Zenon DEF OccursIn
  <2>2. PICK k \in 1..Len(c) : c[k] = m
    BY <1>3, <2>1, Zenon
  <2> QED
    BY <1>6, <1>7, <2>2, Zenon DEF OccursIn
<1>10. ASSUME NEW m, OccursIn(m, t) PROVE OccursIn(m, u)
  <2>1. PICK j \in 1..Len(t) : t[j] = m
    BY <1>10, Zenon DEF OccursIn
  <2> QED
    BY <1>6, <1>7, <2>1, Zenon DEF OccursIn
<1> QED
  <2> HIDE DEF u
  <2> QED
    BY <1>6, <1>7, <1>8, <1>9, <1>10 DEF Covers, u

(* In Preorder a node comes after the one above it, and all inner nodes occur. *)
LEMMA PreorderOrders ==
  /\ IsOrdered(Preorder, 1)
  /\ \A n \in Inner : OccursIn(n, Preorder)
<1> DEFINE F == SHELL_CODEC_FRAME_LENGTH
<1>1. F \in Nat /\ F >= 2 /\ Inner = 1..F - 1
  BY BlockSize DEF Inner
<1>2. PICK p : IsPreorder(p)
  BY PreorderIs
<1>3. /\ p \in Seq(Seq(Inner)) /\ Len(p) = 2 * F - 1 /\ Preorder = p[1]
      /\ \A n \in 1..F - 1 : p[n] = <<n>> \o p[2 * n] \o p[2 * n + 1]
      /\ \A k \in 1..F : p[F - 1 + k] = <<>>
  BY <1>2, Zenon DEF IsPreorder
<1> HIDE DEF F
<1>4. \A n \in 1..2 * F - 1 : p[n] \in Seq(Inner)
  BY <1>1, <1>3
<1>5. \A n \in F..2 * F - 1 : IsOrdered(p[n], n)
  <2> TAKE n \in F..2 * F - 1
  <2>1. n - F + 1 \in 1..F /\ F - 1 + (n - F + 1) = n
    BY <1>1
  <2>2. p[n] = <<>>
    BY <1>3, <2>1
  <2> QED
    BY <2>2 DEF IsOrdered
<1> DEFINE S == {n \in 1..2 * F - 1 : IsOrdered(p[n], n)}
           T(k) == \A n \in 1..2 * F - 1 : n >= 2 * F - 1 - k => n \in S
<1>6. ASSUME NEW n \in 1..F - 1, 2 * n \in S, 2 * n + 1 \in S
      PROVE  /\ n \in S /\ OccursIn(n, p[n])
             /\ \A m : OccursIn(m, p[2 * n]) \/ OccursIn(m, p[2 * n + 1]) => OccursIn(m, p[n])
  <2>1. n \in Inner /\ 2 * n \in 1..2 * F - 1 /\ 2 * n + 1 \in 1..2 * F - 1 /\ n \in 1..2 * F - 1
    BY <1>1
  <2>2. p[2 * n] \in Seq(Inner) /\ p[2 * n + 1] \in Seq(Inner)
    BY <1>4, <2>1
  <2>3. p[n] = <<n>> \o p[2 * n] \o p[2 * n + 1]
    BY <1>3
  <2>4. IsOrdered(p[2 * n], 2 * n) /\ IsOrdered(p[2 * n + 1], 2 * n + 1)
    BY <1>6
  <2> DEFINE s == p[2 * n]
             t == p[2 * n + 1]
  <2>5. Covers(<<n>> \o s \o t, s, t, n)
    BY <2>1, <2>2, <2>4, PreorderStep, Zenon
  <2> QED
    BY <2>1, <2>3, <2>5 DEF Covers
<1>7. \A n \in 1..2 * F - 1 : n \in S
  <2> DEFINE N == {k \in 0..2 * F - 1 : T(k)}
  <2>1. 0 \in N
    <3>1. ASSUME NEW n \in 1..2 * F - 1, n >= 2 * F - 1 - 0 PROVE n \in S
      <4>1. n \in F..2 * F - 1
        BY <1>1, <3>1
      <4> QED
        BY <1>5, <4>1
    <3>2. 0 \in 0..2 * F - 1
      BY <1>1
    <3> HIDE DEF S
    <3> QED
      BY <3>1, <3>2
  <2>2. ASSUME NEW k \in 0..(2 * F - 1) - 1, k \in N PROVE k + 1 \in N
    <3>1. ASSUME NEW n \in 1..2 * F - 1, n >= 2 * F - 1 - (k + 1) PROVE n \in S
      <4>1. CASE n >= F
        <5>1. n \in F..2 * F - 1
          BY <1>1, <4>1
        <5> QED
          BY <1>5, <5>1
      <4>2. CASE ~(n >= F)
        <5>1. n \in 1..F - 1 /\ 2 * n \in 1..2 * F - 1 /\ 2 * n + 1 \in 1..2 * F - 1
              /\ 2 * n >= 2 * F - 1 - k /\ 2 * n + 1 >= 2 * F - 1 - k
          BY <1>1, <3>1, <4>2
        <5>2. T(k)
          BY <2>2
        <5>3. 2 * n \in S /\ 2 * n + 1 \in S
          BY <5>1, <5>2
        <5> QED
          BY <1>6, <5>1, <5>3
      <4> QED
        BY <4>1, <4>2
    <3>2. k + 1 \in 0..2 * F - 1
      BY <1>1
    <3> HIDE DEF S
    <3> QED
      BY <3>1, <3>2
  <2> HIDE DEF N
  <2>3. 0..2 * F - 1 \subseteq N
    <3>1. 2 * F - 1 \in Nat
      BY <1>1
    <3> QED
      BY <2>1, <2>2, <3>1, InductionUpTo
  <2>4. 2 * F - 1 \in N
    BY <1>1, <2>3
  <2>5. T(2 * F - 1)
    BY <2>4 DEF N
  <2> HIDE DEF S
  <2> QED
    BY <1>1, <2>5
<1>8. \A n \in 1..F - 1 : /\ OccursIn(n, p[n])
                          /\ \A m : OccursIn(m, p[2 * n]) \/ OccursIn(m, p[2 * n + 1]) => OccursIn(m, p[n])
  <2> TAKE n \in 1..F - 1
  <2>1. 2 * n \in 1..2 * F - 1 /\ 2 * n + 1 \in 1..2 * F - 1
    BY <1>1
  <2> QED
    BY <1>6, <1>7, <2>1
<1>9. IsOrdered(Preorder, 1)
  <2>1. 1 \in 1..2 * F - 1
    BY <1>1
  <2> QED
    BY <1>3, <1>7, <2>1
<1> HIDE DEF S, T
<1> DEFINE below(n) == \A m : OccursIn(m, p[n]) => OccursIn(m, p[1])
           N == {k \in 0..F - 1 : \A n \in 1..F - 1 : n <= k => below(n)}
<1>10. 0 \in N
  BY <1>1
<1>11. ASSUME NEW k \in 0..(F - 1) - 1, k \in N PROVE k + 1 \in N
  <2>1. ASSUME NEW n \in 1..F - 1, n <= k + 1 PROVE below(n)
    <3>1. CASE n = 1
      BY <3>1
    <3>2. CASE n # 1
      <4>1. PICK h \in 1..F - 1 : h <= k /\ (n = 2 * h \/ n = 2 * h + 1)
        <5>1. n \div 2 \in 1..F - 1 /\ n \div 2 <= k /\ (n = 2 * (n \div 2) \/ n = 2 * (n \div 2) + 1)
          BY <1>1, <2>1, <3>2
        <5> QED
          BY <5>1
      <4>2. below(h)
        BY <1>11, <4>1
      <4>3. \A m : OccursIn(m, p[n]) => OccursIn(m, p[h])
        BY <1>8, <4>1, Zenon
      <4> QED
        BY <4>2, <4>3, Zenon
    <3> QED
      BY <3>1, <3>2
  <2>2. k + 1 \in 0..F - 1
    BY <1>1
  <2> HIDE DEF below
  <2> QED
    BY <2>1, <2>2
<1> HIDE DEF N
<1>12. F - 1 \in N
  <2>1. F - 1 \in Nat
    BY <1>1
  <2>2. 0..F - 1 \subseteq N
    BY <1>10, <1>11, <2>1, InductionUpTo
  <2> QED
    BY <2>1, <2>2
<1>13. ASSUME NEW n \in Inner PROVE OccursIn(n, Preorder)
  <2>1. n \in 1..F - 1 /\ n <= F - 1
    BY <1>1
  <2>2. below(n)
    <3> HIDE DEF below
    <3> QED
      BY <1>12, <2>1 DEF N
  <2> QED
    BY <1>3, <1>8, <2>1, <2>2, Zenon
<1> QED
  BY <1>9, <1>13

-----------------------------------------------------------------------------
(* The sums of a block split again.  What is known of a tree: at some of its
   nodes it has the sum of the block, at the others that or none. *)
Knows(tree, sum, n) == tree[n] = sum[n]

TreeOf(tree, sum) ==
  /\ tree \in Seq(Nat) /\ Len(tree) = 2 * SHELL_CODEC_FRAME_LENGTH - 1
  /\ \A m \in 1..2 * SHELL_CODEC_FRAME_LENGTH - 1 : tree[m] = 0 \/ Knows(tree, sum, m)

(* A sum is split in the tree. *)
Divided(u, t, n, x, y) ==
  /\ u \in Seq(Nat) /\ Len(u) = Len(t) /\ u[2 * n] = x /\ u[2 * n + 1] = y
  /\ \A m \in 1..2 * SHELL_CODEC_FRAME_LENGTH - 1 : m # 2 * n /\ m # 2 * n + 1 => u[m] = t[m]

(* The sums of the two halves are entered, and no other place is touched. *)
LEMMA TreeDivided ==
  ASSUME NEW t \in Seq(Nat), Len(t) = 2 * SHELL_CODEC_FRAME_LENGTH - 1,
         NEW n \in Inner, NEW x \in Nat, NEW y \in Nat
  PROVE  Divided([[t EXCEPT ![2 * n] = x] EXCEPT ![2 * n + 1] = y], t, n, x, y)
<1> DEFINE F == SHELL_CODEC_FRAME_LENGTH
           u == [[t EXCEPT ![2 * n] = x] EXCEPT ![2 * n + 1] = y]
           k == 2 * F - 1
           v(m) == IF m = 2 * n + 1 THEN y ELSE IF m = 2 * n THEN x ELSE t[m]
<1>1. F \in Nat /\ F >= 2 /\ n \in 1..F - 1
  BY BlockSize DEF Inner
<1>2. k \in Nat /\ Len(t) = k /\ 2 * n \in 1..k /\ 2 * n + 1 \in 1..k /\ 2 * n + 1 # 2 * n
  BY <1>1
<1> HIDE DEF F, k
<1>3. DOMAIN t = 1..k /\ \A m \in 1..k : t[m] \in Nat
  BY <1>2
<1>4. u = [m \in 1..k |-> v(m)]
  BY <1>2, <1>3
<1>5. \A m \in 1..k : v(m) \in Nat
  BY <1>3
<1>6. u[2 * n] = x /\ u[2 * n + 1] = y /\ \A m \in 1..k : m # 2 * n /\ m # 2 * n + 1 => u[m] = t[m]
  BY <1>2, <1>4
<1> HIDE DEF v, u
<1>7. u \in Seq(Nat) /\ Len(u) = k
  <2>1. [m \in 1..k |-> v(m)] \in Seq(Nat) /\ Len([m \in 1..k |-> v(m)]) = k
    BY <1>2, <1>5
  <2> QED
    BY <1>4, <2>1
<1> QED
  BY <1>2, <1>6, <1>7 DEF k, F, u, Divided

(* What is left alone while the tree of a block grows. *)
SameBut(e, d) == e \in Frames /\ Params(e) = Params(d) /\ e.sum = d.sum /\ e.shifts = d.shifts

(* One sum has been split. *)
SplitTaken(e, d, sum, n, r) ==
  /\ SameBut(e, d) /\ e.q = d.q /\ e.rc = r
  /\ TreeOf(e.tree, sum) /\ Knows(e.tree, sum, 2 * n) /\ Knows(e.tree, sum, 2 * n + 1)
  /\ \A m \in 1..2 * SHELL_CODEC_FRAME_LENGTH - 1 : Knows(d.tree, sum, m) => Knows(e.tree, sum, m)

(* The decoder splits the sum of a node as the encoder did. *)
LEMMA SplitTakes ==
  ASSUME NEW d \in Frames, NEW q \in Block, NEW R, NEW block, IsScaled(block, q, R),
         TreeOf(d.tree, block.sum), NEW n \in Inner, Knows(d.tree, block.sum, n),
         NEW r, Delivers(d.rc, SplitSymbols(block.sum, n), r)
  PROVE  SplitTaken(Split(d, n), d, block.sum, n, r)
<1> DEFINE sum == block.sum
           F   == SHELL_CODEC_FRAME_LENGTH
           t   == d.tree
           cdf == shell_code_table[Level(n)][sum[n]]
           e   == Read(d, cdf)
           x   == sum[2 * n]
           y   == sum[2 * n + 1]
           u   == [[t EXCEPT ![2 * n] = x] EXCEPT ![2 * n + 1] = y]
           next == [e EXCEPT !.tree = u]
<1>1. F \in Nat /\ F >= 2 /\ n \in 1..F - 1
  BY BlockSize DEF Inner
<1>2. 2 * n \in 1..2 * F - 1 /\ 2 * n + 1 \in 1..2 * F - 1
  BY <1>1
<1>3. /\ sum[n] \in Nat /\ x \in Nat /\ y \in Nat /\ sum[n] = x + y /\ sum[n] <= max_pulses_table[Level(n)]
  <2>1. \A m \in Inner : /\ block.sum[m] \in Nat /\ block.sum[2 * m] \in Nat
                         /\ block.sum[2 * m + 1] \in Nat
                         /\ block.sum[m] = block.sum[2 * m] + block.sum[2 * m + 1]
    BY SumsOfBlock
  <2>2. sum[n] <= max_pulses_table[Level(n)]
    BY SumsOfBlock, Zenon
  <2> QED
    BY <2>1, <2>2, Zenon
<1>4. t \in Seq(Nat) /\ Len(t) = 2 * F - 1 /\ t[n] = sum[n]
      /\ \A m \in 1..2 * F - 1 : t[m] = 0 \/ Knows(t, sum, m)
  BY DEF TreeOf, Knows
<1> HIDE DEF sum, F
<1>5. CASE sum[n] = 0
  <2>1. Split(d, n) = d
    BY <1>4, <1>5 DEF Split
  <2>2. r = d.rc
    <3>1. SplitSymbols(sum, n) = <<>>
      BY <1>5 DEF SplitSymbols
    <3> QED
      BY <3>1, DeliversNothing DEF sum
  <2>3. x = 0 /\ y = 0
    BY <1>3, <1>5
  <2>4. Knows(t, sum, 2 * n) /\ Knows(t, sum, 2 * n + 1)
    BY <1>2, <1>4, <2>3 DEF Knows
  <2> QED
    BY <2>1, <2>2, <2>4 DEF SplitTaken, SameBut, sum
<1>6. CASE sum[n] # 0
  <2>1. IsTable(cdf)
    <3> DEFINE m == sum[n]
               most == max_pulses_table[Level(n)]
    <3>1. Level(n) \in 0..LEVELS - 1 /\ most \in Nat
      BY LevelIs, PulseAssumption
    <3>2. m \in 1..most
      <4>1. m \in Nat /\ m # 0 /\ m <= most
        BY <1>3, <1>6
      <4> HIDE DEF m, most
      <4> QED
        BY <3>1, <4>1
    <3> QED
      BY <3>1, <3>2, PulseTables, Zenon
  <2>2. SplitSymbols(sum, n) = <<Symbol(cdf, x)>>
    BY <1>6 DEF SplitSymbols
  <2> HIDE DEF cdf, x, y
  <2>3. Took(e, d, x, r)
    BY <2>1, <2>2, ReadTakes, Zenon DEF sum
  <2>4. Split(d, n) = Divide(e, n)
    BY <1>4, <1>6 DEF Split, cdf
  <2> HIDE DEF e
  <2>5. e \in Frames /\ e.rc = r /\ e.data = x /\ e.tree = t /\ SameBut(e, d) /\ e.q = d.q
    BY <2>3 DEF Took, SameBut
  <2>6. t[n] - x = y
    BY <1>3, <1>4 DEF x, y
  <2>7. Divide(e, n) = next
    <3>1. Divide(e, n) = [e EXCEPT !.tree[2 * n] = x, !.tree[2 * n + 1] = t[n] - x]
      BY <2>5 DEF Divide
    <3> QED
      BY <2>5, <2>6, <3>1 DEF Frames
  <2> HIDE DEF t
  <2>8. /\ u \in Seq(Nat) /\ Len(u) = Len(t) /\ u[2 * n] = x /\ u[2 * n + 1] = y
        /\ \A m \in 1..2 * F - 1 : m # 2 * n /\ m # 2 * n + 1 => u[m] = t[m]
    <3>1. Divided(u, t, n, x, y)
      BY <1>3, <1>4, TreeDivided, Zenon DEF F, x, y
    <3> HIDE DEF u
    <3> QED
      BY <3>1, Zenon DEF Divided, F
  <2> HIDE DEF u
  <2>9. next \in Frames
    BY <2>5, <2>8, FrameUpdates
  <2>10. /\ next.rc = e.rc /\ Params(next) = Params(e) /\ next.sum = e.sum /\ next.shifts = e.shifts
         /\ next.q = e.q /\ next.tree = u
    BY <2>5 DEF Frames, Params
  <2> HIDE DEF next
  <2>11. SameBut(next, d) /\ next.q = d.q /\ next.rc = r
    BY <2>5, <2>9, <2>10 DEF SameBut
  <2>12. Knows(u, sum, 2 * n) /\ Knows(u, sum, 2 * n + 1)
    BY <2>8 DEF Knows, x, y
  <2>13. \A m \in 1..2 * F - 1 : m = 2 * n \/ m = 2 * n + 1 \/ u[m] = t[m]
    BY <2>8
  <2>14. \A m \in 1..2 * F - 1 : Knows(t, sum, m) => Knows(u, sum, m)
    BY <2>12, <2>13, Zenon DEF Knows
  <2>15. \A m \in 1..2 * F - 1 : u[m] = 0 \/ Knows(u, sum, m)
    BY <1>4, <2>12, <2>13, Zenon DEF Knows
  <2>16. TreeOf(u, sum)
    BY <1>4, <2>8, <2>15, Zenon DEF TreeOf, F
  <2> QED
    BY <2>4, <2>7, <2>10, <2>11, <2>12, <2>14, <2>16, Zenon DEF SplitTaken, sum, F, t
<1> QED
  BY <1>5, <1>6

(* The frames whose tree has the sums of the first nodes that split. *)
TreeUpTo(d, sum, k) ==
  {e \in Frames : /\ SameBut(e, d) /\ e.q = d.q /\ TreeOf(e.tree, sum) /\ Knows(e.tree, sum, 1)
                  /\ \A j \in 1..k : /\ Knows(e.tree, sum, 2 * Preorder[j])
                                     /\ Knows(e.tree, sum, 2 * Preorder[j] + 1)}

(* One node more. *)
LEMMA SplitReads ==
  ASSUME NEW d, NEW q \in Block, NEW R, NEW block, IsScaled(block, q, R),
         NEW i \in 1..Len(Preorder), NEW e
  PROVE  StepReads(e, TreeUpTo(d, block.sum, i - 1), SplitSymbols(block.sum, Preorder[i]),
                   Split(e, Preorder[i]), TreeUpTo(d, block.sum, i))
<1> DEFINE sum == block.sum
           n == Preorder[i]
           u == Split(e, n)
           k == i - 1
           F == SHELL_CODEC_FRAME_LENGTH
<1>1. n \in Inner /\ k \in Nat /\ i \in Nat /\ k + 1 = i /\ Len(Preorder) \in Nat
      /\ \A j \in 1..Len(Preorder) : Preorder[j] \in Inner
  BY PreorderOfInner
<1>2. F \in Nat /\ \A m \in Inner : /\ m \in 1..2 * F - 1 /\ 2 * m \in 1..2 * F - 1
                                    /\ 2 * m + 1 \in 1..2 * F - 1
  BY BlockSize DEF Inner
<1> HIDE DEF k, F
<1> SUFFICES ASSUME e \in TreeUpTo(d, sum, k), NEW r, Delivers(e.rc, SplitSymbols(sum, n), r)
             PROVE  u \in TreeUpTo(d, sum, i) /\ u.rc = r
  BY DEF StepReads, k
<1>3. /\ e \in Frames /\ SameBut(e, d) /\ e.q = d.q /\ TreeOf(e.tree, sum) /\ Knows(e.tree, sum, 1)
      /\ \A j \in 1..k : Knows(e.tree, sum, 2 * Preorder[j]) /\ Knows(e.tree, sum, 2 * Preorder[j] + 1)
  BY DEF TreeUpTo
<1>4. Knows(e.tree, sum, n)
  <2>1. n = 1 \/ IsKid(n, Preorder, k)
    BY PreorderOrders DEF IsOrdered, k
  <2>2. CASE n = 1
    BY <1>3, <2>2
  <2>3. CASE IsKid(n, Preorder, k)
    <3>1. PICK j \in 1..k : n = 2 * Preorder[j] \/ n = 2 * Preorder[j] + 1
      BY <2>3, Zenon DEF IsKid
    <3> HIDE DEF n, sum
    <3> QED
      BY <1>3, <3>1, Zenon
  <2> QED
    BY <2>1, <2>2, <2>3
<1> HIDE DEF n
<1>5. SplitTaken(u, e, sum, n, r)
  BY <1>1, <1>3, <1>4, SplitTakes, Zenon
<1> HIDE DEF u
<1>6. /\ SameBut(u, e) /\ u.q = e.q /\ u.rc = r /\ TreeOf(u.tree, sum)
      /\ Knows(u.tree, sum, 2 * n) /\ Knows(u.tree, sum, 2 * n + 1)
      /\ \A m \in 1..2 * F - 1 : Knows(e.tree, sum, m) => Knows(u.tree, sum, m)
  BY <1>5, Zenon DEF SplitTaken, F
<1>7. SameBut(u, d) /\ u \in Frames /\ u.q = d.q
  BY <1>3, <1>6 DEF SameBut
<1>8. Knows(u.tree, sum, 1)
  <2>1. 1 \in 1..2 * F - 1
    BY <1>2, LevelOfChild
  <2> QED
    BY <1>3, <1>6, <2>1
<1>9. \A j \in 1..i : Knows(u.tree, sum, 2 * Preorder[j]) /\ Knows(u.tree, sum, 2 * Preorder[j] + 1)
  <2> TAKE j \in 1..i
  <2>1. CASE j = i
    BY <1>6, <2>1 DEF n
  <2>2. CASE j # i
    <3>1. j \in 1..k /\ j \in 1..Len(Preorder)
      BY <1>1, <2>2
    <3> DEFINE m == Preorder[j]
    <3>2. m \in Inner /\ Knows(e.tree, sum, 2 * m) /\ Knows(e.tree, sum, 2 * m + 1)
      BY <1>1, <1>3, <3>1
    <3> HIDE DEF m, sum
    <3>3. Knows(u.tree, sum, 2 * m) /\ Knows(u.tree, sum, 2 * m + 1)
      BY <1>2, <1>6, <3>2, Zenon
    <3> QED
      BY <3>3 DEF m
  <2> QED
    BY <2>1, <2>2
<1> HIDE DEF sum
<1> QED
  BY <1>6, <1>7, <1>8, <1>9, Zenon DEF TreeUpTo

(* When all nodes have split, the tree has all sums. *)
LEMMA TreeIsWhole ==
  ASSUME NEW d, NEW sum, NEW e \in TreeUpTo(d, sum, Len(Preorder))
  PROVE  \A m \in 1..2 * SHELL_CODEC_FRAME_LENGTH - 1 : e.tree[m] = sum[m]
<1> DEFINE F == SHELL_CODEC_FRAME_LENGTH
<1>1. F \in Nat /\ Inner = 1..F - 1
  BY BlockSize DEF Inner
<1> HIDE DEF F
<1> SUFFICES ASSUME NEW m \in 1..2 * F - 1 PROVE Knows(e.tree, sum, m)
  BY DEF Knows, F
<1>2. /\ Knows(e.tree, sum, 1)
      /\ \A j \in 1..Len(Preorder) : Knows(e.tree, sum, 2 * Preorder[j]) /\ Knows(e.tree, sum, 2 * Preorder[j] + 1)
  BY DEF TreeUpTo
<1>3. CASE m = 1
  BY <1>2, <1>3
<1>4. CASE m # 1
  <2>1. PICK h \in Inner : m = 2 * h \/ m = 2 * h + 1
    <3>1. m \div 2 \in 1..F - 1 /\ (m = 2 * (m \div 2) \/ m = 2 * (m \div 2) + 1)
      BY <1>1, <1>4
    <3> QED
      BY <1>1, <3>1
  <2>2. PICK j \in 1..Len(Preorder) : Preorder[j] = h
    BY PreorderOrders DEF OccursIn
  <2> QED
    BY <1>2, <2>1, <2>2, Zenon
<1> QED
  BY <1>3, <1>4

(* ReadShell() goes through the nodes. *)
LEMMA ShellAlong ==
  ASSUME NEW d \in Whole, NEW i \in Blocks
  PROVE  \E w : /\ w[0] = Planted(d, i) /\ ReadShell(d, i) = Leaves(w[Len(Preorder)])
                /\ \A k \in 1..Len(Preorder) : w[k] = Split(w[k - 1], Preorder[k])
                /\ w[Len(Preorder)] \in Grown
<1> DEFINE n == Len(Preorder)
           S == Grown
           start == Planted(d, i)
           step == [k \in 1..n |-> [e \in S |-> Split(e, Preorder[k])]]
<1>1. n \in Nat /\ \A k \in 1..n : Preorder[k] \in Inner
  BY PreorderOfInner
<1>2. start \in S
  BY PlantedIs
<1> HIDE DEF n, start
<1>3. \A k \in 1..n : \A e \in S : Split(e, Preorder[k]) \in S
  BY <1>1, SplitIs
<1>4. step \in Steps(n, S)
  BY <1>3 DEF Steps
<1> HIDE DEF step, S
<1>5. PICK w : WalksAlong(w, n, S, start, step)
  BY <1>1, <1>2, <1>4, StepsExist, Zenon
<1>6. (\A k \in 1..n : w[k - 1] \in S) /\ w[n] \in S
  BY <1>1, <1>5, StaysAlong, Zenon
<1>7. w[0] = start /\ \A k \in 1..n : w[k] = Split(w[k - 1], Preorder[k])
  BY <1>5, <1>6, Zenon DEF WalksAlong, step
<1>8. ReadShell(d, i) = Leaves(w[n])
  BY <1>1, <1>7, ReadShellFollows, Zenon DEF n, start
<1> QED
  BY <1>6, <1>7, <1>8, Zenon DEF S, n, start

(* A split has an interval, if there is one. *)
LEMMA SplitSymbolsAre ==
  ASSUME NEW q \in Block, NEW r, NEW block, IsScaled(block, q, r), NEW n \in Inner
  PROVE  SplitSymbols(block.sum, n) \in Seq(Symbols)
<1> DEFINE level == Level(n)
           sum == block.sum[n]
           k == block.sum[2 * n]
           cdf == shell_code_table[level][sum]
<1>1. /\ level \in 0..LEVELS - 1 /\ sum \in Nat /\ k \in Nat /\ block.sum[2 * n + 1] \in Nat
      /\ sum = k + block.sum[2 * n + 1] /\ sum <= max_pulses_table[level] /\ IsSplit(level, sum, k)
  <2>1. level \in 0..LEVELS - 1
    BY LevelIs
  <2>2. \A i \in Inner : /\ block.sum[i] \in Nat /\ block.sum[2 * i] \in Nat
                         /\ block.sum[2 * i + 1] \in Nat
                         /\ block.sum[i] = block.sum[2 * i] + block.sum[2 * i + 1]
    BY SumsOfBlock
  <2>3. sum <= max_pulses_table[level]
    BY SumsOfBlock, Zenon
  <2>4. IsSplit(level, sum, k)
    BY SumsOfBlock, Zenon
  <2> QED
    BY <2>1, <2>2, <2>3, <2>4, Zenon
<1>2. max_pulses_table[level] \in Nat
  BY <1>1, PulseAssumption
<1> HIDE DEF level, sum, k
<1>3. k \in 0..sum
  BY <1>1
<1>4. CASE sum = 0
  BY <1>4 DEF SplitSymbols, sum
<1>5. CASE sum # 0
  <2>1. sum \in 1..max_pulses_table[level]
    BY <1>1, <1>2, <1>5
  <2>2. /\ IsTable(cdf) /\ DOMAIN cdf = 0..sum + 1
        /\ \A i \in 0..sum : cdf[i] < cdf[i + 1] <=> IsSplit(level, sum, i)
    BY <1>1, <2>1, PulseTables, Zenon
  <2>3. cdf[k] < cdf[k + 1]
    BY <1>1, <1>3, <2>2, Zenon
  <2>4. IsSymbol(cdf, k)
    BY <1>1, <1>3, <2>2 DEF IsSymbol
  <2>5. SplitSymbols(block.sum, n) = <<Symbol(cdf, k)>>
    BY <1>5 DEF SplitSymbols, level, sum, k
  <2> HIDE DEF cdf
  <2>6. Symbol(cdf, k) \in Symbols
    BY <2>2, <2>3, <2>4, SymbolOfTable
  <2> QED
    BY <2>5, <2>6
<1> QED
  BY <1>4, <1>5

(* The root of the tree is the sum of the block. *)
LEMMA PlantedStarts ==
  ASSUME NEW d \in Whole, NEW i \in Blocks, NEW q \in Block, NEW R, NEW block, IsScaled(block, q, R),
         d.sum[i] = block.sum[1]
  PROVE  Planted(d, i) \in TreeUpTo(d, block.sum, 0) /\ Planted(d, i).rc = d.rc
<1> DEFINE F == SHELL_CODEC_FRAME_LENGTH
           m == 2 * F - 2
           s == d.sum[i]
           zeros == [n \in 1..m |-> 0]
           tree == <<s>> \o zeros
           e == [d EXCEPT !.tree = tree]
<1>1. F \in Nat /\ F >= 2 /\ m \in Nat /\ m + 1 = 2 * F - 1
  BY BlockSize
<1>2. d \in Frames /\ s = block.sum[1] /\ s \in Nat
  <2>1. block.sum[1] \in 0..MAX_PULSES
    BY SumOfBlock
  <2>2. d \in Frames
    BY DEF Whole, Sized
  <2> QED
    BY <2>1, <2>2, RatesOfPulses
<1> HIDE DEF s, m
<1>3. zeros \in Seq(Nat) /\ Len(zeros) = m /\ \A n \in 1..m : zeros[n] = 0
  BY <1>1
<1> HIDE DEF zeros
<1>4. /\ tree \in Seq(Nat) /\ Len(tree) = m + 1 /\ tree[1] = s
      /\ \A n \in 1..m : tree[n + 1] = zeros[n]
  BY <1>2, <1>3, Prepended
<1> HIDE DEF tree
<1>5. Planted(d, i) = e
  BY Zenon DEF Planted, tree, zeros, s, m
<1>6. e \in Frames
  BY <1>2, <1>4, FrameUpdates
<1>7. SameBut(e, d) /\ e.q = d.q /\ e.rc = d.rc /\ e.tree = tree
  <2>1. e.sum = d.sum /\ e.shifts = d.shifts /\ Params(e) = Params(d) /\ e.q = d.q /\ e.rc = d.rc
        /\ e.tree = tree
    BY <1>2 DEF Frames, Params
  <2> HIDE DEF e
  <2> QED
    BY <1>6, <2>1 DEF SameBut
<1> HIDE DEF e
<1>8. Knows(tree, block.sum, 1)
  BY <1>2, <1>4 DEF Knows
<1>9. \A n \in 1..m + 1 : tree[n] = 0 \/ Knows(tree, block.sum, n)
  <2> TAKE n \in 1..m + 1
  <2>1. CASE n = 1
    BY <1>8, <2>1
  <2>2. CASE n # 1
    <3>1. n - 1 \in 1..m /\ (n - 1) + 1 = n
      BY <1>1, <2>2
    <3> QED
      BY <1>3, <1>4, <3>1, Zenon
  <2> QED
    BY <2>1, <2>2
<1>10. TreeOf(tree, block.sum)
  BY <1>1, <1>4, <1>9 DEF TreeOf
<1> QED
  BY <1>5, <1>6, <1>7, <1>8, <1>10 DEF TreeUpTo

(* The magnitudes of a block have been read. *)
ShellTaken(e, d, h, r) == SameBut(e, d) /\ e.q = Append(d.q, h) /\ e.rc = r

(* The leaves of the tree are what is left of the magnitudes. *)
LEMMA LeavesTaken ==
  ASSUME NEW d \in Whole, NEW q \in Block, NEW R, NEW block, IsScaled(block, q, R),
         NEW e \in TreeUpTo(d, block.sum, Len(Preorder)), NEW r, e.rc = r
  PROVE  ShellTaken(Leaves(e), d, Halved(q, R), r)
<1> DEFINE F == SHELL_CODEC_FRAME_LENGTH
           h == Halved(q, R)
           t == e.tree
           leaves == SubSeq(t, F, Len(t))
           p == Append(e.q, leaves)
           u == [e EXCEPT !.q = p]
<1>1. F \in Nat /\ F >= 2
  BY BlockSize
<1>2. R \in Nat /\ block.sum = Sums(h)
  BY DEF IsScaled
<1>3. h \in [1..F -> Nat]
  BY <1>2, HalvedIs
<1>4. \A k \in 1..F : Sums(h)[F - 1 + k] = h[k]
  <2> HIDE DEF h
  <2> QED
    BY <1>3, SumsAre DEF F
<1> HIDE DEF h
<1>5. e \in Frames /\ SameBut(e, d) /\ e.q = d.q /\ t \in Seq(Nat) /\ Len(t) = 2 * F - 1
      /\ e.q \in Seq(Seq(Int))
  BY FrameParts DEF TreeUpTo, TreeOf
<1>6. \A m \in 1..2 * F - 1 : t[m] = block.sum[m]
  BY TreeIsWhole DEF F
<1> HIDE DEF t, F
<1>7. leaves = h
  <2>1. \A k \in 1..F : k + F - 1 \in 1..2 * F - 1 /\ k + F - 1 = F - 1 + k
    BY <1>1
  <2>2. \A k \in 1..F : t[k + F - 1] = h[k]
    BY <1>2, <1>4, <1>6, <2>1
  <2>3. leaves = [k \in 1..F |-> t[k + F - 1]]
    <3>1. (2 * F - 1) - F + 1 = F
      BY <1>1
    <3> QED
      BY <1>1, <1>5, <3>1
  <2> QED
    BY <1>3, <2>2, <2>3
<1>8. leaves \in Seq(Int)
  BY <1>1, <1>3, <1>7
<1> HIDE DEF leaves
<1>9. p \in Seq(Seq(Int)) /\ p = Append(d.q, h)
  BY <1>5, <1>7, <1>8
<1>10. Leaves(e) = u
  BY Zenon DEF Leaves, leaves, t, F
<1> HIDE DEF p
<1>11. u \in Frames
  BY <1>5, <1>9, FrameUpdates
<1>12. u.q = p /\ u.rc = e.rc /\ Params(u) = Params(e) /\ u.sum = e.sum /\ u.shifts = e.shifts
  BY <1>5 DEF Frames, Params
<1> HIDE DEF u
<1>13. ShellTaken(u, d, h, r)
  BY <1>5, <1>9, <1>11, <1>12 DEF ShellTaken, SameBut
<1> QED
  BY <1>10, <1>13 DEF h

(* The symbols of the splits of a block give it what is left of its magnitudes. *)
LEMMA ReadShellTakes ==
  ASSUME NEW d \in Whole, NEW i \in Blocks, NEW q \in Block, NEW R, NEW block, IsScaled(block, q, R),
         d.sum[i] = block.sum[1], NEW r, Delivers(d.rc, ShellSymbols(block), r)
  PROVE  ShellTaken(ReadShell(d, i), d, Halved(q, R), r)
<1> DEFINE n == Len(Preorder)
           sum == block.sum
           parts == [k \in 1..n |-> SplitSymbols(sum, Preorder[k])]
           G == [k \in 0..n |-> TreeUpTo(d, sum, k)]
<1>1. n \in Nat /\ DOMAIN Preorder = 1..n /\ \A k \in 1..n : Preorder[k] \in Inner
  BY PreorderOfInner
<1>2. PICK w : /\ w[0] = Planted(d, i) /\ ReadShell(d, i) = Leaves(w[n])
               /\ \A k \in 1..n : w[k] = Split(w[k - 1], Preorder[k])
  BY ShellAlong
<1>3. ShellSymbols(block) = Concat(parts)
  BY <1>1, Zenon DEF ShellSymbols
<1> HIDE DEF n
<1>4. \A k \in 1..n : SplitSymbols(sum, Preorder[k]) \in Seq(Symbols)
  BY <1>1, SplitSymbolsAre, Zenon DEF sum
<1>5. parts \in Parts(n, Symbols)
  BY <1>4 DEF Parts
<1>6. \A k \in 1..n : StepReads(w[k - 1], G[k - 1], parts[k], w[k], G[k])
  <2> TAKE k \in 1..n
  <2>1. k - 1 \in 0..n /\ k \in 0..n
    BY <1>1
  <2>2. G[k - 1] = TreeUpTo(d, sum, k - 1) /\ G[k] = TreeUpTo(d, sum, k)
        /\ parts[k] = SplitSymbols(sum, Preorder[k])
    BY <2>1
  <2>3. w[k] = Split(w[k - 1], Preorder[k])
    BY <1>2
  <2> HIDE DEF G, parts
  <2>4. StepReads(w[k - 1], TreeUpTo(d, sum, k - 1), SplitSymbols(sum, Preorder[k]),
                  Split(w[k - 1], Preorder[k]), TreeUpTo(d, sum, k))
    BY <2>1, SplitReads, Zenon DEF n
  <2> QED
    BY <2>2, <2>3, <2>4
<1>7. G[0] = TreeUpTo(d, sum, 0) /\ G[n] = TreeUpTo(d, sum, n)
  <2>1. 0 \in 0..n /\ n \in 0..n
    BY <1>1
  <2> QED
    BY <2>1
<1> HIDE DEF parts, G
<1>8. WalkReads(w, n, G, parts)
  BY <1>6, Zenon DEF WalkReads
<1>9. StepReads(w[0], G[0], Concat(parts), w[n], G[n])
  BY <1>1, <1>5, <1>8, WalkArrives, Zenon
<1>10. Planted(d, i) \in TreeUpTo(d, sum, 0) /\ Planted(d, i).rc = d.rc
  BY PlantedStarts
<1>11. w[n] \in TreeUpTo(d, sum, n) /\ w[n].rc = r
  <2>1. w[0] \in G[0] /\ Delivers(w[0].rc, Concat(parts), r)
    BY <1>2, <1>3, <1>7, <1>10
  <2> QED
    BY <1>7, <1>9, <2>1, Zenon DEF StepReads
<1> HIDE DEF sum
<1>12. ShellTaken(Leaves(w[n]), d, Halved(q, R), r)
  BY <1>11, LeavesTaken, Zenon DEF n, sum
<1> QED
  BY <1>2, <1>12

(* The frames that have the magnitudes of the first n blocks, as far as they
   were not shifted out. *)
ShellsUpTo(d, Q, n) ==
  {e \in Whole : /\ SameBut(e, d) /\ Len(e.q) = n
                 /\ \A j \in 1..n : e.q[j] = Halved(Q[j], Scaled(Q[j]).nRshifts)}

(* The sums of the blocks are those of the encoder. *)
HasSums(d, Q) == \A j \in Blocks : d.shifts[j] = Scaled(Q[j]).nRshifts /\ d.sum[j] = Scaled(Q[j]).sum[1]

(* One block more. *)
LEMMA ShellReads ==
  ASSUME NEW d \in Whole, NEW Q \in Pulses, HasSums(d, Q), NEW i \in Blocks, NEW e
  PROVE  StepReads(e, ShellsUpTo(d, Q, i - 1), ShellSymbols(Scaled(Q[i])), ReadShell(e, i), ShellsUpTo(d, Q, i))
<1> DEFINE n == i - 1
           block == Scaled(Q[i])
           u == ReadShell(e, i)
<1>1. n \in Nat /\ n + 1 = i /\ i \in Nat /\ BLOCKS \in Nat
  BY RatesOfPulses DEF Blocks
<1> HIDE DEF n
<1> SUFFICES ASSUME e \in ShellsUpTo(d, Q, n), NEW r, Delivers(e.rc, ShellSymbols(block), r)
             PROVE  u \in ShellsUpTo(d, Q, i) /\ u.rc = r
  BY DEF StepReads, n
<1>2. /\ e \in Whole /\ SameBut(e, d) /\ Len(e.q) = n
      /\ \A j \in 1..n : e.q[j] = Halved(Q[j], Scaled(Q[j]).nRshifts)
  BY DEF ShellsUpTo
<1>3. Q[i] \in Block /\ \E R \in 0..MAX_SHIFTS : IsScaled(block, Q[i], R)
  BY ScaledWithin
<1>4. PICK R \in 0..MAX_SHIFTS : IsScaled(block, Q[i], R)
  BY <1>3
<1>5. block.nRshifts = R /\ R \in Nat
  BY <1>3, <1>4, SumOfBlock, Zenon
<1>6. e.sum[i] = block.sum[1]
  BY <1>2 DEF SameBut, HasSums
<1> DEFINE h == Halved(Q[i], R)
<1>7. h = Halved(Q[i], Scaled(Q[i]).nRshifts)
  BY <1>5
<1> HIDE DEF block
<1>8. ShellTaken(u, e, h, r)
  BY <1>2, <1>3, <1>4, <1>6, ReadShellTakes, Zenon
<1>9. u \in Whole
  BY <1>2, ReadShellIs
<1>10. h \in Seq(Int)
  <2>1. h \in [1..SHELL_CODEC_FRAME_LENGTH -> Nat]
    BY <1>3, <1>5, HalvedIs
  <2> HIDE DEF h
  <2> QED
    BY <2>1, BlockSize
<1> HIDE DEF h, u
<1>11. SameBut(u, d) /\ u.rc = r /\ u.q = Append(e.q, h)
  BY <1>2, <1>8 DEF ShellTaken, SameBut
<1>12. e.q \in Seq(Seq(Int))
  BY <1>2, WholeUpdates, FrameParts
<1>13. IsAppended(u.q, e.q, h, n, Seq(Int))
  BY <1>1, <1>2, <1>10, <1>11, <1>12, AppendedIs, Zenon
<1>14. Len(u.q) = i
  <2>1. u.q \in Seq(Seq(Int)) /\ DOMAIN u.q = 1..i
    BY <1>1, <1>13 DEF IsAppended
  <2> QED
    BY <1>1, <2>1
<1>15. \A j \in 1..i : u.q[j] = Halved(Q[j], Scaled(Q[j]).nRshifts)
  <2> TAKE j \in 1..i
  <2>1. CASE j = i
    BY <1>1, <1>7, <1>13, <2>1 DEF IsAppended
  <2>2. CASE j # i
    <3>1. j \in 1..n /\ j \in 1..n + 1 /\ j # n + 1
      BY <1>1, <2>2
    <3>2. u.q[j] = e.q[j]
      BY <1>13, <3>1 DEF IsAppended
    <3> QED
      BY <1>2, <3>1, <3>2
  <2> QED
    BY <2>1, <2>2
<1> QED
  BY <1>9, <1>11, <1>14, <1>15 DEF ShellsUpTo

(* ReadShells() goes through the blocks. *)
LEMMA ShellsAlong ==
  ASSUME NEW d \in Whole
  PROVE  \E w : /\ w[0] = d /\ w[BLOCKS] = ReadShells(d)
                /\ \A i \in 1..BLOCKS : w[i] = ReadShell(w[i - 1], i)
<1> DEFINE S == Whole
           n == BLOCKS
           step == [i \in 1..n |-> [e \in S |-> ReadShell(e, i)]]
<1>1. n \in Nat /\ Len(InBlocks) = n /\ \A i \in 1..n : InBlocks[i] = i
  BY RatesOfPulses DEF InBlocks, Blocks
<1>2. \A i \in 1..n : \A e \in S : ReadShell(e, i) \in S
  BY ReadShellIs DEF Blocks
<1> HIDE DEF n
<1>3. step \in Steps(n, S)
  BY <1>2 DEF Steps
<1> HIDE DEF step, S
<1>4. PICK w : WalksAlong(w, n, S, d, step)
  BY <1>1, <1>3, StepsExist, Zenon DEF S
<1>5. (\A i \in 1..n : w[i - 1] \in S) /\ w[n] \in S
  BY <1>1, <1>4, StaysAlong, Zenon
<1>6. w[0] = d /\ \A i \in 1..n : w[i] = ReadShell(w[i - 1], i)
  BY <1>4, <1>5, Zenon DEF WalksAlong, step
<1>7. ReadShells(d) = w[n]
  BY <1>1, <1>6, ReadShellsFollow, Zenon
<1> QED
  BY <1>6, <1>7, Zenon DEF n

(* The symbols of the splits, of all blocks. *)
AllShells(Q) == Concat([i \in Blocks |-> ShellSymbols(Scaled(Q[i]))])

(* They give every block its magnitudes. *)
LEMMA ReadShellsTake ==
  ASSUME NEW d \in Whole, NEW Q \in Pulses, HasSums(d, Q)
  PROVE  /\ AllShells(Q) \in Seq(Symbols)
         /\ StepReads(d, ShellsUpTo(d, Q, 0), AllShells(Q), ReadShells(d), ShellsUpTo(d, Q, BLOCKS))
<1> DEFINE parts == [i \in Blocks |-> ShellSymbols(Scaled(Q[i]))]
           G == [i \in 0..BLOCKS |-> ShellsUpTo(d, Q, i)]
<1>1. BLOCKS \in Nat /\ Blocks = 1..BLOCKS
  BY RatesOfPulses DEF Blocks
<1>2. PICK w : /\ w[0] = d /\ w[BLOCKS] = ReadShells(d)
               /\ \A i \in 1..BLOCKS : w[i] = ReadShell(w[i - 1], i)
  BY ShellsAlong, Zenon
<1>3. \A i \in Blocks : ShellSymbols(Scaled(Q[i])) \in Seq(Symbols)
  <2> TAKE i \in Blocks
  <2>1. Q[i] \in Block /\ \E R \in 0..MAX_SHIFTS : IsScaled(Scaled(Q[i]), Q[i], R)
    BY ScaledWithin
  <2> QED
    BY <2>1, ShellSymbolsAre, Zenon
<1>4. parts \in Parts(BLOCKS, Symbols)
  BY <1>1, <1>3 DEF Parts
<1>5. \A i \in 1..BLOCKS : StepReads(w[i - 1], G[i - 1], parts[i], w[i], G[i])
  <2> TAKE i \in 1..BLOCKS
  <2>1. i \in Blocks /\ i - 1 \in 0..BLOCKS /\ i \in 0..BLOCKS
    BY <1>1
  <2>2. G[i - 1] = ShellsUpTo(d, Q, i - 1) /\ G[i] = ShellsUpTo(d, Q, i)
        /\ parts[i] = ShellSymbols(Scaled(Q[i]))
    BY <2>1
  <2>3. w[i] = ReadShell(w[i - 1], i)
    BY <1>2
  <2> HIDE DEF G, parts
  <2>4. StepReads(w[i - 1], ShellsUpTo(d, Q, i - 1), ShellSymbols(Scaled(Q[i])),
                  ReadShell(w[i - 1], i), ShellsUpTo(d, Q, i))
    BY <2>1, ShellReads, Zenon
  <2> QED
    BY <2>2, <2>3, <2>4
<1>6. G[0] = ShellsUpTo(d, Q, 0) /\ G[BLOCKS] = ShellsUpTo(d, Q, BLOCKS)
  <2>1. 0 \in 0..BLOCKS /\ BLOCKS \in 0..BLOCKS
    BY <1>1
  <2> QED
    BY <2>1
<1>7. AllShells(Q) = Concat(parts)
  BY DEF AllShells
<1> HIDE DEF parts, G
<1>8. Concat(parts) \in Seq(Symbols)
  BY <1>1, <1>4, ConcatType, Zenon
<1>9. WalkReads(w, BLOCKS, G, parts)
  BY <1>5, Zenon DEF WalkReads
<1>10. StepReads(w[0], G[0], Concat(parts), w[BLOCKS], G[BLOCKS])
  BY <1>1, <1>4, <1>9, WalkArrives, Zenon
<1> QED
  BY <1>2, <1>6, <1>7, <1>8, <1>10

-----------------------------------------------------------------------------
(* The bits and the signs go to one pulse after the other.  The pulses of a
   frame, block by block. *)
Grids == [Blocks -> Block]

PutAt(m, i, k, v) == [m EXCEPT ![i][k] = v]

(* The pulses up to k of block i are new. *)
Mixed(old, new, i, k) ==
  [a \in Blocks |-> [c \in 1..SHELL_CODEC_FRAME_LENGTH |->
    IF a < i \/ (a = i /\ c <= k) THEN new[a][c] ELSE old[a][c]]]

(* The frames with these pulses. *)
Having(d, m) == {e \in Frames : SameBut(e, d) /\ e.q = m}

(* The pulses are sequences of numbers. *)
LEMMA GridsAreSequences ==
  ASSUME NEW m \in Grids
  PROVE  m \in Seq(Seq(Int))
<1> DEFINE F == SHELL_CODEC_FRAME_LENGTH
           S == Seq(Int)
<1>1. F \in Nat /\ BLOCKS \in Nat /\ Blocks = 1..BLOCKS
  BY BlockSize, RatesOfPulses DEF Blocks
<1>2. \A s \in Block : s \in S
  <2> HIDE DEF F
  <2>1. Block = [1..F -> Int]
    BY Zenon DEF Block, F
  <2> QED
    BY <1>1, <2>1
<1> HIDE DEF S, F
<1>3. m \in [1..BLOCKS -> S]
  BY <1>1, <1>2 DEF Grids
<1>4. m \in Seq(S)
  BY <1>1, <1>3
<1> QED
  BY <1>4 DEF S

(* A pulse that is replaced. *)
LEMMA PutAtIs ==
  ASSUME NEW m \in Grids, NEW i \in Blocks, NEW k \in 1..SHELL_CODEC_FRAME_LENGTH, NEW v \in Int
  PROVE  /\ PutAt(m, i, k, v) \in Grids /\ PutAt(m, i, k, v)[i][k] = v /\ m[i][k] \in Int
         /\ PutAt(m, i, k, m[i][k]) = m
         /\ \A u \in Int : PutAt(PutAt(m, i, k, v), i, k, u) = PutAt(m, i, k, u)
<1> DEFINE F == SHELL_CODEC_FRAME_LENGTH
           X == Blocks
<1>1. m \in [X -> [1..F -> Int]] /\ Grids = [X -> [1..F -> Int]]
  BY Zenon DEF Grids, Block
<1> HIDE DEF F, X
<1> DEFINE K == 1..F
<1>2. m \in [X -> [K -> Int]] /\ Grids = [X -> [K -> Int]] /\ i \in X /\ k \in K
  BY <1>1 DEF X, F
<1> HIDE DEF K
<1>3. /\ PutAt(m, i, k, v) \in [X -> [K -> Int]] /\ PutAt(m, i, k, v)[i][k] = v /\ m[i][k] \in Int
  BY <1>2 DEF PutAt
<1>4. PutAt(m, i, k, m[i][k]) = m
  BY <1>2 DEF PutAt
<1>5. \A u \in Int : PutAt(PutAt(m, i, k, v), i, k, u) = PutAt(m, i, k, u)
  BY <1>2 DEF PutAt
<1> QED
  BY <1>2, <1>3, <1>4, <1>5

(* From one pulse to the next. *)
LEMMA MixedNext ==
  ASSUME NEW old \in Grids, NEW new \in Grids, NEW i \in Blocks, NEW k \in 1..SHELL_CODEC_FRAME_LENGTH
  PROVE  /\ Mixed(old, new, i, k - 1) \in Grids /\ Mixed(old, new, i, k - 1)[i][k] = old[i][k]
         /\ Mixed(old, new, i, k) = PutAt(Mixed(old, new, i, k - 1), i, k, new[i][k])
<1> DEFINE F == SHELL_CODEC_FRAME_LENGTH
           m == Mixed(old, new, i, k - 1)
           u == Mixed(old, new, i, k)
<1>1. F \in Nat /\ BLOCKS \in Nat /\ Blocks = 1..BLOCKS
  BY BlockSize, RatesOfPulses DEF Blocks
<1>2. \A a \in Blocks, c \in 1..F : old[a][c] \in Int /\ new[a][c] \in Int
  <2> TAKE a \in Blocks, c \in 1..F
  <2>1. old[a] \in Block /\ new[a] \in Block
    BY DEF Grids
  <2> QED
    BY <2>1 DEF Block
<1>3. /\ m \in Grids
      /\ \A a \in Blocks, c \in 1..F :
           m[a][c] = IF a < i \/ (a = i /\ c <= k - 1) THEN new[a][c] ELSE old[a][c]
  <2> DEFINE at(a, c) == IF a < i \/ (a = i /\ c <= k - 1) THEN new[a][c] ELSE old[a][c]
  <2>1. \A a \in Blocks, c \in 1..F : at(a, c) \in Int
    BY <1>2
  <2>2. m = [a \in Blocks |-> [c \in 1..F |-> at(a, c)]]
    BY Zenon DEF Mixed
  <2> HIDE DEF at, m, F
  <2>3. m \in [Blocks -> [1..F -> Int]] /\ \A a \in Blocks, c \in 1..F : m[a][c] = at(a, c)
    BY <2>1, <2>2
  <2> QED
    BY <2>3, Zenon DEF Grids, Block, F, at
<1> HIDE DEF m
<1>4. m[i][k] = old[i][k]
  BY <1>1, <1>3
<1>5. u = PutAt(m, i, k, new[i][k])
  <2> DEFINE p == PutAt(m, i, k, new[i][k])
  <2>1. /\ p \in Grids
        /\ \A a \in Blocks, c \in 1..F : p[a][c] = IF a = i /\ c = k THEN new[i][k] ELSE m[a][c]
    <3> DEFINE X == Blocks
               v == new[i][k]
               K == 1..F
    <3>1. m \in [X -> [K -> Int]] /\ Grids = [X -> [K -> Int]] /\ i \in X /\ k \in K /\ v \in Int
      BY <1>2, <1>3 DEF Grids, Block
    <3> HIDE DEF X, v, K
    <3>2. PutAt(m, i, k, v) \in [X -> [K -> Int]]
          /\ \A a \in X, c \in K : PutAt(m, i, k, v)[a][c] = IF a = i /\ c = k THEN v ELSE m[a][c]
      BY <3>1 DEF PutAt
    <3> QED
      BY <3>1, <3>2 DEF X, v, K
  <2> HIDE DEF p
  <2>2. \A a \in Blocks, c \in 1..F : p[a][c] = IF a < i \/ (a = i /\ c <= k) THEN new[a][c] ELSE old[a][c]
    <3> TAKE a \in Blocks, c \in 1..F
    <3>1. a \in Int /\ i \in Int /\ c \in Int /\ k \in Int
      BY <1>1
    <3>2. p[a][c] = IF a = i /\ c = k THEN new[i][k] ELSE m[a][c]
      BY <2>1
    <3>3. m[a][c] = IF a < i \/ (a = i /\ c <= k - 1) THEN new[a][c] ELSE old[a][c]
      BY <1>3
    <3> QED
      BY <3>1, <3>2, <3>3
  <2>3. p = [a \in Blocks |-> [c \in 1..F |-> p[a][c]]]
    <3>1. p \in [Blocks -> [1..F -> Int]]
      BY <2>1 DEF Grids, Block
    <3> HIDE DEF F
    <3> QED
      BY <3>1
  <2>4. p = u
    <3> DEFINE at(a, c) == IF a < i \/ (a = i /\ c <= k) THEN new[a][c] ELSE old[a][c]
    <3>1. u = [a \in Blocks |-> [c \in 1..F |-> at(a, c)]]
      BY Zenon DEF Mixed
    <3>2. \A a \in Blocks, c \in 1..F : p[a][c] = at(a, c)
      BY <2>2
    <3> HIDE DEF at, u, F
    <3>3. \A a \in Blocks : [c \in 1..F |-> p[a][c]] = [c \in 1..F |-> at(a, c)]
      BY <3>2
    <3> QED
      BY <2>3, <3>1, <3>3
  <2> QED
    BY <2>4 DEF p
<1> QED
  BY <1>3, <1>4, <1>5 DEF m

(* From one block to the next. *)
LEMMA MixedEnds ==
  ASSUME NEW old \in Grids, NEW new \in Grids
  PROVE  /\ \A i \in Blocks : Mixed(old, new, i - 1, SHELL_CODEC_FRAME_LENGTH) = Mixed(old, new, i, 0)
         /\ Mixed(old, new, 0, SHELL_CODEC_FRAME_LENGTH) = old
         /\ Mixed(old, new, BLOCKS, SHELL_CODEC_FRAME_LENGTH) = new
<1> DEFINE F == SHELL_CODEC_FRAME_LENGTH
           at(i, k, a, c) == IF a < i \/ (a = i /\ c <= k) THEN new[a][c] ELSE old[a][c]
           of(g) == [a \in Blocks |-> [c \in 1..F |-> g[a][c]]]
<1>1. F \in Nat /\ BLOCKS \in Nat /\ Blocks = 1..BLOCKS
  BY BlockSize, RatesOfPulses DEF Blocks
<1>2. \A i, k : Mixed(old, new, i, k) = [a \in Blocks |-> [c \in 1..F |-> at(i, k, a, c)]]
  BY Zenon DEF Mixed
<1>3. old = of(old) /\ new = of(new)
  <2>1. old \in [Blocks -> [1..F -> Int]] /\ new \in [Blocks -> [1..F -> Int]]
    BY DEF Grids, Block
  <2> HIDE DEF F
  <2> QED
    BY <2>1
<1>4. ASSUME NEW i \in Blocks PROVE Mixed(old, new, i - 1, F) = Mixed(old, new, i, 0)
  <2>1. \A a \in Blocks, c \in 1..F : at(i - 1, F, a, c) = at(i, 0, a, c)
    <3> TAKE a \in Blocks, c \in 1..F
    <3>1. a \in Int /\ i \in Int /\ c \in Nat /\ 1 <= c /\ c <= F
      BY <1>1
    <3>2. (a < i - 1 \/ (a = i - 1 /\ c <= F)) <=> (a < i \/ (a = i /\ c <= 0))
      BY <3>1
    <3> QED
      BY <3>2
  <2> HIDE DEF at, F
  <2>2. \A a \in Blocks : [c \in 1..F |-> at(i - 1, F, a, c)] = [c \in 1..F |-> at(i, 0, a, c)]
    BY <2>1
  <2> DEFINE j == i - 1
             g(a) == [c \in 1..F |-> at(j, F, a, c)]
             h(a) == [c \in 1..F |-> at(i, 0, a, c)]
  <2>3. Mixed(old, new, j, F) = [a \in Blocks |-> g(a)] /\ Mixed(old, new, i, 0) = [a \in Blocks |-> h(a)]
    BY Zenon DEF Mixed, at, F
  <2>4. \A a \in Blocks : g(a) = h(a)
    BY <2>2
  <2> HIDE DEF g, h
  <2>5. [a \in Blocks |-> g(a)] = [a \in Blocks |-> h(a)]
    BY <2>4
  <2> QED
    BY <2>3, <2>5
<1>5. Mixed(old, new, 0, F) = old
  <2>1. \A a \in Blocks, c \in 1..F : at(0, F, a, c) = old[a][c]
    BY <1>1
  <2> HIDE DEF at, F
  <2>2. \A a \in Blocks : [c \in 1..F |-> at(0, F, a, c)] = [c \in 1..F |-> old[a][c]]
    BY <2>1
  <2> QED
    BY <1>2, <1>3, <2>2
<1>6. Mixed(old, new, BLOCKS, F) = new
  <2>1. \A a \in Blocks, c \in 1..F : at(BLOCKS, F, a, c) = new[a][c]
    BY <1>1
  <2> HIDE DEF at, F
  <2>2. \A a \in Blocks : [c \in 1..F |-> at(BLOCKS, F, a, c)] = [c \in 1..F |-> new[a][c]]
    BY <2>1
  <2> QED
    BY <1>2, <1>3, <2>2
<1> QED
  BY <1>4, <1>5, <1>6

(* What is read at one pulse. *)
PulseReads(f, d, old, new, part, times, i, k) ==
  RunReads(f, Having(d, Mixed(old, new, i, k - 1)), part, [j \in 1..times |-> <<i, k>>],
           Having(d, Mixed(old, new, i, k)))

(* The places in one block. *)
PlacesIn(i, times) == Concat([k \in 1..SHELL_CODEC_FRAME_LENGTH |-> [j \in 1..times |-> <<i, k>>]])

(* What is read at the pulses of a block. *)
BlockReads(f, d, old, new, parts, times, i) ==
  RunReads(f, Having(d, Mixed(old, new, i - 1, SHELL_CODEC_FRAME_LENGTH)), Concat(parts), PlacesIn(i, times),
           Having(d, Mixed(old, new, i, SHELL_CODEC_FRAME_LENGTH)))

(* If each pulse of a block is read as it was sent, the block is. *)
LEMMA BlockArrives ==
  ASSUME NEW f, NEW d, NEW old \in Grids, NEW new \in Grids, NEW i \in Blocks, NEW times \in Nat,
         NEW parts \in Parts(SHELL_CODEC_FRAME_LENGTH, Symbols),
         \A k \in 1..SHELL_CODEC_FRAME_LENGTH : PulseReads(f, d, old, new, parts[k], times, i, k)
  PROVE  BlockReads(f, d, old, new, parts, times, i)
<1> DEFINE F == SHELL_CODEC_FRAME_LENGTH
           G == [k \in 0..F |-> Having(d, Mixed(old, new, i, k))]
           places == [k \in 1..F |-> [j \in 1..times |-> <<i, k>>]]
<1>1. F \in Nat
  BY BlockSize
<1>2. \A k \in 1..F : RunReads(f, G[k - 1], parts[k], places[k], G[k])
  <2> TAKE k \in 1..F
  <2>1. PulseReads(f, d, old, new, parts[k], times, i, k)
    OBVIOUS
  <2> DEFINE l == k - 1
             from == Having(d, Mixed(old, new, i, l))
             to   == Having(d, Mixed(old, new, i, k))
             bits == [j \in 1..times |-> <<i, k>>]
  <2>2. RunReads(f, from, parts[k], bits, to)
    BY <2>1, Zenon DEF PulseReads
  <2>3. l \in 0..F /\ k \in 0..F
    BY <1>1
  <2> HIDE DEF l
  <2>4. G[l] = from /\ G[k] = to /\ places[k] = bits
    BY <2>3, Zenon
  <2> HIDE DEF from, to, bits, G, places
  <2>5. RunReads(f, G[l], parts[k], places[k], G[k])
    BY <2>2, <2>4
  <2> QED
    BY <2>5 DEF l
<1>3. G[0] = Having(d, Mixed(old, new, i, 0)) /\ G[F] = Having(d, Mixed(old, new, i, F))
  <2>1. 0 \in 0..F /\ F \in 0..F
    BY <1>1
  <2> QED
    BY <2>1, Zenon
<1>4. places \in Parts(F, Places)
  <2>1. \A k \in 1..F : [j \in 1..times |-> <<i, k>>] \in Seq(Places)
    <3> TAKE k \in 1..F
    <3>1. <<i, k>> \in Places
      BY DEF Places
    <3> HIDE DEF F
    <3> QED
      BY <3>1
  <2> DEFINE at(k) == [j \in 1..times |-> <<i, k>>]
  <2>2. places = [k \in 1..F |-> at(k)]
    OBVIOUS
  <2> HIDE DEF at, places
  <2>3. \A k \in 1..F : at(k) \in Seq(Places)
    BY <2>1 DEF at
  <2> QED
    BY <2>2, <2>3 DEF Parts
<1>5. Concat(places) = PlacesIn(i, times)
  BY Zenon DEF PlacesIn
<1> HIDE DEF G, places, F
<1>6. RunReads(f, G[0], Concat(parts), Concat(places), G[F])
  BY <1>1, <1>2, <1>4, RunArrives, Zenon DEF F
<1>7. Mixed(old, new, i - 1, F) = Mixed(old, new, i, 0)
  BY MixedEnds DEF F
<1>8. RunReads(f, Having(d, Mixed(old, new, i, 0)), Concat(parts), PlacesIn(i, times), Having(d, Mixed(old, new, i, F)))
  BY <1>3, <1>5, <1>6
<1>9. RunReads(f, Having(d, Mixed(old, new, i - 1, F)), Concat(parts), PlacesIn(i, times), Having(d, Mixed(old, new, i, F)))
  BY <1>7, <1>8
<1> QED
  BY <1>9, Zenon DEF BlockReads, F

(* What is read at the pulses of all blocks. *)
LEMMA GridArrives ==
  ASSUME NEW f, NEW d, NEW old \in Grids, NEW new \in Grids, NEW times, \A i \in Blocks : times[i] \in Nat,
         NEW parts, \A i \in Blocks : parts[i] \in Parts(SHELL_CODEC_FRAME_LENGTH, Symbols),
         \A i \in Blocks : \A k \in 1..SHELL_CODEC_FRAME_LENGTH :
           PulseReads(f, d, old, new, parts[i][k], times[i], i, k)
  PROVE  RunReads(f, Having(d, old), Concat([i \in Blocks |-> Concat(parts[i])]), Positions(times),
                  Having(d, new))
<1> DEFINE F == SHELL_CODEC_FRAME_LENGTH
           G == [i \in 0..BLOCKS |-> Having(d, Mixed(old, new, i, F))]
           places == [i \in Blocks |-> PlacesIn(i, times[i])]
           all == [i \in Blocks |-> Concat(parts[i])]
<1>1. F \in Nat /\ BLOCKS \in Nat /\ Blocks = 1..BLOCKS
  BY BlockSize, RatesOfPulses DEF Blocks
<1>2. \A i \in Blocks : BlockReads(f, d, old, new, parts[i], times[i], i)
  BY BlockArrives
<1>3. \A i \in 1..BLOCKS : RunReads(f, G[i - 1], all[i], places[i], G[i])
  <2> TAKE i \in 1..BLOCKS
  <2> DEFINE l == i - 1
             from == Having(d, Mixed(old, new, l, F))
             to   == Having(d, Mixed(old, new, i, F))
  <2>1. RunReads(f, from, Concat(parts[i]), PlacesIn(i, times[i]), to)
    BY <1>1, <1>2, Zenon DEF BlockReads
  <2>2. l \in 0..BLOCKS /\ i \in 0..BLOCKS /\ i \in Blocks
    BY <1>1
  <2> HIDE DEF l
  <2>3. G[l] = from /\ G[i] = to /\ places[i] = PlacesIn(i, times[i]) /\ all[i] = Concat(parts[i])
    BY <2>2, Zenon
  <2> HIDE DEF from, to, G, places, all
  <2>4. RunReads(f, G[l], all[i], places[i], G[i])
    BY <2>1, <2>3
  <2> QED
    BY <2>4 DEF l
<1>4. G[0] = Having(d, Mixed(old, new, 0, F)) /\ G[BLOCKS] = Having(d, Mixed(old, new, BLOCKS, F))
  <2>1. 0 \in 0..BLOCKS /\ BLOCKS \in 0..BLOCKS
    BY <1>1
  <2> QED
    BY <2>1, Zenon
<1>5. \A i \in Blocks : PlacesIn(i, times[i]) \in Seq(Places) /\ Concat(parts[i]) \in Seq(Symbols)
  <2> TAKE i \in Blocks
  <2>1. Concat(parts[i]) \in Seq(Symbols)
    BY <1>1, ConcatType, Zenon
  <2> DEFINE bits(k) == [j \in 1..times[i] |-> <<i, k>>]
             p == [k \in 1..F |-> bits(k)]
  <2>2. \A k \in 1..F : bits(k) \in Seq(Places)
    BY PositionsAre
  <2>3. PlacesIn(i, times[i]) = Concat(p)
    BY Zenon DEF PlacesIn
  <2> HIDE DEF bits, F
  <2>4. p \in Parts(F, Places)
    BY <2>2 DEF Parts
  <2> HIDE DEF p
  <2>5. Concat(p) \in Seq(Places)
    BY <1>1, <2>4, ConcatType, Zenon
  <2> QED
    BY <2>1, <2>3, <2>5
<1>6. places \in Parts(BLOCKS, Places) /\ all \in Parts(BLOCKS, Symbols)
  BY <1>1, <1>5 DEF Parts
<1>7. Positions(times) = Concat(places)
  BY Zenon DEF Positions, PlacesIn
<1> HIDE DEF G, places, all
<1>8. RunReads(f, G[0], Concat(all), Concat(places), G[BLOCKS])
  BY <1>1, <1>3, <1>6, RunArrives, Zenon
<1>9. Mixed(old, new, 0, F) = old /\ Mixed(old, new, BLOCKS, F) = new
  BY MixedEnds
<1>10. RunReads(f, Having(d, old), Concat(all), Positions(times), Having(d, new))
  BY <1>4, <1>7, <1>8, <1>9
<1> QED
  BY <1>10 DEF all

(* One symbol that is read at one place. *)
SymbolReads(f, from, s, at, to) == \A e : StepReads(e, from, <<s>>, f[at][e], to)

(* A symbol at each of the places. *)
LEMMA RunBySymbols ==
  ASSUME NEW f, NEW G, NEW n \in Nat, NEW part, Len(part) = n, NEW places, Len(places) = n,
         \A j \in 1..n : SymbolReads(f, G[j - 1], part[j], places[j], G[j])
  PROVE  RunReads(f, G[0], part, places, G[n])
<1> SUFFICES ASSUME NEW d, NEW e, Runs(f, d, places, e), d \in G[0], NEW r, Delivers(d.rc, part, r)
             PROVE  e \in G[n] /\ e.rc = r
  BY Zenon DEF RunReads, StepReads
<1>1. PICK w : w[0] = d /\ w[n] = e /\ \A i \in 1..n : w[i] = f[places[i]][w[i - 1]]
  BY Zenon DEF Runs
<1>2. PICK v : /\ v[0] = d.rc /\ v[n] = r
               /\ \A i \in 1..n : LET c == RangeDecode(v[i - 1], part[i].cdf)
                                  IN c.rc = v[i] /\ c.data = part[i].data
  BY Zenon DEF Delivers
<1> DEFINE N == {i \in 0..n : w[i] \in G[i] /\ w[i].rc = v[i]}
<1>3. 0 \in N
  BY <1>1, <1>2
<1>4. \A i \in 0..n - 1 : i \in N => i + 1 \in N
  <2> SUFFICES ASSUME NEW i \in 0..n - 1, i \in N PROVE i + 1 \in N
    OBVIOUS
  <2> DEFINE k == i + 1
  <2>1. k \in 1..n /\ k \in 0..n /\ k - 1 = i
    OBVIOUS
  <2> HIDE DEF k
  <2>2. w[k - 1] \in G[k - 1] /\ w[k - 1].rc = v[k - 1]
    BY <2>1
  <2>3. RangeDecode(v[k - 1], part[k].cdf).rc = v[k] /\ RangeDecode(v[k - 1], part[k].cdf).data = part[k].data
    BY <1>2, <2>1, Zenon
  <2>4. Delivers(w[k - 1].rc, <<part[k]>>, v[k])
    <3>1. Delivers(v[k - 1], <<part[k]>>, v[k])
      BY <2>3, OneIsDelivered
    <3> QED
      BY <2>2, <3>1
  <2>5. SymbolReads(f, G[k - 1], part[k], places[k], G[k])
    BY <2>1, Zenon
  <2>6. f[places[k]][w[k - 1]] \in G[k] /\ f[places[k]][w[k - 1]].rc = v[k]
    <3> DEFINE c == w[k - 1]
               from == G[k - 1]
               to == G[k]
               s == part[k]
               at == places[k]
    <3>1. c \in from /\ Delivers(c.rc, <<s>>, v[k]) /\ SymbolReads(f, from, s, at, to)
      BY <2>2, <2>4, <2>5
    <3> HIDE DEF c, from, to, s, at
    <3>2. StepReads(c, from, <<s>>, f[at][c], to)
      BY <3>1, Zenon DEF SymbolReads
    <3>3. f[at][c] \in to /\ f[at][c].rc = v[k]
      BY <3>1, <3>2, Zenon DEF StepReads
    <3> QED
      BY <3>3, Zenon DEF c, to, at
  <2>7. w[k] = f[places[k]][w[k - 1]]
    BY <1>1, <2>1, Zenon
  <2> QED
    BY <2>1, <2>6, <2>7 DEF k
<1> HIDE DEF N
<1>5. 0..n \subseteq N
  BY <1>3, <1>4, InductionUpTo, Zenon
<1> QED
  BY <1>1, <1>2, <1>5 DEF N

(* What has been divided twice. *)
LEMMA DividedTwice ==
  ASSUME NEW a \in Nat, NEW d \in Nat, d > 0
  PROVE  /\ a \div d \in Nat /\ (a \div d) % 2 \in 0..1
         /\ a \div d = 2 * (a \div (2 * d)) + ((a \div d) % 2)
<1> DEFINE y == a \div d
           t == a % d
           z == y \div 2
           u == y % 2
<1>1. y \in Nat /\ t \in Nat /\ t < d /\ a = y * d + t
  BY Division
<1> HIDE DEF y, t
<1>2. z \in Nat /\ u \in Nat /\ u < 2 /\ y = z * 2 + u
  BY <1>1, Division
<1> HIDE DEF z, u
<1>3. a \div (2 * d) = z
  <2> DEFINE e == 2 * d
             s == u * d + t
  <2>1. e \in Nat /\ e > 0
    OBVIOUS
  <2>2. s \in Nat /\ s < e
    <3>1. u = 0 \/ u = 1
      BY <1>2
    <3>2. CASE u = 0
      BY <1>1, <3>2
    <3>3. CASE u = 1
      BY <1>1, <3>3
    <3> QED
      BY <3>1, <3>2, <3>3
  <2>3. a = z * e + s
    BY <1>1, <1>2
  <2> HIDE DEF e, s
  <2>4. a \div e = z
    BY <1>2, <2>1, <2>2, <2>3, DivisionIsUnique
  <2> QED
    BY <2>4 DEF e
<1>4. y = 2 * z + u /\ u \in 0..1
  BY <1>2
<1> QED
  BY <1>1, <1>3, <1>4 DEF y, u

(* One pulse of a frame is replaced. *)
LEMMA PulseIsPut ==
  ASSUME NEW d, NEW m \in Grids, NEW e \in Having(d, m), NEW i \in Blocks,
         NEW k \in 1..SHELL_CODEC_FRAME_LENGTH, NEW v \in Int
  PROVE  /\ PutPulse(e, <<i, k>>, v) \in Having(d, PutAt(m, i, k, v))
         /\ PutPulse(e, <<i, k>>, v).rc = e.rc
<1> DEFINE p == PutAt(m, i, k, v)
           u == [e EXCEPT !.q = p]
<1>1. e \in Frames /\ SameBut(e, d) /\ e.q = m
  BY DEF Having
<1>2. p \in Seq(Seq(Int))
  BY PutAtIs, GridsAreSequences
<1>3. PutPulse(e, <<i, k>>, v) = u
  BY <1>1 DEF PutPulse, PutAt
<1> HIDE DEF p
<1>4. u \in Frames
  BY <1>1, <1>2, FrameUpdates
<1>5. u.q = p /\ u.rc = e.rc /\ Params(u) = Params(e) /\ u.sum = e.sum /\ u.shifts = e.shifts
  BY <1>1 DEF Frames, Params
<1> HIDE DEF u
<1>6. SameBut(u, d)
  BY <1>1, <1>4, <1>5 DEF SameBut
<1> QED
  BY <1>3, <1>4, <1>5, <1>6 DEF Having, p

(* What is done at the places of the lower bits. *)
Lsbs == [at \in Places |-> [e \in Frames |-> ReadLsb(e, at)]]

(* A bit goes to its pulse. *)
LEMMA LsbTakes ==
  ASSUME NEW d, NEW m \in Grids, NEW i \in Blocks, NEW k \in 1..SHELL_CODEC_FRAME_LENGTH,
         NEW v \in Int, m[i][k] = v, NEW bit \in 0..1
  PROVE  SymbolReads(Lsbs, Having(d, m), Symbol(lsb_CDF, bit), <<i, k>>,
                     Having(d, PutAt(m, i, k, 2 * v + bit)))
<1> DEFINE at == <<i, k>>
           u == 2 * v + bit
<1> SUFFICES ASSUME NEW e \in Having(d, m), NEW r, Delivers(e.rc, <<Symbol(lsb_CDF, bit)>>, r)
             PROVE  Lsbs[at][e] \in Having(d, PutAt(m, i, k, u)) /\ Lsbs[at][e].rc = r
  BY Zenon DEF SymbolReads, StepReads
<1> DEFINE c == Read(e, lsb_CDF)
<1>1. e \in Frames /\ SameBut(e, d) /\ e.q = m
  BY DEF Having
<1>2. Took(c, e, bit, r)
  <2>1. IsTable(lsb_CDF)
    BY PulseTables DEF IsFullTable
  <2> QED
    BY <1>1, <2>1, ReadTakes
<1>3. Lsbs[at][e] = AddBit(c, at)
  <2>1. at \in Places
    BY DEF Places
  <2> HIDE DEF at
  <2> QED
    BY <1>1, <2>1, Zenon DEF Lsbs, ReadLsb
<1> HIDE DEF c
<1>4. c \in Having(d, m) /\ c.rc = r /\ c.data = bit /\ c.q = m
  BY <1>1, <1>2 DEF Took, Having, SameBut
<1>5. AddBit(c, at) = PutPulse(c, at, u)
  BY <1>4 DEF AddBit, PutPulse
<1>6. u \in Int
  OBVIOUS
<1> HIDE DEF u
<1>7. PutPulse(c, <<i, k>>, u) \in Having(d, PutAt(m, i, k, u)) /\ PutPulse(c, <<i, k>>, u).rc = c.rc
  BY <1>4, <1>6, PulseIsPut
<1> QED
  BY <1>3, <1>4, <1>5, <1>7

(* The bits of a magnitude, from the highest of those that were shifted out. *)
BitsOf(a, times) == [j \in 1..times |-> Symbol(lsb_CDF, (a \div 2^(times - j)) % 2)]

(* They bring it back. *)
LEMMA BitsTake ==
  ASSUME NEW d, NEW m \in Grids, NEW i \in Blocks, NEW k \in 1..SHELL_CODEC_FRAME_LENGTH,
         NEW a \in Nat, NEW times \in Nat, m[i][k] = a \div 2^times
  PROVE  RunReads(Lsbs, Having(d, m), BitsOf(a, times), [j \in 1..times |-> <<i, k>>],
                  Having(d, PutAt(m, i, k, a)))
<1> DEFINE n == times
           left(j) == a \div 2^(n - j)
           G == [j \in 0..n |-> Having(d, PutAt(m, i, k, left(j)))]
           part == BitsOf(a, n)
           places == [j \in 1..n |-> <<i, k>>]
<1>1. \A j \in 0..n : left(j) \in Nat
  <2> TAKE j \in 0..n
  <2>1. n - j \in Nat
    OBVIOUS
  <2> DEFINE p == 2^(n - j)
  <2>2. p \in Nat /\ p > 0
    BY <2>1, PowersGrow
  <2> HIDE DEF p
  <2>3. a \div p \in Nat
    BY <2>2, Division
  <2> QED
    BY <2>3 DEF p
<1>2. \A j \in 1..n : /\ (left(j) % 2) \in 0..1
                      /\ left(j) = 2 * left(j - 1) + (left(j) % 2)
  <2> TAKE j \in 1..n
  <2> DEFINE e == n - j
             p == 2^e
  <2>1. e \in Nat /\ n - (j - 1) = e + 1
    OBVIOUS
  <2>2. p \in Nat /\ p > 0 /\ 2^(e + 1) = 2 * p
    <3> HIDE DEF e
    <3>1. 2^e \in Nat /\ 2^(e + 1) = 2 * 2^e
      BY <2>1, PowerOfTwo, Zenon
    <3>2. 2^e >= 1
      BY <2>1, PowersGrow, Zenon
    <3> QED
      BY <3>1, <3>2
  <2>3. left(j) = a \div p /\ left(j - 1) = a \div (2 * p)
    BY <2>1, <2>2
  <2> HIDE DEF p, left
  <2>4. (a \div p) % 2 \in 0..1 /\ a \div p = 2 * (a \div (2 * p)) + ((a \div p) % 2)
    BY <2>2, DividedTwice
  <2> QED
    BY <2>3, <2>4
<1>3. left(0) = m[i][k] /\ left(n) = a
  <2>1. n - 0 = n /\ n - n = 0 /\ 2^0 = 1
    BY PowerOfTwo
  <2>2. a \div 1 = a
    OBVIOUS
  <2> QED
    BY <2>1, <2>2
<1>4. Len(part) = n /\ Len(places) = n /\ \A j \in 1..n : /\ part[j] = Symbol(lsb_CDF, left(j) % 2)
                                                           /\ places[j] = <<i, k>>
  BY DEF BitsOf
<1> HIDE DEF left, part, places
<1>5. \A j \in 1..n : SymbolReads(Lsbs, G[j - 1], part[j], places[j], G[j])
  <2> TAKE j \in 1..n
  <2> DEFINE l == j - 1
             v == left(l)
             c == PutAt(m, i, k, v)
             bit == left(j) % 2
  <2>1. l \in 0..n /\ j \in 0..n
    OBVIOUS
  <2>2. v \in Nat /\ bit \in 0..1 /\ left(j) = 2 * v + bit /\ left(j) \in Nat
    BY <1>1, <1>2, <2>1
  <2>3. G[l] = Having(d, c) /\ G[j] = Having(d, PutAt(m, i, k, left(j)))
    BY <2>1, Zenon
  <2>4. part[j] = Symbol(lsb_CDF, bit) /\ places[j] = <<i, k>>
    BY <1>4
  <2> HIDE DEF G, l, v, bit
  <2>5. c \in Grids /\ c[i][k] = v
    BY <2>2, PutAtIs
  <2>6. PutAt(c, i, k, 2 * v + bit) = PutAt(m, i, k, 2 * v + bit)
    <3>1. 2 * v + bit \in Int /\ v \in Int
      BY <2>2
    <3> QED
      BY <3>1, PutAtIs
  <2> HIDE DEF c
  <2>7. SymbolReads(Lsbs, Having(d, c), Symbol(lsb_CDF, bit), <<i, k>>,
                    Having(d, PutAt(c, i, k, 2 * v + bit)))
    BY <2>2, <2>5, LsbTakes
  <2>8. SymbolReads(Lsbs, G[l], part[j], places[j], G[j])
    BY <2>2, <2>3, <2>4, <2>6, <2>7
  <2> QED
    BY <2>8 DEF l
<1>6. G[0] = Having(d, m) /\ G[n] = Having(d, PutAt(m, i, k, a))
  <2>1. 0 \in 0..n /\ n \in 0..n
    OBVIOUS
  <2>2. G[0] = Having(d, PutAt(m, i, k, m[i][k])) /\ G[n] = Having(d, PutAt(m, i, k, a))
    BY <1>3, <2>1
  <2>3. PutAt(m, i, k, m[i][k]) = m
    <3>1. 0 \in Int
      OBVIOUS
    <3> QED
      BY <3>1, PutAtIs
  <2> QED
    BY <2>2, <2>3
<1> HIDE DEF G
<1>7. RunReads(Lsbs, G[0], part, places, G[n])
  BY <1>4, <1>5, RunBySymbols, Zenon
<1> QED
  BY <1>6, <1>7 DEF part, places

(* ReadLsbs() goes through the places of the lower bits. *)
LEMMA LsbsRun ==
  ASSUME NEW d \in Whole
  PROVE  (\A i \in Blocks : d.shifts[i] \in Nat) /\ Runs(Lsbs, d, Positions(d.shifts), ReadLsbs(d))
<1> DEFINE n == Len(Positions(d.shifts))
           at(i) == Positions(d.shifts)[i]
           S == Frames
           step == [i \in 1..n |-> [e \in S |-> ReadLsb(e, at(i))]]
<1>1. n \in Nat /\ d \in S /\ (\A i \in 1..n : at(i) \in Places) /\ \A i \in Blocks : d.shifts[i] \in Nat
  <2>1. d \in Frames /\ d.shifts \in Seq(Nat) /\ Len(d.shifts) = BLOCKS
    BY FrameParts DEF Whole, Sized
  <2> DEFINE shifts == d.shifts
             s == Positions(shifts)
  <2>2. shifts \in Seq(Nat) /\ Len(shifts) = BLOCKS
    BY <2>1
  <2> HIDE DEF shifts
  <2>3. \A i \in Blocks : shifts[i] \in Nat
    BY <2>2, RatesOfPulses DEF Blocks
  <2>4. s \in Seq(Places)
    BY <2>3, PositionsAre
  <2> HIDE DEF s
  <2>5. Len(s) \in Nat /\ \A i \in 1..Len(s) : s[i] \in Places
    BY <2>4
  <2> QED
    BY <2>1, <2>3, <2>5 DEF shifts, s
<1> HIDE DEF n, at
<1>2. \A i \in 1..n : \A e \in S : ReadLsb(e, at(i)) \in S
  BY ReadLsbIs
<1>3. step \in Steps(n, S)
  BY <1>2 DEF Steps
<1> HIDE DEF step, S
<1>4. PICK w : WalksAlong(w, n, S, d, step)
  BY <1>1, <1>3, StepsExist, Zenon
<1>5. (\A i \in 1..n : w[i - 1] \in S) /\ w[n] \in S
  BY <1>1, <1>4, StaysAlong, Zenon
<1>6. w[0] = d /\ \A i \in 1..n : w[i] = ReadLsb(w[i - 1], at(i))
  BY <1>4, <1>5, Zenon DEF WalksAlong, step
<1>7. ReadLsbs(d) = w[n]
  BY <1>1, <1>6, ReadLsbsFollow, Zenon DEF n, at
<1>8. \A i \in 1..n : w[i] = Lsbs[at(i)][w[i - 1]]
  BY <1>1, <1>5, <1>6, Zenon DEF S, Lsbs
<1> QED
  BY <1>1, <1>6, <1>7, <1>8, Zenon DEF Runs, n, at

(* What is left of the magnitudes of a frame, and the magnitudes. *)
ShiftedDown(Q) == [i \in Blocks |-> Halved(Q[i], Scaled(Q[i]).nRshifts)]
Magnitudes(Q) == [i \in Blocks |-> [k \in 1..SHELL_CODEC_FRAME_LENGTH |-> Abs(Q[i][k])]]

(* The magnitudes of pulses, and what the shifts leave of them, are natural
   numbers. *)
LEMMA MagnitudesAre ==
  ASSUME NEW Q \in Pulses
  PROVE  /\ Q \in Grids /\ ShiftedDown(Q) \in Grids /\ Magnitudes(Q) \in Grids
         /\ \A i \in Blocks : \A k \in 1..SHELL_CODEC_FRAME_LENGTH :
              /\ Magnitudes(Q)[i][k] = Abs(Q[i][k]) /\ Abs(Q[i][k]) \in Nat /\ Q[i][k] \in Int
              /\ ShiftedDown(Q)[i][k] = Abs(Q[i][k]) \div 2^Scaled(Q[i]).nRshifts
<1> DEFINE F == SHELL_CODEC_FRAME_LENGTH
<1>1. \A i \in Blocks : Q[i] \in Block
  BY ScaledWithin, Zenon
<1>2. Q \in Grids
  BY <1>1, Zenon DEF Pulses, Grids
<1>3. \A i \in Blocks : Scaled(Q[i]).nRshifts \in Nat
  BY ScaledWithin, SumOfBlock
<1>4. \A i \in Blocks : \A k \in 1..F :
        Abs(Q[i][k]) \in Nat /\ ShiftedDown(Q)[i][k] = Abs(Q[i][k]) \div 2^Scaled(Q[i]).nRshifts
  <2> TAKE i \in Blocks
  <2>1. \A k \in 1..F : Abs(Q[i][k]) \in Nat
    BY <1>1, <1>3, HalvedIs, Zenon
  <2>2. ShiftedDown(Q)[i] = Halved(Q[i], Scaled(Q[i]).nRshifts)
    BY Zenon DEF ShiftedDown
  <2>3. DOMAIN Q[i] = 1..F
    BY <1>1 DEF Block
  <2> QED
    BY <2>1, <2>2, <2>3 DEF Halved
<1>5. \A i \in Blocks : ShiftedDown(Q)[i] \in Block
  <2> TAKE i \in Blocks
  <2>1. Halved(Q[i], Scaled(Q[i]).nRshifts) \in [1..F -> Nat]
    BY <1>1, <1>3, HalvedIs, Zenon
  <2>2. ShiftedDown(Q)[i] = Halved(Q[i], Scaled(Q[i]).nRshifts)
    BY Zenon DEF ShiftedDown
  <2> QED
    BY <2>1, <2>2 DEF Block
<1>6. ShiftedDown(Q) \in Grids
  <2>1. \A i \in Blocks : Halved(Q[i], Scaled(Q[i]).nRshifts) \in Block
    <3> TAKE i \in Blocks
    <3>1. ShiftedDown(Q)[i] = Halved(Q[i], Scaled(Q[i]).nRshifts)
      BY Zenon DEF ShiftedDown
    <3> QED
      BY <1>5, <3>1
  <2> DEFINE h(i) == Halved(Q[i], Scaled(Q[i]).nRshifts)
  <2>2. ShiftedDown(Q) = [i \in Blocks |-> h(i)]
    BY Zenon DEF ShiftedDown
  <2>3. \A i \in Blocks : h(i) \in Block
    BY <2>1
  <2> HIDE DEF h
  <2> QED
    BY <2>2, <2>3 DEF Grids
<1>7. Magnitudes(Q) \in Grids /\ \A i \in Blocks : \A k \in 1..F : Magnitudes(Q)[i][k] = Abs(Q[i][k])
  <2> DEFINE a(i, k) == Abs(Q[i][k])
  <2>1. Magnitudes(Q) = [i \in Blocks |-> [k \in 1..F |-> a(i, k)]]
    BY Zenon DEF Magnitudes
  <2>2. \A i \in Blocks : \A k \in 1..F : a(i, k) \in Int
    BY <1>4
  <2> HIDE DEF a, F
  <2>3. Magnitudes(Q) \in [Blocks -> [1..F -> Int]]
        /\ \A i \in Blocks : \A k \in 1..F : Magnitudes(Q)[i][k] = a(i, k)
    BY <2>1, <2>2
  <2> QED
    BY <2>3, Zenon DEF Grids, Block, a, F
<1>8. \A i \in Blocks : \A k \in 1..F : Q[i][k] \in Int
  BY <1>1 DEF Block
<1> QED
  BY <1>2, <1>4, <1>6, <1>7, <1>8

(* The lower bits of all blocks. *)
AllLsbs(Q) == Concat([i \in Blocks |-> LsbSymbols(Scaled(Q[i]))])

(* The bits of one block. *)
LEMMA LsbSymbolsBy ==
  ASSUME NEW Q \in Pulses, NEW i \in Blocks
  PROVE  LET times == Scaled(Q[i]).nRshifts
             parts == [k \in 1..SHELL_CODEC_FRAME_LENGTH |-> BitsOf(Abs(Q[i][k]), times)]
         IN /\ times \in Nat /\ parts \in Parts(SHELL_CODEC_FRAME_LENGTH, Symbols)
            /\ LsbSymbols(Scaled(Q[i])) = Concat(parts)
<1> DEFINE F == SHELL_CODEC_FRAME_LENGTH
           block == Scaled(Q[i])
           times == block.nRshifts
           parts == [k \in 1..F |-> BitsOf(Abs(Q[i][k]), times)]
<1>1. PICK R \in 0..MAX_SHIFTS : IsScaled(block, Q[i], R)
  BY ScaledWithin
<1>2. Q[i] \in Block
  BY ScaledWithin
<1>3. times \in Nat /\ block.pulses = Q[i]
  BY <1>1, <1>2, SumsOfBlock
<1>4. DOMAIN Q[i] = 1..F
  BY <1>2 DEF Block
<1>5. LsbSymbols(block) = Concat(parts)
  BY <1>3, <1>4, Zenon DEF LsbSymbols, BitsOf
<1>6. \A k \in 1..F : Abs(Q[i][k]) \in Nat
  BY MagnitudesAre
<1> HIDE DEF block
<1>7. \A k \in 1..F : BitsOf(Abs(Q[i][k]), times) \in Seq(Symbols)
  <2> TAKE k \in 1..F
  <2> DEFINE a == Abs(Q[i][k])
             bit(j) == (a \div 2^(times - j)) % 2
  <2>1. a \in Nat
    BY <1>6
  <2> HIDE DEF a, times
  <2>2. \A j \in 1..times : Symbol(lsb_CDF, bit(j)) \in Symbols
    <3> TAKE j \in 1..times
    <3> DEFINE p == 2^(times - j)
    <3>1. p \in Nat /\ p > 0
      <4>1. times - j \in Nat
        BY <1>3
      <4> QED
        BY <4>1, PowersGrow
    <3> HIDE DEF p
    <3>2. (a \div p) % 2 \in 0..1
      BY <2>1, <3>1, DividedTwice
    <3>3. bit(j) \in 0..1
      BY <3>2 DEF p
    <3>4. IsFullTable(lsb_CDF) /\ DOMAIN lsb_CDF = 0..2
      BY PulseTables
    <3> HIDE DEF bit
    <3>5. IsSymbol(lsb_CDF, bit(j))
      BY <3>3, <3>4 DEF IsSymbol
    <3> QED
      BY <3>4, <3>5, SymbolOfFullTable
  <2>3. BitsOf(a, times) = [j \in 1..times |-> Symbol(lsb_CDF, bit(j))]
    BY Zenon DEF BitsOf
  <2> HIDE DEF bit
  <2>4. BitsOf(a, times) \in Seq(Symbols)
    BY <1>3, <2>2, <2>3
  <2> QED
    BY <2>4 DEF a
<1>8. parts \in Parts(F, Symbols)
  <2> DEFINE s(k) == BitsOf(Abs(Q[i][k]), times)
  <2>1. \A k \in 1..F : s(k) \in Seq(Symbols)
    BY <1>7
  <2> HIDE DEF s, F
  <2>2. [k \in 1..F |-> s(k)] \in Parts(F, Symbols)
    BY <2>1 DEF Parts
  <2> QED
    BY <2>2 DEF s
<1> QED
  BY <1>3, <1>5, <1>8 DEF block

(* They give every pulse its magnitude. *)
LEMMA ReadLsbsTake ==
  ASSUME NEW d \in Whole, NEW Q \in Pulses, HasSums(d, Q)
  PROVE  /\ AllLsbs(Q) \in Seq(Symbols)
         /\ StepReads(d, Having(d, ShiftedDown(Q)), AllLsbs(Q), ReadLsbs(d), Having(d, Magnitudes(Q)))
<1> DEFINE F == SHELL_CODEC_FRAME_LENGTH
           old == ShiftedDown(Q)
           new == Magnitudes(Q)
           parts == [i \in Blocks |-> [k \in 1..F |-> BitsOf(Abs(Q[i][k]), Scaled(Q[i]).nRshifts)]]
           all == [i \in Blocks |-> Concat(parts[i])]
<1>1. (\A i \in Blocks : d.shifts[i] \in Nat) /\ Runs(Lsbs, d, Positions(d.shifts), ReadLsbs(d))
  BY LsbsRun
<1>2. BLOCKS \in Nat /\ Blocks = 1..BLOCKS /\ F \in Nat
  BY RatesOfPulses, BlockSize DEF Blocks
<1>3. \A i \in Blocks : /\ parts[i] \in Parts(F, Symbols) /\ LsbSymbols(Scaled(Q[i])) = Concat(parts[i])
                        /\ d.shifts[i] = Scaled(Q[i]).nRshifts
  <2> TAKE i \in Blocks
  <2>1. d.shifts[i] = Scaled(Q[i]).nRshifts
    BY DEF HasSums
  <2>2. parts[i] = [k \in 1..F |-> BitsOf(Abs(Q[i][k]), Scaled(Q[i]).nRshifts)]
    BY Zenon
  <2> HIDE DEF parts
  <2> QED
    BY <2>1, <2>2, LsbSymbolsBy, Zenon
<1>4. old \in Grids /\ new \in Grids
  BY MagnitudesAre
<1>5. \A i \in Blocks : \A k \in 1..F : PulseReads(Lsbs, d, old, new, parts[i][k], d.shifts[i], i, k)
  <2> TAKE i \in Blocks
  <2> TAKE k \in 1..F
  <2> DEFINE times == d.shifts[i]
             a == Abs(Q[i][k])
             m == Mixed(old, new, i, k - 1)
  <2>1. parts[i][k] = BitsOf(a, times) /\ times \in Nat
    BY <1>1, <1>3
  <2>2. a \in Nat /\ old[i][k] = a \div 2^times /\ new[i][k] = a
    BY <1>3, MagnitudesAre
  <2> HIDE DEF old, new, times, a, parts
  <2>3. m \in Grids /\ m[i][k] = old[i][k] /\ Mixed(old, new, i, k) = PutAt(m, i, k, new[i][k])
    BY <1>4, MixedNext
  <2> DEFINE c == PutAt(m, i, k, a)
  <2>4. Mixed(old, new, i, k) = c /\ m[i][k] = a \div 2^times
    BY <2>2, <2>3
  <2> HIDE DEF m
  <2>5. RunReads(Lsbs, Having(d, m), BitsOf(a, times), [j \in 1..times |-> <<i, k>>], Having(d, c))
    BY <2>1, <2>2, <2>3, <2>4, BitsTake
  <2>6. RunReads(Lsbs, Having(d, m), parts[i][k], [j \in 1..times |-> <<i, k>>], Having(d, Mixed(old, new, i, k)))
    BY <2>1, <2>4, <2>5
  <2>7. PulseReads(Lsbs, d, old, new, parts[i][k], times, i, k)
    BY <2>6, Zenon DEF PulseReads, m
  <2> QED
    BY <2>7 DEF times
<1>6. all \in Parts(BLOCKS, Symbols) /\ AllLsbs(Q) = Concat(all)
  <2>1. \A i \in Blocks : Concat(parts[i]) \in Seq(Symbols)
    BY <1>2, <1>3, ConcatType, Zenon
  <2>2. all = [i \in Blocks |-> LsbSymbols(Scaled(Q[i]))]
    <3> HIDE DEF parts
    <3> QED
      BY <1>3
  <2> HIDE DEF parts
  <2>3. all \in Parts(BLOCKS, Symbols)
    BY <1>2, <2>1 DEF Parts
  <2> QED
    BY <2>2, <2>3 DEF AllLsbs
<1> HIDE DEF parts, old, new
<1>7. RunReads(Lsbs, Having(d, old), Concat(all), Positions(d.shifts), Having(d, new))
  BY <1>1, <1>3, <1>4, <1>5, GridArrives DEF F
<1> HIDE DEF all
<1>8. Concat(all) \in Seq(Symbols)
  BY <1>2, <1>6, ConcatType, Zenon
<1>9. StepReads(d, Having(d, old), Concat(all), ReadLsbs(d), Having(d, new))
  BY <1>1, <1>7, Zenon DEF RunReads
<1> QED
  BY <1>6, <1>8, <1>9 DEF old, new

(* What is done at the places of the signs. *)
Signs == [at \in Places |-> [e \in Frames |-> ReadSign(e, at)]]

(* The table of the signs of a frame. *)
SignsOf(d) == sign_CDF[Sigtype(d)][QuantOffsetType(d)][d.rate]

(* ReadSigns() goes through the places of the signs. *)
LEMMA SignsRun ==
  ASSUME NEW d \in Frames
  PROVE  (\A i \in Blocks : Once[i] = 1) /\ Runs(Signs, d, Positions(Once), ReadSigns(d))
<1> DEFINE n == Len(Positions(Once))
           at(i) == Positions(Once)[i]
           S == Frames
           step == [i \in 1..n |-> [e \in S |-> ReadSign(e, at(i))]]
<1>1. \A i \in Blocks : Once[i] = 1
  BY DEF Once
<1>2. n \in Nat /\ d \in S /\ \A i \in 1..n : at(i) \in Places
  <2> DEFINE s == Positions(Once)
  <2>1. \A i \in Blocks : Once[i] \in Nat
    BY <1>1
  <2>2. s \in Seq(Places)
    BY <2>1, PositionsAre
  <2> HIDE DEF s
  <2>3. Len(s) \in Nat /\ \A i \in 1..Len(s) : s[i] \in Places
    BY <2>2
  <2> QED
    BY <2>3 DEF s
<1> HIDE DEF n, at
<1>3. \A i \in 1..n : \A e \in S : ReadSign(e, at(i)) \in S
  BY ReadSignIs
<1>4. step \in Steps(n, S)
  BY <1>3 DEF Steps
<1> HIDE DEF step, S
<1>5. PICK w : WalksAlong(w, n, S, d, step)
  BY <1>2, <1>4, StepsExist, Zenon
<1>6. (\A i \in 1..n : w[i - 1] \in S) /\ w[n] \in S
  BY <1>2, <1>5, StaysAlong, Zenon
<1>7. w[0] = d /\ \A i \in 1..n : w[i] = ReadSign(w[i - 1], at(i))
  BY <1>5, <1>6, Zenon DEF WalksAlong, step
<1>8. ReadSigns(d) = w[n]
  BY <1>2, <1>7, ReadSignsFollow, Zenon DEF n, at
<1>9. \A i \in 1..n : w[i] = Signs[at(i)][w[i - 1]]
  BY <1>2, <1>6, <1>7, Zenon DEF S, Signs
<1> QED
  BY <1>1, <1>7, <1>8, <1>9, Zenon DEF Runs, n, at

(* The sign of a pulse, if it has one. *)
SignOf(p, cdf) == IF p = 0 THEN <<>> ELSE <<Symbol(cdf, IF p < 0 THEN 0 ELSE 1)>>

(* It makes the pulse of its magnitude. *)
LEMMA SignTakes ==
  ASSUME NEW d \in Frames, NEW m \in Grids, NEW i \in Blocks, NEW k \in 1..SHELL_CODEC_FRAME_LENGTH,
         NEW p \in Int, m[i][k] = Abs(p)
  PROVE  RunReads(Signs, Having(d, m), SignOf(p, SignsOf(d)), [j \in 1..1 |-> <<i, k>>],
                  Having(d, PutAt(m, i, k, p)))
<1> DEFINE at == <<i, k>>
           places == [j \in 1..1 |-> at]
           cdf == SignsOf(d)
           part == SignOf(p, cdf)
<1> SUFFICES ASSUME NEW e \in Having(d, m), NEW u, Runs(Signs, e, places, u), NEW r, Delivers(e.rc, part, r)
             PROVE  u \in Having(d, PutAt(m, i, k, p)) /\ u.rc = r
  BY Zenon DEF RunReads, StepReads
<1>1. e \in Frames /\ SameBut(e, d) /\ e.q = m
  BY DEF Having
<1>2. u = ReadSign(e, at)
  <2>1. Len(places) = 1 /\ places[1] = at /\ 1 \in 1..1 /\ 1 - 1 = 0
    OBVIOUS
  <2> HIDE DEF places
  <2>2. u = Signs[at][e]
    BY <2>1 DEF Runs
  <2>3. at \in Places
    BY DEF Places
  <2> HIDE DEF at
  <2> QED
    BY <1>1, <2>2, <2>3, Zenon DEF Signs
<1>3. cdf = sign_CDF[Sigtype(e)][QuantOffsetType(e)][e.rate]
  <2>1. e.typeOffset = d.typeOffset /\ e.rate = d.rate
    BY <1>1 DEF SameBut, Params
  <2> QED
    BY <2>1 DEF SignsOf, Sigtype, QuantOffsetType
<1>4. IsTable(cdf)
  BY SigtypeIs, FrameParts, PulseTables DEF IsFullTable, SignsOf
<1> HIDE DEF cdf, places
<1>5. e.q[at[1]][at[2]] = Abs(p)
  BY <1>1
<1>6. CASE p = 0
  <2>1. u = e
    BY <1>2, <1>5, <1>6 DEF ReadSign, Abs
  <2>2. r = e.rc
    <3>1. part = <<>>
      BY <1>6 DEF SignOf
    <3> QED
      BY <3>1, DeliversNothing
  <2>3. PutAt(m, i, k, m[i][k]) = m /\ m[i][k] = p
    BY <1>6, PutAtIs DEF Abs
  <2> QED
    BY <2>1, <2>2, <2>3
<1>7. CASE p # 0
  <2> DEFINE bit == IF p < 0 THEN 0 ELSE 1
             c == Read(e, cdf)
  <2>1. u = AddSign(c, at)
    BY <1>2, <1>3, <1>5, <1>7 DEF ReadSign, Abs
  <2>2. part = <<Symbol(cdf, bit)>>
    BY <1>7 DEF SignOf
  <2>3. Took(c, e, bit, r)
    BY <1>1, <1>4, <2>2, ReadTakes
  <2> HIDE DEF c
  <2>4. c \in Having(d, m) /\ c.rc = r /\ c.data = bit /\ c.q = m
    BY <1>1, <2>3 DEF Took, Having, SameBut
  <2>5. Abs(p) * (2 * bit - 1) = p
    BY <1>7 DEF Abs
  <2>6. AddSign(c, at) = PutPulse(c, at, p)
    <3> DEFINE v == m[i][k] * (2 * c.data - 1)
    <3>1. AddSign(c, at) = PutPulse(c, at, v)
      BY <2>4 DEF AddSign, PutPulse
    <3>2. v = p
      BY <2>4, <2>5
    <3> QED
      BY <3>1, <3>2
  <2>7. PutPulse(c, <<i, k>>, p) \in Having(d, PutAt(m, i, k, p)) /\ PutPulse(c, <<i, k>>, p).rc = c.rc
    BY <2>4, PulseIsPut
  <2> QED
    BY <2>1, <2>4, <2>6, <2>7
<1> QED
  BY <1>6, <1>7

(* The signs of all blocks. *)
AllSigns(Q, cdf) == Concat([i \in Blocks |-> SignSymbols(Scaled(Q[i]), cdf)])

(* They give every pulse its sign. *)
LEMMA ReadSignsTake ==
  ASSUME NEW d \in Frames, NEW Q \in Pulses
  PROVE  /\ AllSigns(Q, SignsOf(d)) \in Seq(Symbols)
         /\ StepReads(d, Having(d, Magnitudes(Q)), AllSigns(Q, SignsOf(d)), ReadSigns(d), Having(d, Q))
<1> DEFINE F == SHELL_CODEC_FRAME_LENGTH
           old == Magnitudes(Q)
           cdf == SignsOf(d)
           parts == [i \in Blocks |-> [k \in 1..F |-> SignOf(Q[i][k], cdf)]]
           all == [i \in Blocks |-> Concat(parts[i])]
<1>1. (\A i \in Blocks : Once[i] = 1) /\ Runs(Signs, d, Positions(Once), ReadSigns(d))
  BY SignsRun
<1>2. BLOCKS \in Nat /\ Blocks = 1..BLOCKS /\ F \in Nat
  BY RatesOfPulses, BlockSize DEF Blocks
<1>3. IsFullTable(cdf) /\ DOMAIN cdf = 0..2
  BY SigtypeIs, FrameParts, PulseTables DEF SignsOf
<1> HIDE DEF cdf
<1>4. \A i \in Blocks : /\ parts[i] \in Parts(F, Symbols) /\ SignSymbols(Scaled(Q[i]), cdf) = Concat(parts[i])
  <2> TAKE i \in Blocks
  <2> DEFINE block == Scaled(Q[i])
             s(k) == SignOf(Q[i][k], cdf)
             p == [k \in 1..F |-> s(k)]
  <2>1. PICK R \in 0..MAX_SHIFTS : IsScaled(block, Q[i], R)
    BY ScaledWithin
  <2>2. Q[i] \in Block
    BY ScaledWithin
  <2>3. block.pulses = Q[i] /\ DOMAIN Q[i] = 1..F
    BY <2>1, <2>2, SumsOfBlock DEF Block
  <2>4. SignSymbols(block, cdf) = Concat(p)
    BY <2>3, Zenon DEF SignSymbols, SignOf
  <2>5. parts[i] = p
    BY Zenon
  <2>6. \A k \in 1..F : s(k) \in Seq(Symbols)
    <3> TAKE k \in 1..F
    <3>1. \A data \in 0..1 : Symbol(cdf, data) \in Symbols
      <4> TAKE data \in 0..1
      <4>1. IsSymbol(cdf, data)
        BY <1>3 DEF IsSymbol
      <4> QED
        BY <1>3, <4>1, SymbolOfFullTable
    <3>2. Symbol(cdf, 0) \in Symbols /\ Symbol(cdf, 1) \in Symbols
      BY <3>1
    <3> QED
      BY <3>2 DEF SignOf
  <2> HIDE DEF s, F, block, parts
  <2>7. p \in Parts(F, Symbols)
    BY <2>6 DEF Parts
  <2> QED
    BY <2>4, <2>5, <2>7 DEF block
<1>5. old \in Grids /\ Q \in Grids
  BY MagnitudesAre
<1>6. \A i \in Blocks : \A k \in 1..F : PulseReads(Signs, d, old, Q, parts[i][k], Once[i], i, k)
  <2> TAKE i \in Blocks
  <2> TAKE k \in 1..F
  <2> DEFINE p == Q[i][k]
             m == Mixed(old, Q, i, k - 1)
             c == PutAt(m, i, k, p)
  <2>1. parts[i][k] = SignOf(p, cdf)
    OBVIOUS
  <2>2. p \in Int /\ old[i][k] = Abs(p)
    BY MagnitudesAre
  <2>3. m \in Grids /\ m[i][k] = old[i][k] /\ Mixed(old, Q, i, k) = c
    BY <1>5, MixedNext
  <2> HIDE DEF old, p, parts, m
  <2>4. RunReads(Signs, Having(d, m), SignOf(p, cdf), [j \in 1..1 |-> <<i, k>>], Having(d, c))
    BY <2>2, <2>3, SignTakes DEF cdf
  <2>5. RunReads(Signs, Having(d, m), parts[i][k], [j \in 1..1 |-> <<i, k>>], Having(d, Mixed(old, Q, i, k)))
    BY <2>1, <2>3, <2>4
  <2>6. PulseReads(Signs, d, old, Q, parts[i][k], 1, i, k)
    BY <2>5, Zenon DEF PulseReads, m
  <2> QED
    BY <1>1, <2>6
<1>7. all \in Parts(BLOCKS, Symbols) /\ AllSigns(Q, cdf) = Concat(all)
  <2>1. \A i \in Blocks : Concat(parts[i]) \in Seq(Symbols)
    BY <1>2, <1>4, ConcatType, Zenon
  <2>2. all = [i \in Blocks |-> SignSymbols(Scaled(Q[i]), cdf)]
    <3> HIDE DEF parts
    <3> QED
      BY <1>4
  <2> HIDE DEF parts
  <2>3. all \in Parts(BLOCKS, Symbols)
    BY <1>2, <2>1 DEF Parts
  <2> QED
    BY <2>2, <2>3 DEF AllSigns
<1>8. \A i \in Blocks : Once[i] \in Nat
  BY <1>1
<1> HIDE DEF parts, old
<1>9. RunReads(Signs, Having(d, old), Concat(all), Positions(Once), Having(d, Q))
  BY <1>4, <1>5, <1>6, <1>8, GridArrives DEF F
<1> HIDE DEF all
<1>10. Concat(all) \in Seq(Symbols)
  BY <1>2, <1>7, ConcatType, Zenon
<1>11. StepReads(d, Having(d, old), Concat(all), ReadSigns(d), Having(d, Q))
  BY <1>1, <1>9, Zenon DEF RunReads
<1> QED
  BY <1>7, <1>10, <1>11 DEF old, cdf

-----------------------------------------------------------------------------
(* All pulses are read.  The parameters with another rate level. *)
WithRate(d, rate) == <<d.first, d.book, d.fs, d.typeOffset, d.gain, d.nlsf, d.lag, d.seed, rate>>

(* The rate level is read. *)
LEMMA ReadRateTakes ==
  ASSUME NEW d \in Sized(0, 0), NEW rate \in 0..N_RATE_LEVELS - 2, NEW r,
         Delivers(d.rc, <<Symbol(rate_levels_CDF[Sigtype(d)], rate)>>, r)
  PROVE  /\ ReadRate(d) \in Sized(0, 0) /\ ReadRate(d).rc = r /\ ReadRate(d).rate = rate
         /\ Params(ReadRate(d)) = WithRate(d, rate) /\ ReadRate(d).q = d.q
<1> DEFINE cdf == rate_levels_CDF[Sigtype(d)]
           c == Read(d, cdf)
           u == [c EXCEPT !.rate = rate]
<1>1. d \in Frames
  BY DEF Sized
<1>2. IsTable(cdf)
  BY <1>1, SigtypeIs, PulseTables DEF IsFullTable
<1> HIDE DEF cdf
<1>3. Took(c, d, rate, r)
  BY <1>1, <1>2, ReadTakes DEF cdf
<1>4. ReadRate(d) = Keep(c, "rate")
  BY Zenon DEF ReadRate, cdf
<1> HIDE DEF c
<1>5. Keep(c, "rate") = u
  BY <1>3 DEF Keep, Took
<1>6. /\ u.rc = c.rc /\ u.rate = rate /\ u.q = c.q
      /\ u.first = c.first /\ u.book = c.book /\ u.fs = c.fs /\ u.typeOffset = c.typeOffset
      /\ u.gain = c.gain /\ u.nlsf = c.nlsf /\ u.lag = c.lag /\ u.seed = c.seed
  BY <1>3 DEF Took, Frames
<1>7. c.rc = r /\ c.q = d.q /\ Params(c) = Params(d)
  BY <1>3 DEF Took
<1>8. ReadRate(d) \in Sized(0, 0)
  BY <1>1, ReadRateIs DEF Sized
<1> HIDE DEF u
<1>9. Params(u) = WithRate(d, rate)
  BY <1>6, <1>7 DEF Params, WithRate
<1> QED
  BY <1>4, <1>5, <1>6, <1>7, <1>8, <1>9

(* What the pulses leave behind. *)
PulsesTaken(u, d, Q, rate, r) ==
  /\ u \in Frames /\ u.rc = r /\ u.q = Q /\ Params(u) = WithRate(d, rate)

(* The symbols of the pulses give a frame its pulses. *)
LEMMA DecodePulsesTakes ==
  ASSUME NEW d \in Sized(0, 0), d.q = <<>>, NEW Q \in Pulses, NEW rate \in 0..N_RATE_LEVELS - 2, NEW r,
         Delivers(d.rc, PulseSymbols(Q, Sigtype(d), QuantOffsetType(d), rate), r)
  PROVE  PulsesTaken(DecodePulses(d), d, Q, rate, r)
<1> DEFINE sigtype == Sigtype(d)
           offset == QuantOffsetType(d)
           first == <<Symbol(rate_levels_CDF[sigtype], rate)>>
           sums == AllSums(Q, rate)
           shells == AllShells(Q)
           lsbs == AllLsbs(Q)
           signs == AllSigns(Q, sign_CDF[sigtype][offset][rate])
           d1 == ReadRate(d)
           d2 == ReadSums(d1)
           d3 == ReadShells(d2)
           d4 == ReadLsbs(d3)
           d5 == ReadSigns(d4)
<1>1. d \in Frames /\ sigtype \in 0..1 /\ offset \in 0..1 /\ N_RATE_LEVELS \in Nat
  <2>1. d \in Frames
    BY DEF Sized
  <2> QED
    BY <2>1, SigtypeIs, RatesOfPulses
<1>2. PulseSymbols(Q, sigtype, offset, rate) = first \o sums \o shells \o lsbs \o signs
  <2> DEFINE block == [i \in Blocks |-> Scaled(Q[i])]
             sign == sign_CDF[sigtype][offset][rate]
  <2>1. /\ [i \in Blocks |-> SumSymbols(block[i], rate)] = [i \in Blocks |-> SumSymbols(Scaled(Q[i]), rate)]
        /\ [i \in Blocks |-> ShellSymbols(block[i])] = [i \in Blocks |-> ShellSymbols(Scaled(Q[i]))]
        /\ [i \in Blocks |-> LsbSymbols(block[i])] = [i \in Blocks |-> LsbSymbols(Scaled(Q[i]))]
        /\ [i \in Blocks |-> SignSymbols(block[i], sign)] = [i \in Blocks |-> SignSymbols(Scaled(Q[i]), sign)]
    BY Zenon
  <2>2. PulseSymbols(Q, sigtype, offset, rate) =
          first \o Concat([i \in Blocks |-> SumSymbols(block[i], rate)])
            \o Concat([i \in Blocks |-> ShellSymbols(block[i])])
            \o Concat([i \in Blocks |-> LsbSymbols(block[i])])
            \o Concat([i \in Blocks |-> SignSymbols(block[i], sign)])
    BY Zenon DEF PulseSymbols
  <2> QED
    BY <2>1, <2>2, Zenon DEF AllSums, AllShells, AllLsbs, AllSigns
<1>3. DecodePulses(d) = d5
  BY Zenon DEF DecodePulses
<1> HIDE DEF sigtype, offset
<1>4. first \in Seq(Symbols)
  <2>1. IsFullTable(rate_levels_CDF[sigtype]) /\ DOMAIN rate_levels_CDF[sigtype] = 0..N_RATE_LEVELS - 1
    BY <1>1, PulseTables
  <2>2. IsSymbol(rate_levels_CDF[sigtype], rate)
    BY <1>1, <2>1 DEF IsSymbol
  <2>3. Symbol(rate_levels_CDF[sigtype], rate) \in Symbols
    BY <2>1, <2>2, SymbolOfFullTable
  <2> QED
    BY <2>3
<1>5. /\ sums \in Seq(Symbols) /\ shells \in Seq(Symbols) /\ lsbs \in Seq(Symbols)
      /\ signs \in Seq(Symbols)
  <2> DEFINE sign == sign_CDF[sigtype][offset][rate]
  <2>1. \A i \in Blocks : Q[i] \in Block /\ \E R \in 0..MAX_SHIFTS : IsScaled(Scaled(Q[i]), Q[i], R)
    BY ScaledWithin
  <2>2. IsFullTable(sign) /\ DOMAIN sign = 0..2 /\ rate \in 0..N_RATE_LEVELS - 1
    BY <1>1, PulseTables
  <2>3. BLOCKS \in Nat /\ Blocks = 1..BLOCKS
    BY RatesOfPulses DEF Blocks
  <2> HIDE DEF sign
  <2>4. \A i \in Blocks : /\ SumSymbols(Scaled(Q[i]), rate) \in Seq(Symbols)
                          /\ ShellSymbols(Scaled(Q[i])) \in Seq(Symbols)
                          /\ LsbSymbols(Scaled(Q[i])) \in Seq(Symbols)
                          /\ SignSymbols(Scaled(Q[i]), sign) \in Seq(Symbols)
    BY <2>1, <2>2, SumSymbolsAre, ShellSymbolsAre, LsbSymbolsAre, SignSymbolsAre, Zenon
  <2> DEFINE p1 == [i \in Blocks |-> SumSymbols(Scaled(Q[i]), rate)]
             p2 == [i \in Blocks |-> ShellSymbols(Scaled(Q[i]))]
             p3 == [i \in Blocks |-> LsbSymbols(Scaled(Q[i]))]
             p4 == [i \in Blocks |-> SignSymbols(Scaled(Q[i]), sign)]
  <2>5. /\ p1 \in Parts(BLOCKS, Symbols) /\ p2 \in Parts(BLOCKS, Symbols)
        /\ p3 \in Parts(BLOCKS, Symbols) /\ p4 \in Parts(BLOCKS, Symbols)
    BY <2>3, <2>4 DEF Parts
  <2>6. sums = Concat(p1) /\ shells = Concat(p2) /\ lsbs = Concat(p3) /\ signs = Concat(p4)
    BY Zenon DEF AllSums, AllShells, AllLsbs, AllSigns, sign
  <2> HIDE DEF p1, p2, p3, p4, sums, shells, lsbs, signs
  <2>7. /\ Concat(p1) \in Seq(Symbols) /\ Concat(p2) \in Seq(Symbols)
        /\ Concat(p3) \in Seq(Symbols) /\ Concat(p4) \in Seq(Symbols)
    BY <2>3, <2>5, ConcatType, Zenon
  <2> QED
    BY <2>6, <2>7
<1>6. PICK m4 : /\ Delivers(d.rc, first \o sums \o shells \o lsbs, m4)
                /\ Delivers(m4, signs, r)
  <2> HIDE DEF first, sums, shells, lsbs, signs
  <2>1. first \o sums \o shells \o lsbs \in Seq(Symbols)
    BY <1>4, <1>5
  <2>2. Delivers(d.rc, (first \o sums \o shells \o lsbs) \o signs, r)
    BY <1>2 DEF sigtype, offset
  <2> QED
    BY <1>5, <2>1, <2>2, DeliversBoth, Zenon
<1>7. PICK m3 : /\ Delivers(d.rc, first \o sums \o shells, m3)
                /\ Delivers(m3, lsbs, m4)
  <2> HIDE DEF first, sums, shells, lsbs, signs
  <2>1. first \o sums \o shells \in Seq(Symbols)
    BY <1>4, <1>5
  <2> QED
    BY <1>5, <1>6, <2>1, DeliversBoth, Zenon
<1>8. PICK m2 : /\ Delivers(d.rc, first \o sums, m2)
                /\ Delivers(m2, shells, m3)
  <2> HIDE DEF first, sums, shells, lsbs, signs
  <2>1. first \o sums \in Seq(Symbols)
    BY <1>4, <1>5
  <2> QED
    BY <1>5, <1>7, <2>1, DeliversBoth, Zenon
<1>9. PICK m1 : /\ Delivers(d.rc, first, m1)
                /\ Delivers(m1, sums, m2)
  <2> HIDE DEF first, sums, shells, lsbs, signs
  <2> QED
    BY <1>4, <1>5, <1>8, DeliversBoth, Zenon
<1>10. d1 \in Sized(0, 0) /\ d1.rc = m1 /\ d1.rate = rate /\ Params(d1) = WithRate(d, rate) /\ d1.q = <<>>
  BY <1>9, ReadRateTakes DEF sigtype
<1> HIDE DEF d1
<1>11. d2 \in SumsUpTo(d1, Q, BLOCKS) /\ d2.rc = m2
  <2>1. d1 \in SumsUpTo(d1, Q, 0)
    BY <1>10 DEF SumsUpTo
  <2>2. StepReads(d1, SumsUpTo(d1, Q, 0), AllSums(Q, d1.rate), d2, SumsUpTo(d1, Q, BLOCKS))
    BY <1>10, ReadSumsTake
  <2>3. Delivers(d1.rc, AllSums(Q, d1.rate), m2)
    BY <1>9, <1>10
  <2> HIDE DEF d2
  <2> QED
    BY <2>1, <2>2, <2>3, Zenon DEF StepReads
<1> HIDE DEF d2
<1>12. d2 \in Whole /\ d2 \in Frames /\ HasSums(d2, Q) /\ Params(d2) = Params(d1) /\ d2.q = <<>>
  <2>1. /\ d2 \in Sized(BLOCKS, BLOCKS) /\ Params(d2) = Params(d1) /\ d2.q = d1.q
        /\ \A j \in 1..BLOCKS : d2.shifts[j] = Scaled(Q[j]).nRshifts /\ d2.sum[j] = Scaled(Q[j]).sum[1]
    BY <1>11 DEF SumsUpTo
  <2> QED
    BY <1>10, <2>1 DEF Whole, Sized, HasSums, Blocks
<1>13. d3 \in ShellsUpTo(d2, Q, BLOCKS) /\ d3.rc = m3
  <2>1. d2 \in ShellsUpTo(d2, Q, 0)
    BY <1>12 DEF ShellsUpTo, SameBut
  <2>2. StepReads(d2, ShellsUpTo(d2, Q, 0), shells, d3, ShellsUpTo(d2, Q, BLOCKS))
    BY <1>12, ReadShellsTake
  <2>3. Delivers(d2.rc, shells, m3)
    BY <1>8, <1>11
  <2> HIDE DEF d3, shells
  <2> QED
    BY <2>1, <2>2, <2>3, Zenon DEF StepReads
<1> HIDE DEF d3
<1>14. /\ d3 \in Whole /\ d3 \in Frames /\ HasSums(d3, Q) /\ Params(d3) = Params(d2)
       /\ d3.q = ShiftedDown(Q)
  <2>1. /\ d3 \in Whole /\ SameBut(d3, d2) /\ Len(d3.q) = BLOCKS
        /\ \A j \in 1..BLOCKS : d3.q[j] = Halved(Q[j], Scaled(Q[j]).nRshifts)
    BY <1>13 DEF ShellsUpTo
  <2>2. d3 \in Frames /\ HasSums(d3, Q) /\ Params(d3) = Params(d2)
    BY <1>12, <2>1 DEF SameBut, HasSums
  <2>3. d3.q \in Seq(Seq(Int))
    BY <2>2, FrameParts
  <2>4. d3.q = [j \in 1..BLOCKS |-> d3.q[j]]
    <3> DEFINE q == d3.q
               S == Seq(Int)
    <3>1. q \in Seq(S) /\ Len(q) = BLOCKS
      BY <2>1, <2>3
    <3> HIDE DEF q, S
    <3>2. q = [j \in 1..BLOCKS |-> q[j]]
      BY <3>1
    <3> QED
      BY <3>2 DEF q
  <2>5. d3.q = ShiftedDown(Q)
    <3> DEFINE h(j) == Halved(Q[j], Scaled(Q[j]).nRshifts)
    <3>1. ShiftedDown(Q) = [j \in 1..BLOCKS |-> h(j)]
      BY Zenon DEF ShiftedDown, Blocks
    <3>2. \A j \in 1..BLOCKS : d3.q[j] = h(j)
      BY <2>1
    <3> HIDE DEF h
    <3> QED
      BY <2>4, <3>1, <3>2
  <2> QED
    BY <2>1, <2>2, <2>5
<1>15. d4 \in Having(d3, Magnitudes(Q)) /\ d4.rc = m4
  <2>1. d3 \in Having(d3, ShiftedDown(Q))
    BY <1>14 DEF Having, SameBut
  <2>2. StepReads(d3, Having(d3, ShiftedDown(Q)), lsbs, d4, Having(d3, Magnitudes(Q)))
    BY <1>14, ReadLsbsTake
  <2>3. Delivers(d3.rc, lsbs, m4)
    BY <1>7, <1>13
  <2> HIDE DEF d4, lsbs
  <2> QED
    BY <2>1, <2>2, <2>3, Zenon DEF StepReads
<1> HIDE DEF d4
<1>16. d4 \in Frames /\ Params(d4) = WithRate(d, rate) /\ d4.q = Magnitudes(Q)
  BY <1>10, <1>12, <1>14, <1>15 DEF Having, SameBut
<1>17. SignsOf(d4) = sign_CDF[sigtype][offset][rate]
  <2>1. d4.typeOffset = d.typeOffset /\ d4.rate = rate
    BY <1>16 DEF Params, WithRate
  <2> QED
    BY <2>1 DEF SignsOf, sigtype, offset, Sigtype, QuantOffsetType
<1>18. d5 \in Having(d4, Q) /\ d5.rc = r
  <2>1. d4 \in Having(d4, Magnitudes(Q))
    BY <1>16 DEF Having, SameBut
  <2>2. StepReads(d4, Having(d4, Magnitudes(Q)), AllSigns(Q, SignsOf(d4)), d5, Having(d4, Q))
    BY <1>16, ReadSignsTake
  <2>3. Delivers(d4.rc, AllSigns(Q, SignsOf(d4)), r)
    BY <1>6, <1>15, <1>17
  <2> HIDE DEF d5
  <2> QED
    BY <2>1, <2>2, <2>3, Zenon DEF StepReads
<1> HIDE DEF d5
<1>19. PulsesTaken(d5, d, Q, rate, r)
  BY <1>16, <1>18 DEF Having, SameBut, PulsesTaken
<1> QED
  BY <1>3, <1>19

-----------------------------------------------------------------------------
(* A whole frame is read.  What a field leaves alone. *)
Elsewhere(u, d, field) ==
  /\ u.first = d.first /\ u.book = d.book /\ u.rate = d.rate /\ u.q = d.q
  /\ u.sum = d.sum /\ u.shifts = d.shifts
  /\ field # "fs" => u.fs = d.fs
  /\ field # "typeOffset" => u.typeOffset = d.typeOffset
  /\ field # "gain" => u.gain = d.gain
  /\ field # "nlsf" => u.nlsf = d.nlsf
  /\ field # "lag" => u.lag = d.lag
  /\ field # "seed" => u.seed = d.seed
  /\ field # "vad" => u.vad = d.vad
  /\ field # "term" => u.term = d.term

(* A field of the frame is read, and nothing else changes. *)
FieldTaken(u, d, field, v, r) == u \in Frames /\ u.rc = r /\ u[field] = v /\ Elsewhere(u, d, field)

Indices == {"fs", "typeOffset", "gain", "nlsf", "lag", "seed", "vad", "term"}

(* A field that is read takes what was delivered. *)
LEMMA KeepTakes ==
  ASSUME NEW d \in Frames, NEW field \in Indices,
         NEW cdf, IsFullTable(cdf), field \in {"fs", "typeOffset"} => DOMAIN cdf = 0..4,
         NEW v, NEW r, Delivers(d.rc, <<Symbol(cdf, v)>>, r)
  PROVE  FieldTaken(Keep(Read(d, cdf), field), d, field, v, r)
<1> DEFINE s == Symbol(cdf, v)
           c == RangeDecode(d.rc, cdf)
           e == [d EXCEPT !.rc = r, !.data = v]
           u == [e EXCEPT ![field] = v]
<1>1. s.cdf = cdf /\ s.data = v
  BY DEF Symbol
<1> HIDE DEF s
<1>2. c.rc = r /\ c.data = v
  BY <1>1, DeliversOne DEF s
<1> HIDE DEF c
<1>3. Read(d, cdf) = e
  BY <1>2 DEF Read, Put, c
<1>4. Keep(Read(d, cdf), field) \in Frames
  BY KeepsSize DEF SameSize, Indices
<1>5. e.rc = r /\ e.data = v /\ Elsewhere(e, d, "rc") /\ DOMAIN e = DOMAIN d
  BY DEF Frames, Elsewhere
<1>6. DOMAIN d = {"rc", "data", "first", "book", "fs", "typeOffset", "gain", "nlsf", "lag", "seed", "rate",
                  "sum", "shifts", "tree", "q", "vad", "term"}
  BY DEF Frames
<1> HIDE DEF e
<1>7. Keep(Read(d, cdf), field) = u
  BY <1>3, <1>5 DEF Keep
<1>8. u.rc = e.rc /\ u[field] = v /\ Elsewhere(u, e, field)
  BY <1>5, <1>6 DEF Elsewhere, Indices
<1> HIDE DEF u
<1>9. Elsewhere(u, d, field)
  BY <1>5, <1>8 DEF Elsewhere
<1> QED
  BY <1>4, <1>5, <1>7, <1>8, <1>9 DEF FieldTaken

(* One field is read. *)
LEMMA ReadFieldTakes ==
  ASSUME NEW d \in Frames, NEW field \in Indices, field # "fs", field = "lag" => Sigtype(d) = VOICED,
         NEW v, NEW r, Delivers(d.rc, <<Symbol(Table(d, field), v)>>, r)
  PROVE  FieldTaken(ReadField(d, field), d, field, v, r)
<1> DEFINE cdf == Table(d, field)
<1>1. IsFullTable(cdf) /\ (field \in {"fs", "typeOffset"} => DOMAIN cdf = 0..4)
  BY TableOfField DEF Indices
<1>2. ReadField(d, field) = Keep(Read(d, cdf), field)
  BY DEF ReadField
<1> HIDE DEF cdf
<1>3. FieldTaken(Keep(Read(d, cdf), field), d, field, v, r)
  BY <1>1, KeepTakes DEF cdf
<1> QED
  BY <1>2, <1>3

(* The fields in their order. *)
LEMMA FieldsInOrder ==
  ASSUME NEW d
  PROVE  /\ Walk(ReadField, d, <<"typeOffset", "gain", "nlsf", "lag", "seed">>) =
              ReadField(ReadField(ReadField(ReadField(ReadField(d, "typeOffset"), "gain"), "nlsf"), "lag"), "seed")
         /\ Walk(ReadField, d, <<"vad", "term">>) = ReadField(ReadField(d, "vad"), "term")
<1>1. Walk(ReadField, d, <<"vad", "term">>) = ReadField(ReadField(d, "vad"), "term")
  <2> DEFINE fields == <<"vad", "term">>
             e1 == ReadField(d, "vad")
             e2 == ReadField(e1, "term")
             w == [i \in 0..2 |-> IF i = 0 THEN d ELSE IF i = 1 THEN e1 ELSE e2]
  <2>1. Len(fields) = 2 /\ fields[1] = "vad" /\ fields[2] = "term"
    OBVIOUS
  <2>2. w[0] = d /\ w[1] = e1 /\ w[2] = e2
    OBVIOUS
  <2>3. \A i \in 1..2 : w[i] = ReadField(w[i - 1], fields[i])
    <3>1. w[1] = ReadField(w[0], fields[1]) /\ w[2] = ReadField(w[1], fields[2])
      BY <2>1, <2>2
    <3> HIDE DEF w, fields
    <3>2. \A i \in 1..2 : (i = 1 /\ i - 1 = 0) \/ (i = 2 /\ i - 1 = 1)
      OBVIOUS
    <3> QED
      BY <3>1, <3>2
  <2> HIDE DEF w, fields
  <2>4. 2 \in Nat
    OBVIOUS
  <2>5. Walk(ReadField, d, fields) = w[Len(fields)]
    BY <2>1, <2>2, <2>3, <2>4, FieldsFollow, Zenon
  <2> QED
    BY <2>1, <2>2, <2>5 DEF fields
<1>2. Walk(ReadField, d, <<"typeOffset", "gain", "nlsf", "lag", "seed">>) =
        ReadField(ReadField(ReadField(ReadField(ReadField(d, "typeOffset"), "gain"), "nlsf"), "lag"), "seed")
  <2> DEFINE fields == <<"typeOffset", "gain", "nlsf", "lag", "seed">>
             e1 == ReadField(d, "typeOffset")
             e2 == ReadField(e1, "gain")
             e3 == ReadField(e2, "nlsf")
             e4 == ReadField(e3, "lag")
             e5 == ReadField(e4, "seed")
             w == [i \in 0..5 |-> IF i = 0 THEN d ELSE IF i = 1 THEN e1 ELSE IF i = 2 THEN e2
                                  ELSE IF i = 3 THEN e3 ELSE IF i = 4 THEN e4 ELSE e5]
  <2>1. /\ Len(fields) = 5 /\ fields[1] = "typeOffset" /\ fields[2] = "gain" /\ fields[3] = "nlsf"
        /\ fields[4] = "lag" /\ fields[5] = "seed"
    OBVIOUS
  <2> HIDE DEF e1, e2, e3, e4, e5
  <2>2. w[0] = d /\ w[1] = e1 /\ w[2] = e2 /\ w[3] = e3 /\ w[4] = e4 /\ w[5] = e5
    OBVIOUS
  <2> HIDE DEF w, fields
  <2>3. \A i \in 1..5 : w[i] = ReadField(w[i - 1], fields[i])
    <3>1. /\ w[1] = ReadField(w[0], fields[1]) /\ w[2] = ReadField(w[1], fields[2])
          /\ w[3] = ReadField(w[2], fields[3]) /\ w[4] = ReadField(w[3], fields[4])
          /\ w[5] = ReadField(w[4], fields[5])
      BY <2>1, <2>2 DEF e1, e2, e3, e4, e5
    <3>2. \A i \in 1..5 : \/ i = 1 /\ i - 1 = 0
                          \/ i = 2 /\ i - 1 = 1
                          \/ i = 3 /\ i - 1 = 2
                          \/ i = 4 /\ i - 1 = 3
                          \/ i = 5 /\ i - 1 = 4
      OBVIOUS
    <3> QED
      BY <3>1, <3>2
  <2>4. 5 \in Nat
    OBVIOUS
  <2>5. Walk(ReadField, d, fields) = w[Len(fields)]
    BY <2>1, <2>2, <2>3, <2>4, FieldsFollow, Zenon
  <2> QED
    BY <2>1, <2>2, <2>5, Zenon DEF fields, e1, e2, e3, e4, e5
<1> QED
  BY <1>1, <1>2

-----------------------------------------------------------------------------
(* The parts of a frame, in the order in which they are coded. *)
RatePart(f, first) == IF first THEN <<Symbol(SamplingRates_CDF, f.fs)>> ELSE <<>>

(* The symbols of a frame, part by part: the rate and the indices, the pulses,
   the flag of activity, and whether frames follow. *)
TypePart(f, first, prev) ==
  <<Symbol(IF first THEN type_offset_CDF ELSE type_offset_joint_CDF[prev], f.typeOffset)>>

GainPart(f, first) == <<Symbol(IF first THEN gain_CDF[Sigtype(f)] ELSE delta_gain_CDF, f.gain)>>

NlsfPart(f) == <<Symbol(NLSF_CDF[BookOf(f.fs)][Sigtype(f)], f.nlsf)>>

LagPart(f) == IF Sigtype(f) = VOICED THEN <<Symbol(pitch_lag_CDF[f.fs], f.lag)>> ELSE <<>>

SeedPart(f) == <<Symbol(Seed_CDF, f.seed)>>

IndexParts(f, first, prev) ==
  RatePart(f, first) \o TypePart(f, first, prev) \o GainPart(f, first) \o NlsfPart(f) \o LagPart(f)
    \o SeedPart(f)

PulsePart(f) == PulseSymbols(f.q, Sigtype(f), QuantOffsetType(f), f.rate)

VadPart(f) == <<Symbol(vadflag_CDF, f.vad)>>

(* The parts are made of symbols that their tables leave an interval for. *)
PartsAreSymbols(f, first, prev) ==
  /\ RatePart(f, first) \in Seq(Symbols) /\ TypePart(f, first, prev) \in Seq(Symbols)
  /\ GainPart(f, first) \in Seq(Symbols) /\ NlsfPart(f) \in Seq(Symbols)
  /\ LagPart(f) \in Seq(Symbols) /\ SeedPart(f) \in Seq(Symbols)
  /\ PulsePart(f) \in Seq(Symbols) /\ VadPart(f) \in Seq(Symbols)

(* Sequences that agree. *)
LEMMA SameSequence ==
  ASSUME NEW T, NEW s \in Seq(T), NEW t \in Seq(T), Len(s) = Len(t),
         \A i \in 1..Len(s) : s[i] = t[i]
  PROVE  s = t
OBVIOUS

(* The parts make up the frame. *)
LEMMA FrameInParts ==
  ASSUME NEW f, NEW prev \in 0..3, NEW first \in BOOLEAN,
         IsFrame(f, IF first THEN gain_CDF[Sigtype(f)] ELSE delta_gain_CDF)
  PROVE  /\ PartsAreSymbols(f, first, prev)
         /\ FrameSymbols(f, first, prev) = IndexParts(f, first, prev) \o PulsePart(f) \o VadPart(f)
<1> DEFINE sigtype == Sigtype(f)
           typeTable == IF first THEN type_offset_CDF ELSE type_offset_joint_CDF[prev]
           gainTable == IF first THEN gain_CDF[sigtype] ELSE delta_gain_CDF
           rate == Symbol(SamplingRates_CDF, f.fs)
           type == Symbol(typeTable, f.typeOffset)
           gain == Symbol(gainTable, f.gain)
           nlsf == Symbol(NLSF_CDF[BookOf(f.fs)][sigtype], f.nlsf)
           lag  == Symbol(pitch_lag_CDF[f.fs], f.lag)
           seed == Symbol(Seed_CDF, f.seed)
           vad  == Symbol(vadflag_CDF, f.vad)
<1>1. /\ f.fs \in Rates /\ f.typeOffset \in 0..3 /\ f.rate \in 0..N_RATE_LEVELS - 2 /\ f.q \in Pulses
  BY DEF IsFrame
<1>2. sigtype \in 0..1 /\ QuantOffsetType(f) \in 0..1 /\ BookOf(f.fs) \in Books
  BY <1>1 DEF Sigtype, QuantOffsetType, BookOf, Books
<1>3. rate \in Symbols /\ type \in Symbols
  <2>1. \A cdf \in {SamplingRates_CDF, typeTable} : IsFullTable(cdf) /\ DOMAIN cdf = 0..4
    BY IndexTables
  <2> HIDE DEF typeTable
  <2>2. \A cdf \in {SamplingRates_CDF, typeTable} : \A data \in 0..3 : IsSymbol(cdf, data)
    BY <2>1 DEF IsSymbol
  <2>3. \A cdf \in {SamplingRates_CDF, typeTable} : \A data \in 0..3 : Symbol(cdf, data) \in Symbols
    BY <2>1, <2>2, SymbolOfFullTable
  <2> QED
    BY <1>1, <2>3 DEF Rates
<1>4. gain \in Symbols
  <2>1. IsFullTable(gainTable)
    BY <1>2, IndexTables
  <2>2. IsSymbol(gainTable, f.gain)
    BY DEF IsFrame
  <2> HIDE DEF gainTable
  <2> QED
    BY <2>1, <2>2, SymbolOfFullTable
<1>5. nlsf \in Symbols
  <2>1. IsFullTable(NLSF_CDF[BookOf(f.fs)][sigtype])
    BY <1>2, IndexTables
  <2>2. IsSymbol(NLSF_CDF[BookOf(f.fs)][sigtype], f.nlsf)
    BY DEF IsFrame
  <2> HIDE DEF sigtype
  <2> QED
    BY <2>1, <2>2, SymbolOfFullTable
<1>6. sigtype = VOICED => lag \in Symbols
  <2>1. IsFullTable(pitch_lag_CDF[f.fs])
    BY <1>1, IndexTables
  <2>2. sigtype = VOICED => IsSymbol(pitch_lag_CDF[f.fs], f.lag)
    BY DEF IsFrame
  <2> QED
    BY <2>1, <2>2, SymbolOfFullTable
<1>7. seed \in Symbols /\ vad \in Symbols
  <2>1. IsFullTable(Seed_CDF) /\ IsFullTable(vadflag_CDF)
    BY IndexTables
  <2>2. IsSymbol(Seed_CDF, f.seed) /\ IsSymbol(vadflag_CDF, f.vad)
    BY DEF IsFrame
  <2> QED
    BY <2>1, <2>2, SymbolOfFullTable
<1>8. PulsePart(f) \in Seq(Symbols)
  BY <1>1, <1>2, PulseSymbolsAre DEF PulsePart
<1>9. PartsAreSymbols(f, first, prev)
  <2> HIDE DEF rate, type, gain, nlsf, lag, seed, vad
  <2>1. /\ RatePart(f, first) = IF first THEN <<rate>> ELSE <<>>
        /\ TypePart(f, first, prev) = <<type>> /\ GainPart(f, first) = <<gain>>
        /\ NlsfPart(f) = <<nlsf>> /\ SeedPart(f) = <<seed>> /\ VadPart(f) = <<vad>>
        /\ LagPart(f) = IF sigtype = VOICED THEN <<lag>> ELSE <<>>
    BY Zenon DEF RatePart, TypePart, GainPart, NlsfPart, LagPart, SeedPart, VadPart,
                 rate, type, gain, nlsf, lag, seed, vad
  <2>2. \A s \in Symbols : <<s>> \in Seq(Symbols)
    OBVIOUS
  <2>3. <<>> \in Seq(Symbols)
    OBVIOUS
  <2> QED
    BY <1>3, <1>4, <1>5, <1>6, <1>7, <1>8, <2>1, <2>2, <2>3 DEF PartsAreSymbols
<1>10. FrameSymbols(f, first, prev) =
         (IF first THEN <<rate, type, gain>> ELSE <<type, gain>>) \o NlsfPart(f) \o LagPart(f)
           \o SeedPart(f) \o PulsePart(f) \o VadPart(f)
  <2> DEFINE begin == IF first THEN <<rate, Symbol(type_offset_CDF, f.typeOffset),
                                      Symbol(gain_CDF[sigtype], f.gain)>>
                      ELSE <<Symbol(type_offset_joint_CDF[prev], f.typeOffset),
                             Symbol(delta_gain_CDF, f.gain)>>
  <2>1. FrameSymbols(f, first, prev) =
          begin \o NlsfPart(f) \o LagPart(f) \o SeedPart(f) \o PulsePart(f) \o VadPart(f)
    BY DEF FrameSymbols, NlsfPart, LagPart, SeedPart, PulsePart, VadPart
  <2>2. begin = IF first THEN <<rate, type, gain>> ELSE <<type, gain>>
    <3>1. CASE first
      <4>1. type = Symbol(type_offset_CDF, f.typeOffset) /\ gain = Symbol(gain_CDF[sigtype], f.gain)
        BY <3>1
      <4> HIDE DEF rate, type, gain
      <4> QED
        BY <3>1, <4>1
    <3>2. CASE ~first
      <4>1. /\ type = Symbol(type_offset_joint_CDF[prev], f.typeOffset)
            /\ gain = Symbol(delta_gain_CDF, f.gain)
        BY <3>2
      <4> HIDE DEF rate, type, gain
      <4> QED
        BY <3>2, <4>1
    <3> QED
      BY <3>1, <3>2
  <2> HIDE DEF begin
  <2> QED
    BY <2>1, <2>2
<1>11. (IF first THEN <<rate, type, gain>> ELSE <<type, gain>>)
         = RatePart(f, first) \o TypePart(f, first, prev) \o GainPart(f, first)
  <2>1. /\ RatePart(f, first) = IF first THEN <<rate>> ELSE <<>>
        /\ TypePart(f, first, prev) = <<type>> /\ GainPart(f, first) = <<gain>>
    BY Zenon DEF RatePart, TypePart, GainPart
  <2> HIDE DEF rate, type, gain
  <2>2. <<rate, type, gain>> = (<<rate>> \o <<type>>) \o <<gain>>
    <3> DEFINE v == <<rate, type, gain>>
               w == (<<rate>> \o <<type>>) \o <<gain>>
    <3>1. <<rate>> \in Seq(Symbols) /\ <<type>> \in Seq(Symbols) /\ <<gain>> \in Seq(Symbols)
      BY <1>3, <1>4
    <3>2. w \in Seq(Symbols) /\ Len(w) = 3 /\ w[1] = rate /\ w[2] = type /\ w[3] = gain
      BY <3>1
    <3>3. v \in Seq(Symbols) /\ Len(v) = 3 /\ v[1] = rate /\ v[2] = type /\ v[3] = gain
      BY <1>3, <1>4
    <3> HIDE DEF v, w
    <3>4. \A i \in 1..3 : v[i] = w[i]
      BY <3>2, <3>3
    <3>5. v = w
      BY <3>2, <3>3, <3>4, SameSequence
    <3> QED
      BY <3>5 DEF v, w
  <2>3. <<type, gain>> = (<<>> \o <<type>>) \o <<gain>>
    <3> DEFINE v == <<type, gain>>
               w == (<<>> \o <<type>>) \o <<gain>>
    <3>1. <<>> \in Seq(Symbols) /\ <<type>> \in Seq(Symbols) /\ <<gain>> \in Seq(Symbols)
      BY <1>3, <1>4
    <3>2. w \in Seq(Symbols) /\ Len(w) = 2 /\ w[1] = type /\ w[2] = gain
      BY <3>1
    <3>3. v \in Seq(Symbols) /\ Len(v) = 2 /\ v[1] = type /\ v[2] = gain
      BY <1>3, <1>4
    <3> HIDE DEF v, w
    <3>4. \A i \in 1..2 : v[i] = w[i]
      BY <3>2, <3>3
    <3>5. v = w
      BY <3>2, <3>3, <3>4, SameSequence
    <3> QED
      BY <3>5 DEF v, w
  <2> QED
    BY <2>1, <2>2, <2>3
<1> QED
  BY <1>9, <1>10, <1>11, Zenon DEF IndexParts

(* The codebook will be that of the rate. *)
Suits(d, fs) == IF d.first THEN d.fs = fs => d.book = BookOf(fs)
                ELSE d.fs = fs /\ d.book = BookOf(fs)

(* What the rate of the packet leaves behind. *)
RateTaken(u, d, fs, r) ==
  /\ u \in Sized(0, 0) /\ u.rc = r /\ u.fs = fs /\ u.book = BookOf(fs)
  /\ u.first = d.first /\ u.typeOffset = d.typeOffset /\ u.lag = d.lag /\ u.q = d.q

(* The rate is read at the start of a packet, and the codebook follows it. *)
LEMMA RateOfPacketTakes ==
  ASSUME NEW d \in Sized(0, 0), NEW f, f.fs \in Rates, Suits(d, f.fs), NEW r,
         Delivers(d.rc, RatePart(f, d.first), r)
  PROVE  RateTaken(ReadRateOfPacket(d), d, f.fs, r)
<1>1. d \in Frames /\ Len(d.sum) = 0 /\ Len(d.shifts) = 0 /\ d.first \in BOOLEAN
  BY FrameParts DEF Sized
<1>2. CASE ~d.first
  <2>1. ReadRateOfPacket(d) = d /\ RatePart(f, d.first) = <<>>
    BY <1>2 DEF ReadRateOfPacket, RatePart
  <2>2. d.rc = r
    BY <2>1, DeliversNothing, Zenon
  <2> QED
    BY <1>2, <2>1, <2>2 DEF RateTaken, Suits
<1>3. CASE d.first
  <2> DEFINE e == Keep(Read(d, SamplingRates_CDF), "fs")
             u == [e EXCEPT !.book = BookOf(e.fs)]
  <2>1. Delivers(d.rc, <<Symbol(SamplingRates_CDF, f.fs)>>, r)
    BY <1>3 DEF RatePart
  <2>2. IsFullTable(SamplingRates_CDF) /\ DOMAIN SamplingRates_CDF = 0..4
    BY IndexTables
  <2>3. FieldTaken(e, d, "fs", f.fs, r)
    BY <1>1, <2>1, <2>2, KeepTakes DEF Indices
  <2>4. ReadRateOfPacket(d) = Tuned(e, d.fs)
    BY <1>3 DEF ReadRateOfPacket
  <2> HIDE DEF e
  <2>5. /\ e \in Frames /\ e.rc = r /\ e.fs = f.fs /\ e.book = d.book /\ e.first = d.first
        /\ e.typeOffset = d.typeOffset /\ e.lag = d.lag /\ e.q = d.q /\ e.sum = d.sum
        /\ e.shifts = d.shifts
    BY <2>3 DEF FieldTaken, Elsewhere
  <2>6. CASE e.fs = d.fs
    <3>1. ReadRateOfPacket(d) = e
      BY <2>4, <2>6 DEF Tuned
    <3>2. e.book = BookOf(f.fs)
      BY <1>3, <2>5, <2>6 DEF Suits
    <3> QED
      BY <1>1, <2>5, <3>1, <3>2 DEF RateTaken, Sized
  <2>7. CASE e.fs # d.fs
    <3>1. ReadRateOfPacket(d) = u
      BY <2>4, <2>7 DEF Tuned
    <3>2. BookOf(e.fs) \in Books
      BY DEF BookOf, Books
    <3>3. u \in Frames
      BY <2>5, <3>2, FrameUpdates
    <3>4. /\ u.rc = r /\ u.fs = f.fs /\ u.book = BookOf(f.fs) /\ u.first = d.first
          /\ u.typeOffset = d.typeOffset /\ u.lag = d.lag /\ u.q = d.q /\ u.sum = d.sum
          /\ u.shifts = d.shifts
      BY <2>5 DEF Frames
    <3> HIDE DEF u
    <3> QED
      BY <1>1, <3>1, <3>3, <3>4 DEF RateTaken, Sized
  <2> QED
    BY <2>6, <2>7
<1> QED
  BY <1>1, <1>2, <1>3

(* What the indices leave behind. *)
IndicesTaken(u, d, f, r) ==
  /\ u \in Sized(0, 0) /\ u.rc = r /\ u.q = d.q /\ u.first = d.first
  /\ u.book = BookOf(f.fs) /\ u.fs = f.fs /\ u.typeOffset = f.typeOffset
  /\ u.gain = f.gain /\ u.nlsf = f.nlsf /\ u.lag = f.lag /\ u.seed = f.seed

(* The symbols of the indices give a frame its indices. *)
LEMMA IndicesTake ==
  ASSUME NEW d \in Sized(0, 0), d.lag = 0, NEW f,
         IsFrame(f, IF d.first THEN gain_CDF[Sigtype(f)] ELSE delta_gain_CDF),
         Suits(d, f.fs), NEW r,
         Delivers(d.rc, IndexParts(f, d.first, d.typeOffset), r)
  PROVE  IndicesTaken(ReadIndices(d), d, f, r)
<1> DEFINE p0 == RatePart(f, d.first)
           p1 == TypePart(f, d.first, d.typeOffset)
           p2 == GainPart(f, d.first)
           p3 == NlsfPart(f)
           p4 == LagPart(f)
           p5 == SeedPart(f)
           e0 == ReadRateOfPacket(d)
           e1 == ReadField(e0, "typeOffset")
           e2 == ReadField(e1, "gain")
           e3 == ReadField(e2, "nlsf")
           e4 == ReadField(e3, "lag")
           e5 == ReadField(e4, "seed")
<1>1. d \in Frames /\ d.first \in BOOLEAN /\ d.typeOffset \in 0..3
  BY FrameParts DEF Sized
<1>2. f.fs \in Rates /\ (Sigtype(f) # VOICED => f.lag = 0)
  BY DEF IsFrame
<1>3. /\ p0 \in Seq(Symbols) /\ p1 \in Seq(Symbols) /\ p2 \in Seq(Symbols) /\ p3 \in Seq(Symbols)
      /\ p4 \in Seq(Symbols) /\ p5 \in Seq(Symbols)
  BY <1>1, FrameInParts DEF PartsAreSymbols
<1>4. Delivers(d.rc, p0 \o p1 \o p2 \o p3 \o p4 \o p5, r)
  BY DEF IndexParts
<1>5. ReadIndices(d) = e5
  BY FieldsInOrder DEF ReadIndices
<1> HIDE DEF p0, p1, p2, p3, p4, p5
<1>6. /\ p0 \o p1 \in Seq(Symbols) /\ p0 \o p1 \o p2 \in Seq(Symbols)
      /\ p0 \o p1 \o p2 \o p3 \in Seq(Symbols) /\ p0 \o p1 \o p2 \o p3 \o p4 \in Seq(Symbols)
  BY <1>3
<1>7. PICK r4 : Delivers(d.rc, p0 \o p1 \o p2 \o p3 \o p4, r4) /\ Delivers(r4, p5, r)
  BY <1>3, <1>4, <1>6, DeliversBoth
<1>8. PICK r3 : Delivers(d.rc, p0 \o p1 \o p2 \o p3, r3) /\ Delivers(r3, p4, r4)
  BY <1>3, <1>6, <1>7, DeliversBoth
<1>9. PICK r2 : Delivers(d.rc, p0 \o p1 \o p2, r2) /\ Delivers(r2, p3, r3)
  BY <1>3, <1>6, <1>8, DeliversBoth
<1>10. PICK r1 : Delivers(d.rc, p0 \o p1, r1) /\ Delivers(r1, p2, r2)
  BY <1>3, <1>6, <1>9, DeliversBoth
<1>11. PICK r0 : Delivers(d.rc, p0, r0) /\ Delivers(r0, p1, r1)
  BY <1>3, <1>10, DeliversBoth
<1> HIDE DEF e0, e1, e2, e3, e4, e5
<1>12. RateTaken(e0, d, f.fs, r0)
  <2>1. Delivers(d.rc, RatePart(f, d.first), r0)
    BY <1>11 DEF p0
  <2> QED
    BY <1>2, <2>1, RateOfPacketTakes DEF e0
<1>13. FieldTaken(e1, e0, "typeOffset", f.typeOffset, r1)
  <2>1. /\ e0 \in Frames /\ e0.rc = r0 /\ e0.first = d.first /\ e0.typeOffset = d.typeOffset
    BY <1>12 DEF RateTaken, Sized
  <2>2. p1 = <<Symbol(Table(e0, "typeOffset"), f.typeOffset)>>
    BY <2>1 DEF Table, p1, TypePart
  <2> QED
    BY <1>11, <2>1, <2>2, ReadFieldTakes DEF Indices, e1
<1>14. /\ e1 \in Frames /\ e1.rc = r1 /\ e1.first = d.first /\ e1.typeOffset = f.typeOffset
       /\ e1.fs = f.fs /\ e1.book = BookOf(f.fs) /\ e1.lag = 0 /\ e1.q = d.q
       /\ Len(e1.sum) = 0 /\ Len(e1.shifts) = 0 /\ Sigtype(e1) = Sigtype(f)
  BY <1>12, <1>13 DEF RateTaken, Sized, FieldTaken, Elsewhere, Sigtype
<1>15. FieldTaken(e2, e1, "gain", f.gain, r2)
  <2>1. p2 = <<Symbol(Table(e1, "gain"), f.gain)>>
    BY <1>14 DEF Table, p2, GainPart
  <2> QED
    BY <1>10, <1>14, <2>1, ReadFieldTakes DEF Indices, e2
<1>16. /\ e2 \in Frames /\ e2.rc = r2 /\ e2.first = d.first /\ e2.typeOffset = f.typeOffset
       /\ e2.fs = f.fs /\ e2.book = BookOf(f.fs) /\ e2.lag = 0 /\ e2.q = d.q
       /\ Len(e2.sum) = 0 /\ Len(e2.shifts) = 0 /\ Sigtype(e2) = Sigtype(f) /\ e2.gain = f.gain
  BY <1>14, <1>15 DEF FieldTaken, Elsewhere, Sigtype
<1>17. FieldTaken(e3, e2, "nlsf", f.nlsf, r3)
  <2>1. p3 = <<Symbol(Table(e2, "nlsf"), f.nlsf)>>
    BY <1>16 DEF Table, p3, NlsfPart
  <2> QED
    BY <1>9, <1>16, <2>1, ReadFieldTakes DEF Indices, e3
<1>18. /\ e3 \in Frames /\ e3.rc = r3 /\ e3.first = d.first /\ e3.typeOffset = f.typeOffset
       /\ e3.fs = f.fs /\ e3.book = BookOf(f.fs) /\ e3.lag = 0 /\ e3.q = d.q
       /\ Len(e3.sum) = 0 /\ Len(e3.shifts) = 0 /\ Sigtype(e3) = Sigtype(f) /\ e3.gain = f.gain
       /\ e3.nlsf = f.nlsf
  BY <1>16, <1>17 DEF FieldTaken, Elsewhere, Sigtype
<1>19. /\ e4 \in Frames /\ e4.rc = r4 /\ e4.first = d.first /\ e4.typeOffset = f.typeOffset
       /\ e4.fs = f.fs /\ e4.book = BookOf(f.fs) /\ e4.lag = f.lag /\ e4.q = d.q
       /\ Len(e4.sum) = 0 /\ Len(e4.shifts) = 0 /\ e4.gain = f.gain /\ e4.nlsf = f.nlsf
  <2>1. CASE Sigtype(f) = VOICED
    <3>1. p4 = <<Symbol(Table(e3, "lag"), f.lag)>>
      BY <1>18, <2>1 DEF Table, p4, LagPart
    <3>2. FieldTaken(e4, e3, "lag", f.lag, r4)
      BY <1>8, <1>18, <2>1, <3>1, ReadFieldTakes DEF Indices, e4
    <3> QED
      BY <1>18, <3>2 DEF FieldTaken, Elsewhere
  <2>2. CASE Sigtype(f) # VOICED
    <3>1. p4 = <<>> /\ e4 = e3
      BY <1>18, <2>2 DEF p4, LagPart, ReadField, e4
    <3>2. r4 = r3
      BY <1>8, <3>1, DeliversNothing, Zenon
    <3> QED
      BY <1>2, <1>18, <2>2, <3>1, <3>2
  <2> QED
    BY <2>1, <2>2
<1>20. FieldTaken(e5, e4, "seed", f.seed, r)
  <2>1. p5 = <<Symbol(Table(e4, "seed"), f.seed)>>
    BY DEF Table, p5, SeedPart
  <2> QED
    BY <1>7, <1>19, <2>1, ReadFieldTakes DEF Indices, e5
<1>21. IndicesTaken(e5, d, f, r)
  BY <1>19, <1>20 DEF IndicesTaken, FieldTaken, Elsewhere, Sized
<1> QED
  BY <1>5, <1>21

(* What a frame and the symbol that ends it leave behind. *)
FrameTaken(u, f, term, r) ==
  /\ u \in Frames /\ u.rc = r /\ FrameOf(u) = f /\ u.term = term
  /\ u.book = BookOf(f.fs) /\ u.fs = f.fs /\ u.typeOffset = f.typeOffset

(* The symbol behind the frame. *)
TermPart(term) == <<Symbol(FrameTermination_CDF, term)>>

(* The symbols of a frame give the decoder that frame. *)
LEMMA FrameTakes ==
  ASSUME NEW rc, NEW d \in Sized(0, 0), d = Unknown(rc), NEW f,
         IsFrame(f, IF d.first THEN gain_CDF[Sigtype(f)] ELSE delta_gain_CDF),
         Suits(d, f.fs), NEW term, IsSymbol(FrameTermination_CDF, term), NEW r,
         Delivers(rc, FrameSymbols(f, d.first, d.typeOffset) \o TermPart(term), r)
  PROVE  FrameTaken(DecodeParameters(rc), f, term, r)
<1> DEFINE part == FrameSymbols(f, d.first, d.typeOffset)
           last == TermPart(term)
           begin == IndexParts(f, d.first, d.typeOffset)
           pulses == PulsePart(f)
           vad == VadPart(f)
           e == ReadIndices(d)
           u == DecodePulses(e)
           v == ReadField(u, "vad")
           t == ReadField(v, "term")
<1>1. d \in Frames /\ d.first \in BOOLEAN /\ d.typeOffset \in 0..3
  BY FrameParts DEF Sized
<1>2. d.rc = rc /\ d.lag = 0 /\ d.q = <<>>
  BY DEF Unknown
<1>3. PartsAreSymbols(f, d.first, d.typeOffset) /\ part = begin \o pulses \o vad
  BY <1>1, FrameInParts
<1>4. /\ f.fs \in Rates /\ f.typeOffset \in 0..3 /\ f.rate \in 0..N_RATE_LEVELS - 2 /\ f.q \in Pulses
      /\ f = [fs |-> f.fs, typeOffset |-> f.typeOffset, gain |-> f.gain, nlsf |-> f.nlsf, lag |-> f.lag,
              seed |-> f.seed, rate |-> f.rate, q |-> f.q, vad |-> f.vad]
  BY DEF IsFrame
<1>5. DecodeParameters(rc) = t
  BY FieldsInOrder DEF DecodeParameters
<1>6. last \in Seq(Symbols)
  <2>1. IsFullTable(FrameTermination_CDF)
    BY IndexTables
  <2>2. Symbol(FrameTermination_CDF, term) \in Symbols
    BY <2>1, SymbolOfFullTable
  <2> QED
    BY <2>2 DEF TermPart
<1>7. begin \in Seq(Symbols) /\ pulses \in Seq(Symbols) /\ vad \in Seq(Symbols)
  <2> DEFINE p0 == RatePart(f, d.first)
             p1 == TypePart(f, d.first, d.typeOffset)
             p2 == GainPart(f, d.first)
             p3 == NlsfPart(f)
             p4 == LagPart(f)
             p5 == SeedPart(f)
  <2>1. /\ p0 \in Seq(Symbols) /\ p1 \in Seq(Symbols) /\ p2 \in Seq(Symbols) /\ p3 \in Seq(Symbols)
        /\ p4 \in Seq(Symbols) /\ p5 \in Seq(Symbols) /\ pulses \in Seq(Symbols) /\ vad \in Seq(Symbols)
    BY <1>3 DEF PartsAreSymbols
  <2>2. begin = p0 \o p1 \o p2 \o p3 \o p4 \o p5
    BY DEF IndexParts
  <2> HIDE DEF p0, p1, p2, p3, p4, p5, begin, pulses, vad
  <2> QED
    BY <2>1, <2>2
<1>8. Delivers(rc, part \o last, r)
  OBVIOUS
<1> HIDE DEF part, last, begin, pulses, vad
<1>9. begin \o pulses \in Seq(Symbols) /\ part \in Seq(Symbols)
  BY <1>3, <1>7
<1>10. PICK r3 : Delivers(rc, part, r3) /\ Delivers(r3, last, r)
  BY <1>6, <1>8, <1>9, DeliversBoth
<1>11. PICK r2 : Delivers(rc, begin \o pulses, r2) /\ Delivers(r2, vad, r3)
  BY <1>3, <1>7, <1>9, <1>10, DeliversBoth
<1>12. PICK r1 : Delivers(rc, begin, r1) /\ Delivers(r1, pulses, r2)
  BY <1>7, <1>11, DeliversBoth
<1>13. IndicesTaken(e, d, f, r1)
  <2>1. Delivers(d.rc, IndexParts(f, d.first, d.typeOffset), r1)
    BY <1>2, <1>12 DEF begin
  <2> QED
    BY <1>2, <2>1, IndicesTake
<1>14. u = DecodePulses(e) /\ v = ReadField(u, "vad") /\ t = ReadField(v, "term")
  BY <1>2
<1>15. DecodeParameters(rc) = t
  BY <1>5
<1> HIDE DEF e, u, v, t
<1>16. /\ e \in Sized(0, 0) /\ e.q = <<>> /\ e.rc = r1 /\ Sigtype(e) = Sigtype(f)
       /\ QuantOffsetType(e) = QuantOffsetType(f)
  BY <1>2, <1>13 DEF IndicesTaken, Sigtype, QuantOffsetType
<1>17. PulsesTaken(u, e, f.q, f.rate, r2)
  <2>1. Delivers(e.rc, PulseSymbols(f.q, Sigtype(e), QuantOffsetType(e), f.rate), r2)
    BY <1>12, <1>16 DEF pulses, PulsePart
  <2> QED
    BY <1>4, <1>14, <1>16, <2>1, DecodePulsesTakes
<1>18. /\ u \in Frames /\ u.rc = r2 /\ u.q = f.q /\ u.rate = f.rate
       /\ u.book = e.book /\ u.fs = e.fs /\ u.typeOffset = e.typeOffset
       /\ u.gain = e.gain /\ u.nlsf = e.nlsf /\ u.lag = e.lag /\ u.seed = e.seed
  BY <1>17 DEF PulsesTaken, Params, WithRate
<1>19. FieldTaken(v, u, "vad", f.vad, r3)
  <2>1. vad = <<Symbol(Table(u, "vad"), f.vad)>>
    BY DEF Table, vad, VadPart
  <2> QED
    BY <1>11, <1>14, <1>18, <2>1, ReadFieldTakes DEF Indices
<1>20. FieldTaken(t, v, "term", term, r)
  <2>1. v \in Frames /\ v.rc = r3
    BY <1>19 DEF FieldTaken
  <2>2. last = <<Symbol(Table(v, "term"), term)>>
    BY DEF Table, last, TermPart
  <2> QED
    BY <1>10, <1>14, <2>1, <2>2, ReadFieldTakes DEF Indices
<1>21. /\ t \in Frames /\ t.rc = r /\ t.term = term /\ t.vad = f.vad /\ t.q = f.q /\ t.rate = f.rate
       /\ t.book = BookOf(f.fs) /\ t.fs = f.fs /\ t.typeOffset = f.typeOffset /\ t.gain = f.gain
       /\ t.nlsf = f.nlsf /\ t.lag = f.lag /\ t.seed = f.seed
  BY <1>13, <1>18, <1>19, <1>20 DEF FieldTaken, Elsewhere, IndicesTaken
<1>22. FrameOf(t) = f
  BY <1>4, <1>21 DEF FrameOf
<1> QED
  BY <1>15, <1>21, <1>22 DEF FrameTaken

-----------------------------------------------------------------------------
(* What a symbol takes of the payload: the bits that tell the interval of a coder
   from others of its size. *)
Bits(e) == LengthInBits(Len(e.buffer), e.range)

(* The number of bits of a range falls as the range does. *)
LEMMA BitsFall ==
  ASSUME NEW r \in B..B2 - 1, NEW r2 \in B..B2 - 1, NEW p \in Nat, NEW m \in Nat,
         r2 * 2^m <= r * 2^p
  PROVE  BitLength(r2 - 1) + m <= BitLength(r - 1) + p
<1> DEFINE k == BitLength(r - 1)
           k2 == BitLength(r2 - 1)
<1>1. /\ r - 1 \in Nat /\ r - 1 < B2 /\ r2 - 1 \in Nat /\ r2 - 1 < B2 /\ r2 - 1 >= 1
      /\ r \in Nat /\ r2 \in Nat
  BY Powers
<1>2. k \in Nat /\ r - 1 < 2^k
  BY <1>1, BitLengthIs
<1>3. k2 \in Nat /\ r2 - 1 < 2^k2 /\ (k2 = 0 \/ 2^(k2 - 1) <= r2 - 1)
  BY <1>1, BitLengthIs
<1> HIDE DEF k, k2
<1>4. k2 # 0
  <2>1. 2^0 = 1
    BY PowerOfTwo
  <2>2. SUFFICES ASSUME k2 = 0 PROVE FALSE
    OBVIOUS
  <2>3. r2 - 1 < 2^0
    BY <1>3, <2>2
  <2> QED
    BY <1>1, <2>1, <2>3
<1> DEFINE j == k2 - 1
           P == 2^j
           M == 2^m
           K == 2^k
           S == 2^p
<1>5. j \in Nat /\ k2 = j + 1
  BY <1>3, <1>4
<1>6. P <= r2 - 1
  BY <1>3, <1>4
<1> HIDE DEF j
<1>7. P \in Nat /\ M \in Nat /\ M >= 1 /\ K \in Nat /\ S \in Nat
  BY <1>2, <1>5, PowersGrow
<1>8. 2^(j + m) = P * M /\ 2^(k + p) = K * S /\ j + m \in Nat /\ k + p \in Nat
  BY <1>2, <1>5, PowersGrow
<1>9. k + p <= j + m => 2^(k + p) <= 2^(j + m)
  BY <1>8, PowersGrow
<1>10. r \in Nat /\ r <= K /\ r2 * M <= r * S
  BY <1>1, <1>2, <1>7
<1> HIDE DEF P, M, K, S
<1>11. P * M + M <= r2 * M
  <2>1. (P + 1) * M <= r2 * M
    <3>1. P + 1 \in Nat /\ P + 1 <= r2
      BY <1>1, <1>6, <1>7
    <3> QED
      BY <1>1, <1>7, <3>1
  <2> QED
    BY <1>7, <2>1
<1>12. r * S <= K * S
  BY <1>7, <1>10
<1>13. P * M < K * S
  <2> DEFINE y1 == P * M
             y2 == r2 * M
             y3 == r * S
             y4 == K * S
  <2>1. y1 \in Nat /\ y2 \in Nat /\ y3 \in Nat /\ y4 \in Nat
    BY <1>1, <1>7
  <2>2. y1 + M <= y2 /\ y2 <= y3 /\ y3 <= y4
    BY <1>10, <1>11, <1>12
  <2> HIDE DEF y1, y2, y3, y4
  <2>3. y1 < y4
    BY <1>7, <2>1, <2>2
  <2> QED
    BY <2>3 DEF y1, y4
<1>14. ~(k + p <= j + m)
  <2> SUFFICES ASSUME k + p <= j + m PROVE FALSE
    OBVIOUS
  <2>1. K * S <= P * M
    BY <1>8, <1>9
  <2>2. K * S \in Nat /\ P * M \in Nat
    BY <1>7
  <2> QED
    BY <1>13, <2>1, <2>2
<1>15. k2 + m <= k + p
  BY <1>2, <1>5, <1>14
<1> QED
  BY <1>15 DEF k, k2

(* A symbol of such a table takes so many bits or more. *)
LEMMA SymbolTakesBits ==
  ASSUME NEW e, Normal(e), NEW s \in Symbols, NEW m \in Nat,
         (s.cdf[s.data + 1] - s.cdf[s.data]) * 2^m <= B2,
         RangeEncode(e, s.cdf, s.data).error = OK
  PROVE  Bits(e) + m <= Bits(RangeEncode(e, s.cdf, s.data))
<1> DEFINE next == RangeEncode(e, s.cdf, s.data)
           w == Width(e, s.cdf, s.data)
           n == Normalization(w)
           r == e.range
           r2 == Narrowed(w)
           h == s.cdf[s.data + 1] - s.cdf[s.data]
           M == 2^m
           S == Scale(n)
<1>1. HasInterval(s.cdf, s.data)
  BY DEF Symbols, Codeable
<1>2. /\ e.error = OK /\ next.range = r2 /\ Len(next.buffer) = Len(e.buffer) + n
  BY <1>1, EncodeMoves
<1>3. w \in Widths /\ w \in Nat
  BY <1>1, <1>2, SymbolFits
<1>4. /\ r2 \in B..B2 - 1 /\ n \in 0..2
      /\ n = 0 => r2 * B2 <= w
      /\ n = 1 => r2 * B <= w
      /\ n = 2 => r2 = w
  BY <1>3, Normalized
<1>5. /\ r \in B..B2 - 1 /\ r \in Nat /\ Len(e.buffer) \in Nat /\ b \in Nat
  BY NormalTypes, ByteAssumption
<1>6. h \in Nat /\ w = r * h
  BY <1>1 DEF HasInterval, Width
<1>7. M \in Nat /\ h * M <= B2
  BY PowersGrow
<1> HIDE DEF w, h, M, r
<1> DEFINE p == b * n
<1>8. S \in Nat /\ S = 2^p /\ p \in Nat
  <2>1. 2^(b + b) = 2^b * 2^b /\ 2^b = B /\ 2^0 = 1
    BY <1>5, PowersGrow, PowerOfTwo, ByteAssumption
  <2>2. n = 0 => p = 0 /\ S = 1
    BY <1>5 DEF Scale
  <2>3. n = 1 => p = b /\ S = B
    BY <1>5 DEF Scale
  <2>4. n = 2 => p = b + b /\ S = B2
    BY <1>5 DEF Scale
  <2> HIDE DEF n, p, S
  <2>5. CASE n = 0
    BY <2>1, <2>2, <2>5
  <2>6. CASE n = 1
    BY <1>5, <2>1, <2>3, <2>6, Powers
  <2>7. CASE n = 2
    BY <1>5, <2>1, <2>4, <2>7, Powers
  <2> QED
    BY <1>4, <2>5, <2>6, <2>7
<1>9. r2 * B2 <= w * S
  <2>1. CASE n = 0
    <3>1. S = 1
      BY <2>1 DEF Scale
    <3> QED
      BY <1>3, <1>4, <2>1, <3>1
  <2>2. CASE n = 1
    <3>1. S = B
      BY <2>2 DEF Scale
    <3> HIDE DEF r2
    <3>2. r2 * B \in Nat /\ (r2 * B) * B <= w * B /\ (r2 * B) * B = r2 * B2
      BY <1>3, <1>4, <2>2, Powers
    <3> QED
      BY <3>1, <3>2
  <2>3. CASE n = 2
    <3>1. S = B2
      BY <2>3 DEF Scale
    <3>2. r2 * B2 = w * B2 /\ w * B2 \in Nat
      BY <1>3, <1>4, <2>3, Powers
    <3> QED
      BY <3>1, <3>2
  <2> HIDE DEF n
  <2> QED
    BY <1>4, <2>1, <2>2, <2>3
<1>10. p \in Nat /\ S = 2^p
  BY <1>8
<1> HIDE DEF S, r2, n, p
<1>11. r2 * M <= r * S
  <2>1. r2 \in Nat
    BY <1>4, Powers
  <2>2. (r2 * B2) * M <= (w * S) * M
    <3>1. r2 * B2 \in Nat /\ w * S \in Nat
      BY <1>3, <1>8, <2>1, Powers
    <3> QED
      BY <1>7, <1>9, <3>1
  <2>3. (w * S) * M = (r * S) * (h * M)
    BY <1>5, <1>6, <1>7, <1>8
  <2>4. (r * S) * (h * M) <= (r * S) * B2
    <3>1. r * S \in Nat /\ h * M \in Nat
      BY <1>5, <1>6, <1>7, <1>8
    <3> QED
      BY <1>7, <3>1, Powers
  <2> DEFINE y1 == r2 * M
             y2 == r * S
  <2>5. y1 \in Nat /\ y2 \in Nat /\ (r2 * B2) * M = y1 * B2
    BY <1>5, <1>7, <1>8, <2>1, Powers
  <2>6. y1 * B2 <= y2 * B2
    <3> DEFINE z1 == (w * S) * M
               z2 == (r * S) * (h * M)
    <3>1. z1 = z2 /\ (r2 * B2) * M <= z1 /\ z2 <= y2 * B2
      BY <2>2, <2>3, <2>4
    <3>2. z1 \in Nat
      BY <1>3, <1>7, <1>8
    <3> HIDE DEF z1, z2
    <3>3. y1 * B2 \in Nat /\ y2 * B2 \in Nat
      BY <2>5, Powers
    <3> HIDE DEF y1, y2
    <3> QED
      BY <2>5, <3>1, <3>2, <3>3
  <2> HIDE DEF y1, y2
  <2>7. y1 <= y2
    <3> SUFFICES ASSUME y1 > y2 PROVE FALSE
      BY <2>5
    <3>1. y1 >= y2 + 1
      BY <2>5
    <3>2. y1 * B2 >= (y2 + 1) * B2 /\ (y2 + 1) * B2 = y2 * B2 + B2 /\ y1 * B2 \in Nat /\ y2 * B2 \in Nat
      BY <2>5, <3>1, Powers
    <3> QED
      BY <2>6, <3>2, Powers
  <2> QED
    BY <2>7 DEF y1, y2
<1>12. BitLength(r2 - 1) + m <= BitLength(r - 1) + p
  BY <1>4, <1>5, <1>10, <1>11, BitsFall DEF M
<1>13. BitLength(r - 1) \in Nat /\ BitLength(r2 - 1) \in Nat
  <2>1. r - 1 \in Nat /\ r - 1 < B2 /\ r2 - 1 \in Nat /\ r2 - 1 < B2
    BY <1>4, <1>5, Powers
  <2> QED
    BY <2>1, BitLengthIs
<1> DEFINE l == Len(e.buffer)
           y == b * l
<1>14. b * (l + n) = y + p
  <2>1. l \in Nat /\ n \in Nat /\ b \in Nat
    BY <1>4, <1>5
  <2> HIDE DEF l
  <2>2. b * (l + n) = b * l + b * n
    BY <2>1
  <2> QED
    BY <2>2 DEF p
<1>15. y \in Nat /\ 2 * b \in Nat
  BY <1>5
<1>16. /\ Bits(e) = y + (2 * b + 2 - BitLength(r - 1))
       /\ Bits(next) = y + p + (2 * b + 2 - BitLength(r2 - 1))
  BY <1>2, <1>14 DEF Bits, LengthInBits, BitsToStore, r
<1> DEFINE k == BitLength(r - 1)
           k2 == BitLength(r2 - 1)
           c == 2 * b
<1> HIDE DEF y, next, k, k2, c
<1>17. Bits(e) + m <= Bits(next)
  <2>1. Bits(e) = y + (c + 2 - k) /\ Bits(next) = y + p + (c + 2 - k2)
    BY <1>16 DEF c, k, k2
  <2>2. y \in Nat /\ c \in Nat /\ k \in Nat /\ k2 \in Nat /\ k2 + m <= k + p
    BY <1>12, <1>13, <1>15 DEF c, k, k2
  <2> QED
    BY <1>10, <2>1, <2>2
<1> QED
  BY <1>17 DEF next

(* One part after the other is encoded. *)
LEMMA EncodeBoth ==
  ASSUME NEW e, Normal(e), NEW p \in Seq(Symbols), NEW q \in Seq(Symbols)
  PROVE  EncodeSymbols(e, p \o q) = EncodeSymbols(EncodeSymbols(e, p), q)
<1> DEFINE part == p \o q
           k == Len(p)
           n == Len(q)
<1>1. /\ part \in Seq(Symbols) /\ k \in Nat /\ n \in Nat /\ Len(part) = k + n
      /\ \A i \in 1..k : part[i] = p[i] /\ i \in 1..Len(part)
      /\ \A i \in 1..n : /\ part[k + i] = q[i] /\ k + i \in 1..Len(part) /\ (k + i) - 1 = k + (i - 1)
                         /\ i \in 0..n /\ i - 1 \in 0..n
      /\ 0 \in 0..n /\ n \in 0..n /\ k + 0 = k
  OBVIOUS
<1> HIDE DEF part
<1>2. PICK w : IsEncoded(w, e, part)
  BY <1>1, EncodedAlong, Zenon
<1>3. /\ w[0] = e /\ w[Len(part)] = EncodeSymbols(e, part)
      /\ \A i \in 1..Len(part) : w[i] = RangeEncode(w[i - 1], part[i].cdf, part[i].data)
  BY <1>2, Zenon DEF IsEncoded
<1> HIDE DEF k, n
<1> DEFINE c == w[k]
           v == [i \in 0..n |-> w[k + i]]
<1>4. EncodeSymbols(e, p) = c
  <2>1. \A i \in 1..k : w[i] = RangeEncode(w[i - 1], p[i].cdf, p[i].data)
    BY <1>1, <1>3
  <2>2. k \in Nat /\ w[0] = e
    BY <1>1, <1>3
  <2> QED
    BY <2>1, <2>2, EncodeFollows, Zenon DEF k
<1>5. v[0] = c /\ v[n] = w[Len(part)] /\ \A i \in 1..n : v[i] = w[k + i] /\ v[i - 1] = w[k + (i - 1)]
  BY <1>1
<1> HIDE DEF v, c
<1>6. \A i \in 1..n : v[i] = RangeEncode(v[i - 1], q[i].cdf, q[i].data)
  <2> TAKE i \in 1..n
  <2> DEFINE l == k + i
  <2>1. l \in 1..Len(part) /\ part[l] = q[i] /\ v[i] = w[l] /\ v[i - 1] = w[l - 1]
    BY <1>1, <1>5
  <2> HIDE DEF l
  <2> QED
    BY <1>3, <2>1
<1>7. EncodeSymbols(c, q) = v[n]
  <2>1. n \in Nat /\ v[0] = c
    BY <1>1, <1>5
  <2> QED
    BY <1>6, <2>1, EncodeFollows, Zenon DEF n
<1> QED
  BY <1>3, <1>4, <1>5, <1>7 DEF part

(* One symbol is encoded. *)
LEMMA EncodeOne ==
  ASSUME NEW e, NEW s
  PROVE  EncodeSymbols(e, <<s>>) = RangeEncode(e, s.cdf, s.data)
<1> DEFINE part == <<s>>
           next == RangeEncode(e, s.cdf, s.data)
           w == [i \in 0..1 |-> IF i = 0 THEN e ELSE next]
<1>1. Len(part) = 1 /\ part[1] = s /\ w[0] = e /\ w[1] = next
  OBVIOUS
<1> HIDE DEF w, part
<1>2. \A i \in 1..1 : w[i] = RangeEncode(w[i - 1], part[i].cdf, part[i].data)
  <2>1. w[1] = RangeEncode(w[1 - 1], part[1].cdf, part[1].data)
    BY <1>1
  <2> QED
    BY <2>1
<1>3. Len(part) \in Nat /\ w[0] = e
  BY <1>1
<1>4. EncodeSymbols(e, part) = w[Len(part)]
  <2>1. \A i \in 1..Len(part) : w[i] = RangeEncode(w[i - 1], part[i].cdf, part[i].data)
    BY <1>1, <1>2
  <2> QED
    BY <1>3, <2>1, EncodeFollows, Zenon
<1> QED
  BY <1>1, <1>4 DEF part

(* Bits are natural numbers. *)
LEMMA BitsAre ==
  ASSUME NEW e, Normal(e)
  PROVE  Bits(e) \in Nat
<1>1. e.range \in B..B2 - 1 /\ Len(e.buffer) \in Nat /\ b \in Nat
  BY NormalTypes, ByteAssumption
<1>2. BitsToStore(e.range) \in Nat
  BY <1>1, StoreIs
<1> DEFINE l == Len(e.buffer)
<1>3. b * l \in Nat
  BY <1>1
<1> HIDE DEF l
<1> QED
  BY <1>2, <1>3 DEF Bits, LengthInBits, l

(* No part of the stream gives bits back. *)
LEMMA BitsStay ==
  ASSUME NEW e, Normal(e), NEW part \in Seq(Symbols), EncodeSymbols(e, part).error = OK
  PROVE  e.error = OK /\ Bits(e) <= Bits(EncodeSymbols(e, part))
<1> DEFINE n == Len(part)
           end == EncodeSymbols(e, part)
<1>1. PICK w : IsEncoded(w, e, part)
  BY EncodedAlong, Zenon
<1>2. n \in Nat /\ \A i \in 1..n : part[i] \in Symbols
  OBVIOUS
<1> HIDE DEF n
<1> DEFINE N == {i \in 0..n : w[i].error = OK /\ Bits(w[i]) <= Bits(end)}
<1>3. w[0] = e /\ w[n] = end /\ (\A i \in 0..n : Normal(w[i])) /\ end.error = OK
  BY <1>1 DEF IsEncoded, n
<1> HIDE DEF end
<1>4. Bits(end) \in Nat /\ n \in N
  BY <1>2, <1>3, BitsAre
<1>5. \A i \in 0..n - 1 : i + 1 \in N => i \in N
  <2> SUFFICES ASSUME NEW i \in 0..n - 1, i + 1 \in N PROVE i \in N
    OBVIOUS
  <2> DEFINE s == part[i + 1]
             c == w[i]
             next == RangeEncode(c, s.cdf, s.data)
  <2>1. i + 1 \in 1..n /\ (i + 1) - 1 = i /\ i \in 0..n /\ i + 1 \in 0..n
    BY <1>2
  <2>2. w[i + 1] = next /\ Normal(c) /\ s \in Symbols
    BY <1>1, <1>2, <2>1 DEF IsEncoded, n
  <2>3. next.error = OK /\ Bits(next) <= Bits(end)
    BY <2>2
  <2>4. HasInterval(s.cdf, s.data)
    BY <2>2 DEF Symbols, Codeable
  <2>5. c.error = OK /\ Normal(next)
    BY <2>2, <2>3, <2>4, EncodeMoves, EncoderStaysNormal
  <2>6. (s.cdf[s.data + 1] - s.cdf[s.data]) * 2^0 <= B2
    <3>1. 2^0 = 1
      BY PowerOfTwo
    <3>2. s.cdf[s.data + 1] - s.cdf[s.data] \in Nat /\ s.cdf[s.data + 1] - s.cdf[s.data] <= B2
      BY <2>4, Powers DEF HasInterval
    <3> HIDE DEF s
    <3> QED
      BY <3>1, <3>2
  <2>7. 0 \in Nat
    OBVIOUS
  <2>8. Bits(c) + 0 <= Bits(next)
    BY <2>2, <2>3, <2>6, <2>7, SymbolTakesBits, Zenon
  <2>9. Bits(c) \in Nat /\ Bits(next) \in Nat
    BY <2>2, <2>5, BitsAre
  <2> HIDE DEF next, c, s
  <2>10. Bits(c) <= Bits(end)
    BY <1>4, <2>3, <2>8, <2>9
  <2> QED
    BY <2>1, <2>5, <2>10 DEF c
<1> HIDE DEF N
<1>6. 0..n \subseteq N
  BY <1>2, <1>4, <1>5, InductionDownFrom, Zenon
<1>7. 0 \in N
  BY <1>2, <1>6
<1> QED
  BY <1>3, <1>7 DEF N, end

(* A part with a symbol that takes so many bits takes them. *)
LEMMA PartTakesBits ==
  ASSUME NEW e, Normal(e), NEW p \in Seq(Symbols), NEW s \in Symbols, NEW m \in Nat,
         TakesBits(s.cdf, m), EncodeSymbols(EncodeSymbols(e, p), <<s>>).error = OK
  PROVE  Bits(e) + m <= Bits(EncodeSymbols(EncodeSymbols(e, p), <<s>>))
<1> DEFINE c == EncodeSymbols(e, p)
           next == RangeEncode(c, s.cdf, s.data)
<1>1. Normal(c)
  BY EncodedIsNormal
<1>2. EncodeSymbols(c, <<s>>) = next
  BY EncodeOne
<1>3. HasInterval(s.cdf, s.data) /\ IsSymbol(s.cdf, s.data)
  <2>1. PICK n \in Nat : DOMAIN s.cdf = 0..n /\ s.data \in 0..n - 1
    BY DEF Symbols, Codeable
  <2>2. s.data \in 0..n /\ s.data + 1 \in 0..n
    BY <2>1
  <2> QED
    BY <2>1, <2>2 DEF Symbols, Codeable, IsSymbol
<1>4. next.error = OK
  BY <1>2
<1> HIDE DEF c
<1>5. c.error = OK /\ Normal(next)
  BY <1>1, <1>3, <1>4, EncodeMoves, EncoderStaysNormal
<1>6. Bits(e) <= Bits(c)
  BY <1>5, BitsStay DEF c
<1>7. (s.cdf[s.data + 1] - s.cdf[s.data]) * 2^m <= B2
  BY <1>3 DEF TakesBits, IsSymbol
<1>8. Bits(c) + m <= Bits(next)
  BY <1>1, <1>4, <1>7, SymbolTakesBits, Zenon
<1>9. Bits(e) \in Nat /\ Bits(c) \in Nat /\ Bits(next) \in Nat
  BY <1>1, <1>5, BitsAre
<1> HIDE DEF next
<1>10. Bits(e) + m <= Bits(next)
  BY <1>6, <1>8, <1>9
<1> QED
  BY <1>2, <1>10 DEF c

(* A frame with the symbol that ends it. *)
FramePart(f, first, prev, term) == FrameSymbols(f, first, prev) \o TermPart(term)

(* What a frame puts into the payload are symbols of their tables. *)
LEMMA FramePartIs ==
  ASSUME NEW f, NEW prev \in 0..3, NEW first \in BOOLEAN,
         IsFrame(f, IF first THEN gain_CDF[Sigtype(f)] ELSE delta_gain_CDF),
         NEW term, IsSymbol(FrameTermination_CDF, term)
  PROVE  /\ TermPart(term) \in Seq(Symbols) /\ FramePart(f, first, prev, term) \in Seq(Symbols)
<1>1. IsFullTable(FrameTermination_CDF)
  BY IndexTables
<1>2. Symbol(FrameTermination_CDF, term) \in Symbols
  BY <1>1, SymbolOfFullTable
<1>3. TermPart(term) \in Seq(Symbols)
  BY <1>2 DEF TermPart
<1>4. FrameSymbols(f, first, prev) \in Seq(Symbols)
  BY FrameSymbolsAre
<1> QED
  BY <1>3, <1>4 DEF FramePart

(* The path of the NLSF and the seed of a frame take a byte. *)
LEMMA FrameTakesByte ==
  ASSUME NEW e, Normal(e), NEW f, NEW prev \in 0..3, NEW first \in BOOLEAN,
         IsFrame(f, IF first THEN gain_CDF[Sigtype(f)] ELSE delta_gain_CDF),
         NEW term, IsSymbol(FrameTermination_CDF, term),
         EncodeSymbols(e, FramePart(f, first, prev, term)).error = OK
  PROVE  Bits(e) + b <= Bits(EncodeSymbols(e, FramePart(f, first, prev, term)))
<1> DEFINE front == RatePart(f, first) \o TypePart(f, first, prev) \o GainPart(f, first)
           nlsf == Symbol(NLSF_CDF[BookOf(f.fs)][Sigtype(f)], f.nlsf)
           lag == LagPart(f)
           seed == Symbol(Seed_CDF, f.seed)
           pulses == PulsePart(f)
           vad == VadPart(f)
           end == TermPart(term)
           part == FramePart(f, first, prev, term)
           begin == front \o <<nlsf>> \o lag
           c1 == EncodeSymbols(e, front)
           c2 == EncodeSymbols(c1, <<nlsf>>)
           c3 == EncodeSymbols(c2, lag)
           c4 == EncodeSymbols(c3, <<seed>>)
           c5 == EncodeSymbols(c4, pulses)
           c6 == EncodeSymbols(c5, vad)
           c7 == EncodeSymbols(c6, end)
<1>1. PICK bits \in 0..b : /\ TakesBits(Seed_CDF, b - bits)
                           /\ \A book \in Books, sigtype \in 0..1 : TakesBits(NLSF_CDF[book][sigtype], bits)
  BY FramesAreLong
<1>2. b \in Nat /\ bits \in Nat /\ b - bits \in Nat /\ bits + (b - bits) = b
  BY <1>1, ByteAssumption
<1>3. /\ front \in Seq(Symbols) /\ <<nlsf>> \in Seq(Symbols) /\ lag \in Seq(Symbols)
      /\ <<seed>> \in Seq(Symbols) /\ pulses \in Seq(Symbols) /\ vad \in Seq(Symbols)
      /\ end \in Seq(Symbols)
  <2>1. PartsAreSymbols(f, first, prev) /\ end \in Seq(Symbols)
    BY FrameInParts, FramePartIs
  <2> DEFINE p0 == RatePart(f, first)
             p1 == TypePart(f, first, prev)
             p2 == GainPart(f, first)
  <2>2. p0 \in Seq(Symbols) /\ p1 \in Seq(Symbols) /\ p2 \in Seq(Symbols)
    BY <2>1 DEF PartsAreSymbols
  <2>3. <<nlsf>> = NlsfPart(f) /\ <<seed>> = SeedPart(f)
    BY DEF NlsfPart, SeedPart
  <2>4. /\ <<nlsf>> \in Seq(Symbols) /\ lag \in Seq(Symbols) /\ <<seed>> \in Seq(Symbols)
        /\ pulses \in Seq(Symbols) /\ vad \in Seq(Symbols)
    BY <2>1, <2>3 DEF PartsAreSymbols
  <2> HIDE DEF p0, p1, p2
  <2>5. p0 \o p1 \o p2 \in Seq(Symbols)
    BY <2>2
  <2> QED
    BY <2>1, <2>4, <2>5 DEF p0, p1, p2
<1>4. nlsf \in Symbols /\ seed \in Symbols
  <2>1. <<nlsf>>[1] = nlsf /\ <<seed>>[1] = seed /\ Len(<<nlsf>>) = 1 /\ Len(<<seed>>) = 1
    OBVIOUS
  <2> HIDE DEF nlsf, seed
  <2> QED
    BY <1>3, <2>1
<1>5. TakesBits(nlsf.cdf, bits) /\ TakesBits(seed.cdf, b - bits)
  <2>1. f.typeOffset \in 0..3
    BY DEF IsFrame
  <2>2. Sigtype(f) \in 0..1 /\ BookOf(f.fs) \in Books
    BY <2>1 DEF Sigtype, BookOf, Books
  <2> QED
    BY <1>1, <2>2 DEF Symbol
<1> DEFINE a1 == front \o <<nlsf>>
           a2 == a1 \o lag
           a3 == a2 \o <<seed>>
           a4 == a3 \o pulses
           a5 == a4 \o vad
<1>6. part = a5 \o end
  <2>1. FrameSymbols(f, first, prev) = IndexParts(f, first, prev) \o pulses \o vad
    BY FrameInParts
  <2>2. IndexParts(f, first, prev) = a3
    BY Zenon DEF IndexParts, NlsfPart, SeedPart
  <2> HIDE DEF a3, pulses, vad, end
  <2> QED
    BY <2>1, <2>2, Zenon DEF FramePart, end
<1> HIDE DEF front, nlsf, lag, seed, pulses, vad, end, part
<1>7. /\ a1 \in Seq(Symbols) /\ a2 \in Seq(Symbols) /\ a3 \in Seq(Symbols)
      /\ a4 \in Seq(Symbols) /\ a5 \in Seq(Symbols)
  BY <1>3
<1>8. Normal(c1) /\ Normal(c2) /\ Normal(c3) /\ Normal(c4) /\ Normal(c5) /\ Normal(c6) /\ Normal(c7)
  <2>1. Normal(c1)
    BY <1>3, EncodedIsNormal
  <2>2. Normal(c2)
    BY <1>3, <2>1, EncodedIsNormal
  <2>3. Normal(c3)
    BY <1>3, <2>2, EncodedIsNormal
  <2>4. Normal(c4)
    BY <1>3, <2>3, EncodedIsNormal
  <2>5. Normal(c5)
    BY <1>3, <2>4, EncodedIsNormal
  <2>6. Normal(c6)
    BY <1>3, <2>5, EncodedIsNormal
  <2>7. Normal(c7)
    BY <1>3, <2>6, EncodedIsNormal
  <2> QED
    BY <2>1, <2>2, <2>3, <2>4, <2>5, <2>6, <2>7
<1>9. EncodeSymbols(e, part) = c7
  <2>1. EncodeSymbols(e, a1) = c2
    <3>1. front \in Seq(Symbols) /\ <<nlsf>> \in Seq(Symbols)
      BY <1>3
    <3> HIDE DEF c1
    <3>2. EncodeSymbols(e, a1) = EncodeSymbols(EncodeSymbols(e, front), <<nlsf>>)
      BY <3>1, EncodeBoth, Zenon
    <3> QED
      BY <3>2 DEF c1
  <2> HIDE DEF a1, c2
  <2>2. EncodeSymbols(e, a2) = c3
    <3>1. a1 \in Seq(Symbols) /\ lag \in Seq(Symbols)
      BY <1>3, <1>7
    <3>2. EncodeSymbols(e, a2) = EncodeSymbols(EncodeSymbols(e, a1), lag)
      BY <3>1, EncodeBoth, Zenon
    <3> QED
      BY <2>1, <3>2, Zenon
  <2> HIDE DEF a2, c3
  <2>3. EncodeSymbols(e, a3) = c4
    <3>1. a2 \in Seq(Symbols) /\ <<seed>> \in Seq(Symbols)
      BY <1>3, <1>7
    <3>2. EncodeSymbols(e, a3) = EncodeSymbols(EncodeSymbols(e, a2), <<seed>>)
      BY <3>1, EncodeBoth, Zenon
    <3> QED
      BY <2>2, <3>2, Zenon
  <2> HIDE DEF a3, c4
  <2>4. EncodeSymbols(e, a4) = c5
    <3>1. a3 \in Seq(Symbols) /\ pulses \in Seq(Symbols)
      BY <1>3, <1>7
    <3>2. EncodeSymbols(e, a4) = EncodeSymbols(EncodeSymbols(e, a3), pulses)
      BY <3>1, EncodeBoth, Zenon
    <3> QED
      BY <2>3, <3>2, Zenon
  <2> HIDE DEF a4, c5
  <2>5. EncodeSymbols(e, a5) = c6
    <3>1. a4 \in Seq(Symbols) /\ vad \in Seq(Symbols)
      BY <1>3, <1>7
    <3>2. EncodeSymbols(e, a5) = EncodeSymbols(EncodeSymbols(e, a4), vad)
      BY <3>1, EncodeBoth, Zenon
    <3> QED
      BY <2>4, <3>2, Zenon
  <2> HIDE DEF a5, c6
  <2>6. EncodeSymbols(e, a5 \o end) = c7
    <3>1. a5 \in Seq(Symbols) /\ end \in Seq(Symbols)
      BY <1>3, <1>7
    <3>2. EncodeSymbols(e, a5 \o end) = EncodeSymbols(EncodeSymbols(e, a5), end)
      BY <3>1, EncodeBoth, Zenon
    <3> QED
      BY <2>5, <3>2, Zenon
  <2> QED
    BY <1>6, <2>6
<1>10. c7.error = OK
  BY <1>9 DEF part
<1> HIDE DEF c7
<1>11. c6.error = OK /\ Bits(c6) <= Bits(c7)
  BY <1>3, <1>8, <1>10, BitsStay DEF c7
<1> HIDE DEF c6
<1>12. c5.error = OK /\ Bits(c5) <= Bits(c6)
  BY <1>3, <1>8, <1>11, BitsStay DEF c6
<1> HIDE DEF c5
<1>13. c4.error = OK /\ Bits(c4) <= Bits(c5)
  BY <1>3, <1>8, <1>12, BitsStay DEF c5
<1>14. Bits(c2) + (b - bits) <= Bits(c4)
  BY <1>2, <1>3, <1>4, <1>5, <1>8, <1>13, PartTakesBits
<1> HIDE DEF c4
<1>15. c3.error = OK
  BY <1>3, <1>8, <1>13, BitsStay DEF c4
<1> HIDE DEF c3
<1>16. c2.error = OK
  BY <1>3, <1>8, <1>15, BitsStay DEF c3
<1>17. Bits(e) + bits <= Bits(c2)
  BY <1>2, <1>3, <1>4, <1>5, <1>16, PartTakesBits
<1> HIDE DEF c2
<1>18. Bits(e) \in Nat /\ Bits(c2) \in Nat /\ Bits(c4) \in Nat /\ Bits(c5) \in Nat /\ Bits(c6) \in Nat
       /\ Bits(c7) \in Nat
  BY <1>8, BitsAre
<1>19. Bits(e) + b <= Bits(c7)
  BY <1>2, <1>11, <1>12, <1>13, <1>14, <1>17, <1>18
<1> QED
  BY <1>9, <1>19 DEF part

(* A byte more is a byte longer. *)
LEMMA BytesGrow ==
  ASSUME NEW m \in Nat, NEW n \in Nat, m + b <= n
  PROVE  (m + b - 1) \div b < (n + b - 1) \div b
<1>1. b \in Nat /\ b >= 2
  BY ByteAssumption
<1> DEFINE q == (m + b - 1) \div b
           t == (m + b - 1) % b
           q2 == (n + b - 1) \div b
           t2 == (n + b - 1) % b
<1>2. /\ q \in Nat /\ t \in Nat /\ t < b /\ m + b - 1 = q * b + t
      /\ q2 \in Nat /\ t2 \in Nat /\ t2 < b /\ n + b - 1 = q2 * b + t2
  <2>1. m + b - 1 \in Nat /\ n + b - 1 \in Nat
    BY <1>1
  <2> QED
    BY <1>1, <2>1, Division
<1> HIDE DEF q, t, q2, t2
<1>3. q < q2
  <2> SUFFICES ASSUME q2 <= q PROVE FALSE
    BY <1>2
  <2>1. q2 * b <= q * b /\ q * b \in Nat /\ q2 * b \in Nat
    BY <1>1, <1>2
  <2> QED
    BY <1>1, <1>2, <2>1
<1> QED
  BY <1>3 DEF q, q2

-----------------------------------------------------------------------------
(* A packet of frames, or what is left of one: the first of them may be at its
   start, and all of them are of one rate. *)
AnyFrame == [fs : Rates, typeOffset : 0..3, gain : Nat, nlsf : Nat, lag : Nat, seed : Nat,
             rate : 0..N_RATE_LEVELS - 2, vad : Nat, q : Pulses]

(* A frame is within the tables of its place: only the first of a packet codes
   its gain as it is, and all are of one rate. *)
Fits(f, first) == IsFrame(f, IF first THEN gain_CDF[Sigtype(f)] ELSE delta_gain_CDF)

AreFrames(frames, first) ==
  /\ frames \in Seq(AnyFrame)
  /\ \A i \in 1..Len(frames) : Fits(frames[i], first /\ i = 1) /\ frames[i].fs = frames[1].fs

(* What is said behind a frame: that another follows, or how the packet ends. *)
IsTerm(term) == IsSymbol(FrameTermination_CDF, term)

(* What its frames are coded as. *)
TypeBefore(frames, i, prev) == IF i = 1 THEN prev ELSE frames[i - 1].typeOffset

TermAt(frames, i, term) == IF i = Len(frames) THEN term ELSE MORE_FRAMES

PartAt(frames, i, first, prev, term) ==
  FramePart(frames[i], first /\ i = 1, TypeBefore(frames, i, prev), TermAt(frames, i, term))

(* An encoder takes one frame after the other. *)
PartsFollow(w, frames, first, prev, term) ==
  \A i \in 1..Len(frames) : w[i] = EncodeSymbols(w[i - 1], PartAt(frames, i, first, prev, term))

(* The coders from one to the last, with these frames between them. *)
Holds(e, frames, first, prev, term, last) ==
  \E w : w[0] = e /\ w[Len(frames)] = last /\ PartsFollow(w, frames, first, prev, term)

(* The parts are made of symbols. *)
LEMMA PartAtIs ==
  ASSUME NEW frames, NEW first \in BOOLEAN, AreFrames(frames, first), NEW prev \in 0..3,
         NEW term, IsTerm(term), NEW i \in 1..Len(frames)
  PROVE  /\ PartAt(frames, i, first, prev, term) \in Seq(Symbols)
         /\ TypeBefore(frames, i, prev) \in 0..3 /\ IsTerm(TermAt(frames, i, term))
         /\ Fits(frames[i], first /\ i = 1) /\ (first /\ i = 1) \in BOOLEAN
<1> DEFINE f == frames[i]
           p == TypeBefore(frames, i, prev)
           t == TermAt(frames, i, term)
           one == first /\ i = 1
<1>1. p \in 0..3
  <2>1. CASE i = 1
    BY <2>1 DEF TypeBefore
  <2>2. CASE i # 1
    <3>1. i - 1 \in 1..Len(frames)
      BY <2>2 DEF AreFrames
    <3>2. frames[i - 1] \in AnyFrame
      BY <3>1 DEF AreFrames
    <3> QED
      BY <2>2, <3>2 DEF TypeBefore, AnyFrame
  <2> QED
    BY <2>1, <2>2
<1>2. IsTerm(t)
  BY IndexTables DEF TermAt, IsTerm
<1>3. Fits(f, one) /\ one \in BOOLEAN
  BY DEF AreFrames
<1>4. PartAt(frames, i, first, prev, term) = FramePart(f, one, p, t)
  BY DEF PartAt
<1> HIDE DEF f, p, t, one
<1>5. FramePart(f, one, p, t) \in Seq(Symbols)
  BY <1>1, <1>2, <1>3, FramePartIs DEF Fits, IsTerm
<1> QED
  BY <1>1, <1>2, <1>3, <1>4, <1>5 DEF f, p, t, one

(* No frame yet. *)
LEMMA HoldsNone ==
  ASSUME NEW e, NEW first, NEW prev, NEW term
  PROVE  Holds(e, <<>>, first, prev, term, e)
<1> DEFINE w == [i \in {0} |-> e]
<1>1. w[0] = e /\ Len(<<>>) = 0 /\ \A i \in 1..0 : FALSE
  OBVIOUS
<1> HIDE DEF w
<1>2. PartsFollow(w, <<>>, first, prev, term)
  BY <1>1 DEF PartsFollow
<1> QED
  BY <1>1, <1>2 DEF Holds

(* One frame more. *)
LEMMA HoldsMore ==
  ASSUME NEW e, NEW frames, NEW first \in BOOLEAN, NEW prev, NEW term, NEW c, NEW f,
         frames \in Seq(AnyFrame), f \in AnyFrame, Holds(e, frames, first, prev, MORE_FRAMES, c)
  PROVE  LET n == Len(frames)
         IN Holds(e, Append(frames, f), first, prev, term,
                  EncodeSymbols(c, FramePart(f, first /\ n = 0,
                                             IF n = 0 THEN prev ELSE frames[n].typeOffset, term)))
<1> DEFINE n == Len(frames)
           all == Append(frames, f)
           part == FramePart(f, first /\ n = 0, IF n = 0 THEN prev ELSE frames[n].typeOffset, term)
           next == EncodeSymbols(c, part)
<1>1. /\ n \in Nat /\ Len(all) = n + 1 /\ all[n + 1] = f /\ \A i \in 1..n : all[i] = frames[i]
  OBVIOUS
<1>2. PICK w : w[0] = e /\ w[n] = c /\ PartsFollow(w, frames, first, prev, MORE_FRAMES)
  BY DEF Holds
<1> HIDE DEF n, all
<1> DEFINE v == [i \in 0..n + 1 |-> IF i = n + 1 THEN next ELSE w[i]]
<1>3. v[0] = e /\ v[n] = c /\ v[n + 1] = next /\ \A i \in 1..n : v[i] = w[i] /\ v[i - 1] = w[i - 1]
  BY <1>1, <1>2
<1> HIDE DEF v, next
<1>4. PartAt(all, n + 1, first, prev, term) = part
  <2>1. n + 1 = 1 <=> n = 0
    BY <1>1
  <2>2. n # 0 => all[n] = frames[n]
    BY <1>1
  <2>3. TermAt(all, n + 1, term) = term
    BY <1>1 DEF TermAt
  <2>4. TypeBefore(all, n + 1, prev) = IF n = 0 THEN prev ELSE frames[n].typeOffset
    <3>1. (n + 1) - 1 = n
      BY <1>1
    <3> QED
      BY <2>1, <2>2, <3>1 DEF TypeBefore
  <2>5. (first /\ n + 1 = 1) = (first /\ n = 0)
    BY <2>1
  <2> QED
    BY <1>1, <2>3, <2>4, <2>5, Zenon DEF PartAt
<1>5. \A i \in 1..n : PartAt(all, i, first, prev, term) = PartAt(frames, i, first, prev, MORE_FRAMES)
  <2> TAKE i \in 1..n
  <2>1. all[i] = frames[i] /\ (i # 1 => all[i - 1] = frames[i - 1]) /\ i # n + 1 /\ i \in Nat
    BY <1>1
  <2>2. TermAt(all, i, term) = MORE_FRAMES /\ TermAt(frames, i, MORE_FRAMES) = MORE_FRAMES
    BY <1>1, <2>1 DEF TermAt
  <2>3. TypeBefore(all, i, prev) = TypeBefore(frames, i, prev)
    BY <2>1 DEF TypeBefore
  <2> QED
    BY <2>1, <2>2, <2>3, Zenon DEF PartAt
<1> HIDE DEF part
<1>6. PartsFollow(v, all, first, prev, term)
  <2>1. \A i \in 1..n : v[i] = EncodeSymbols(v[i - 1], PartAt(all, i, first, prev, term))
    BY <1>2, <1>3, <1>5 DEF PartsFollow, n
  <2>2. v[n + 1] = EncodeSymbols(v[(n + 1) - 1], PartAt(all, n + 1, first, prev, term))
    <3>1. (n + 1) - 1 = n
      BY <1>1
    <3> QED
      BY <1>3, <1>4, <3>1 DEF next
  <2>3. \A i \in 1..n + 1 : i \in 1..n \/ i = n + 1
    BY <1>1
  <2> QED
    BY <1>1, <2>1, <2>2, <2>3 DEF PartsFollow
<1>7. Holds(e, all, first, prev, term, next)
  <2>1. v[0] = e /\ v[Len(all)] = next
    BY <1>1, <1>3
  <2> QED
    BY <1>6, <2>1, Zenon DEF Holds
<1> QED
  BY <1>7 DEF all, next, part, n

(* The frames behind the first one. *)
Rest(frames) == SubSeq(frames, 2, Len(frames))

(* The frames after the first are frames coded as later ones. *)
LEMMA RestIs ==
  ASSUME NEW frames, NEW first, AreFrames(frames, first), Len(frames) >= 2
  PROVE  /\ AreFrames(Rest(frames), FALSE) /\ Len(Rest(frames)) = Len(frames) - 1
         /\ Rest(frames)[1].fs = frames[1].fs
         /\ \A i \in 1..Len(frames) - 1 : Rest(frames)[i] = frames[i + 1]
<1> DEFINE rest == Rest(frames)
           n == Len(frames)
<1>1. frames \in Seq(AnyFrame) /\ n \in Nat /\ n >= 2
  BY DEF AreFrames
<1>2. rest \in Seq(AnyFrame) /\ Len(rest) = n - 1 /\ \A i \in 1..n - 1 : rest[i] = frames[i + 1]
  BY <1>1 DEF Rest
<1> HIDE DEF rest
<1>3. \A i \in 1..n - 1 : i + 1 \in 1..n /\ i + 1 # 1
  BY <1>1
<1>4. \A i \in 1..n - 1 : Fits(rest[i], FALSE) /\ rest[i].fs = frames[1].fs
  <2> TAKE i \in 1..n - 1
  <2> DEFINE l == i + 1
  <2>1. l \in 1..n /\ l # 1 /\ rest[i] = frames[l]
    BY <1>2, <1>3
  <2> HIDE DEF l
  <2>2. (first /\ l = 1) = FALSE
    BY <2>1
  <2>3. Fits(frames[l], first /\ l = 1) /\ frames[l].fs = frames[1].fs
    BY <2>1 DEF AreFrames
  <2> QED
    BY <2>1, <2>2, <2>3
<1>5. 1 \in 1..n - 1
  BY <1>1
<1>6. \A i \in 1..n - 1 : (FALSE /\ i = 1) = FALSE
  OBVIOUS
<1>7. AreFrames(rest, FALSE)
  BY <1>2, <1>4, <1>5, <1>6 DEF AreFrames
<1> QED
  BY <1>2, <1>4, <1>5, <1>7 DEF rest

(* With its first frame encoded, an encoder holds the rest of the frames. *)
LEMMA HoldsRest ==
  ASSUME NEW e, NEW frames, NEW first, NEW prev, NEW term, NEW last,
         AreFrames(frames, first), Len(frames) >= 2, Holds(e, frames, first, prev, term, last)
  PROVE  Holds(EncodeSymbols(e, FramePart(frames[1], first, prev, MORE_FRAMES)), Rest(frames), FALSE,
               frames[1].typeOffset, term, last)
<1> DEFINE n == Len(frames)
           rest == Rest(frames)
           from == EncodeSymbols(e, FramePart(frames[1], first, prev, MORE_FRAMES))
           before == frames[1].typeOffset
<1>1. n \in Nat /\ n >= 2 /\ Len(rest) = n - 1 /\ \A i \in 1..n - 1 : rest[i] = frames[i + 1]
  <2>1. Len(rest) = n - 1 /\ \A i \in 1..n - 1 : rest[i] = frames[i + 1]
    BY RestIs
  <2>2. n \in Nat /\ n >= 2
    BY DEF AreFrames
  <2> QED
    BY <2>1, <2>2
<1>2. PICK w : w[0] = e /\ w[n] = last /\ PartsFollow(w, frames, first, prev, term)
  BY DEF Holds
<1> HIDE DEF n, rest
<1>3. w[1] = from
  <2>1. 1 \in 1..n /\ 1 - 1 = 0 /\ 1 # n
    BY <1>1
  <2>2. w[1] = EncodeSymbols(w[0], PartAt(frames, 1, first, prev, term))
    BY <1>2, <2>1 DEF PartsFollow, n
  <2>3. TermAt(frames, 1, term) = MORE_FRAMES
    BY <2>1 DEF TermAt, n
  <2>4. TypeBefore(frames, 1, prev) = prev
    BY DEF TypeBefore
  <2>5. FramePart(frames[1], first /\ 1 = 1, prev, MORE_FRAMES)
          = FramePart(frames[1], first, prev, MORE_FRAMES)
    BY DEF FramePart, FrameSymbols
  <2> QED
    BY <1>2, <2>2, <2>3, <2>4, <2>5 DEF PartAt
<1> HIDE DEF from
<1> DEFINE v == [i \in 0..n - 1 |-> w[i + 1]]
<1>4. /\ v[0] = from /\ v[n - 1] = last
      /\ \A i \in 1..n - 1 : v[i] = w[i + 1] /\ v[i - 1] = w[i]
  BY <1>1, <1>2, <1>3
<1> HIDE DEF v
<1>5. \A i \in 1..n - 1 : v[i] = EncodeSymbols(v[i - 1], PartAt(rest, i, FALSE, before, term))
  <2> TAKE i \in 1..n - 1
  <2> DEFINE l == i + 1
  <2>1. l \in 1..n /\ l # 1 /\ l - 1 = i /\ rest[i] = frames[l] /\ v[i] = w[l] /\ v[i - 1] = w[i]
    BY <1>1, <1>4
  <2>2. i - 1 + 1 = i /\ (i # 1 => i - 1 \in 1..n - 1) /\ (l = n <=> i = n - 1)
    BY <1>1
  <2> HIDE DEF l
  <2>3. w[l] = EncodeSymbols(w[i], PartAt(frames, l, first, prev, term))
    BY <1>2, <2>1 DEF PartsFollow, n
  <2>4. TermAt(frames, l, term) = TermAt(rest, i, term)
    BY <1>1, <2>2 DEF TermAt, n
  <2>5. TypeBefore(frames, l, prev) = TypeBefore(rest, i, before)
    <3>1. TypeBefore(frames, l, prev) = frames[i].typeOffset
      BY <2>1 DEF TypeBefore
    <3>2. i # 1 => rest[i - 1] = frames[i]
      BY <1>1, <2>2
    <3> QED
      BY <3>1, <3>2 DEF TypeBefore
  <2>6. (first /\ l = 1) = FALSE /\ (FALSE /\ i = 1) = FALSE
    BY <2>1
  <2>7. PartAt(frames, l, first, prev, term) = PartAt(rest, i, FALSE, before, term)
    BY <2>1, <2>4, <2>5, <2>6 DEF PartAt
  <2> QED
    BY <2>1, <2>3, <2>7
<1>6. PartsFollow(v, rest, FALSE, before, term)
  BY <1>1, <1>5, Zenon DEF PartsFollow
<1>7. Holds(from, rest, FALSE, before, term, last)
  BY <1>1, <1>4, <1>6, Zenon DEF Holds
<1> QED
  BY <1>7 DEF from, rest, before

(* The only frame left. *)
LEMMA HoldsLast ==
  ASSUME NEW e, NEW frames, NEW first, NEW prev, NEW term, NEW last,
         Len(frames) = 1, Holds(e, frames, first, prev, term, last)
  PROVE  last = EncodeSymbols(e, FramePart(frames[1], first, prev, term))
<1>1. PICK w : w[0] = e /\ w[1] = last /\ PartsFollow(w, frames, first, prev, term)
  BY DEF Holds
<1>2. 1 \in 1..1 /\ 1 - 1 = 0
  OBVIOUS
<1>3. last = EncodeSymbols(e, PartAt(frames, 1, first, prev, term))
  BY <1>1, <1>2 DEF PartsFollow
<1>4. TermAt(frames, 1, term) = term /\ TypeBefore(frames, 1, prev) = prev
  BY DEF TermAt, TypeBefore
<1>5. FramePart(frames[1], first /\ 1 = 1, prev, term) = FramePart(frames[1], first, prev, term)
  BY DEF FramePart, FrameSymbols
<1> QED
  BY <1>3, <1>4, <1>5 DEF PartAt

(* The coders between the frames are normal, and none of them has more of the
   stream than the last. *)
LEMMA HoldsNormal ==
  ASSUME NEW e, Normal(e), NEW frames, NEW first \in BOOLEAN, AreFrames(frames, first),
         NEW prev \in 0..3, NEW term, IsTerm(term), NEW w, w[0] = e,
         PartsFollow(w, frames, first, prev, term)
  PROVE  \A i \in 0..Len(frames) : Normal(w[i])
<1> DEFINE n == Len(frames)
<1>1. n \in Nat /\ \A i \in 0..n - 1 : i + 1 \in 1..n /\ (i + 1) - 1 = i /\ i + 1 \in 0..n
  BY DEF AreFrames
<1>2. \A i \in 1..n : /\ PartAt(frames, i, first, prev, term) \in Seq(Symbols)
                      /\ w[i] = EncodeSymbols(w[i - 1], PartAt(frames, i, first, prev, term))
  BY PartAtIs DEF PartsFollow
<1> HIDE DEF n
<1> DEFINE N == {i \in 0..n : Normal(w[i])}
<1>3. 0 \in N
  BY <1>1
<1>4. \A i \in 0..n - 1 : i \in N => i + 1 \in N
  <2> SUFFICES ASSUME NEW i \in 0..n - 1, i \in N PROVE i + 1 \in N
    OBVIOUS
  <2>1. /\ PartAt(frames, i + 1, first, prev, term) \in Seq(Symbols)
        /\ w[i + 1] = EncodeSymbols(w[i], PartAt(frames, i + 1, first, prev, term))
    BY <1>1, <1>2
  <2>2. Normal(w[i + 1])
    BY <2>1, EncodedIsNormal
  <2> QED
    BY <1>1, <2>2
<1> HIDE DEF N
<1>5. 0..n \subseteq N
  BY <1>1, <1>3, <1>4, InductionUpTo, Zenon
<1> QED
  BY <1>5 DEF N, n

(* Bytes that lie within what the last frame has left of the interval lie
   within what any frame before it has left. *)
LEMMA HoldsReaches ==
  ASSUME NEW e, Normal(e), NEW frames, NEW first \in BOOLEAN, AreFrames(frames, first),
         NEW prev \in 0..3, NEW term, IsTerm(term), NEW last,
         Holds(e, frames, first, prev, term, last),
         NEW d, d.buffer \in Seq(Byte), d.length \in Nat, Len(d.buffer) = d.length + 4,
         Reaches(last, d)
  PROVE  Reaches(e, d)
<1> DEFINE n == Len(frames)
<1>1. n \in Nat /\ \A i \in 0..n - 1 : i + 1 \in 1..n /\ (i + 1) - 1 = i /\ i \in 0..n
  BY DEF AreFrames
<1>2. PICK w : w[0] = e /\ w[n] = last /\ PartsFollow(w, frames, first, prev, term)
  BY DEF Holds
<1>3. \A i \in 0..n : Normal(w[i])
  BY <1>2, HoldsNormal
<1>4. \A i \in 1..n : /\ PartAt(frames, i, first, prev, term) \in Seq(Symbols)
                      /\ w[i] = EncodeSymbols(w[i - 1], PartAt(frames, i, first, prev, term))
  BY <1>2, PartAtIs DEF PartsFollow
<1> HIDE DEF n
<1> DEFINE N == {i \in 0..n : Reaches(w[i], d)}
<1>5. n \in N
  BY <1>1, <1>2
<1>6. \A i \in 0..n - 1 : i + 1 \in N => i \in N
  <2> SUFFICES ASSUME NEW i \in 0..n - 1, i + 1 \in N PROVE i \in N
    OBVIOUS
  <2> DEFINE part == PartAt(frames, i + 1, first, prev, term)
  <2>1. part \in Seq(Symbols) /\ w[i + 1] = EncodeSymbols(w[i], part) /\ Normal(w[i]) /\ i \in 0..n
    BY <1>1, <1>3, <1>4
  <2>2. Reaches(w[i + 1], d)
    OBVIOUS
  <2> HIDE DEF part
  <2>3. Reaches(EncodeSymbols(w[i], part), d)
    BY <2>1, <2>2
  <2>4. Reaches(w[i], d)
    BY <2>1, <2>3, PartReaches
  <2> QED
    BY <2>1, <2>4
<1> HIDE DEF N
<1>7. 0..n \subseteq N
  BY <1>1, <1>5, <1>6, InductionDownFrom, Zenon
<1>8. 0 \in N
  BY <1>1, <1>7
<1> QED
  BY <1>2, <1>8 DEF N

(* A frame or more take a byte or more. *)
LEMMA HoldsBytes ==
  ASSUME NEW e, Normal(e), NEW frames, NEW first \in BOOLEAN, AreFrames(frames, first), Len(frames) >= 1,
         NEW prev \in 0..3, NEW term, IsTerm(term), NEW last,
         Holds(e, frames, first, prev, term, last), last.error = OK
  PROVE  Normal(last) /\ Bits(e) + b <= Bits(last)
<1> DEFINE n == Len(frames)
<1>1. n \in Nat /\ n >= 1 /\ \A i \in 0..n - 1 : i + 1 \in 1..n /\ (i + 1) - 1 = i /\ i \in 0..n
  BY DEF AreFrames
<1>2. PICK w : w[0] = e /\ w[n] = last /\ PartsFollow(w, frames, first, prev, term)
  BY DEF Holds
<1>3. \A i \in 0..n : Normal(w[i])
  BY <1>2, HoldsNormal
<1>4. b \in Nat
  BY ByteAssumption
<1>5. ASSUME NEW i \in 1..n, w[i].error = OK
      PROVE  w[i - 1].error = OK /\ Bits(w[i - 1]) + b <= Bits(w[i])
  <2> DEFINE f == frames[i]
             p == TypeBefore(frames, i, prev)
             t == TermAt(frames, i, term)
             one == first /\ i = 1
             c == w[i - 1]
             part == FramePart(f, one, p, t)
  <2>1. /\ part \in Seq(Symbols) /\ p \in 0..3 /\ IsTerm(t) /\ Fits(f, one) /\ one \in BOOLEAN
        /\ w[i] = EncodeSymbols(c, part)
    BY <1>2, PartAtIs DEF PartsFollow, PartAt
  <2>2. i - 1 \in 0..n
    BY <1>1
  <2>3. Normal(c)
    BY <1>3, <2>2
  <2> HIDE DEF f, p, t, one, c
  <2>4. EncodeSymbols(c, part).error = OK
    BY <1>5, <2>1
  <2>5. Bits(c) + b <= Bits(EncodeSymbols(c, part))
    BY <2>1, <2>3, <2>4, FrameTakesByte DEF Fits, IsTerm
  <2> HIDE DEF part
  <2>6. c.error = OK
    BY <2>1, <2>3, <2>4, BitsStay
  <2> QED
    BY <2>1, <2>5, <2>6 DEF c
<1> HIDE DEF n
<1> DEFINE N == {i \in 0..n - 1 : w[i].error = OK /\ Bits(w[i]) + b <= Bits(last)}
           m == n - 1
<1>6. \A i \in 0..n : Bits(w[i]) \in Nat
  BY <1>3, BitsAre
<1>7. m \in Nat /\ m \in N
  <2>1. n \in 1..n /\ n - 1 \in 0..n - 1
    BY <1>1
  <2> QED
    BY <1>1, <1>2, <1>5, <2>1
<1>8. \A i \in 0..m - 1 : i + 1 \in N => i \in N
  <2> SUFFICES ASSUME NEW i \in 0..m - 1, i + 1 \in N PROVE i \in N
    OBVIOUS
  <2> DEFINE l == i + 1
  <2>1. l \in 1..n /\ l - 1 = i /\ i \in 0..n - 1 /\ i \in 0..n /\ l \in 0..n /\ n \in 0..n
    BY <1>1
  <2>2. w[l].error = OK /\ Bits(w[l]) + b <= Bits(last)
    OBVIOUS
  <2> HIDE DEF l
  <2>3. w[i].error = OK /\ Bits(w[i]) + b <= Bits(w[l])
    BY <1>5, <2>1, <2>2
  <2>4. Bits(w[i]) \in Nat /\ Bits(w[l]) \in Nat /\ Bits(last) \in Nat
    BY <1>2, <1>6, <2>1
  <2>5. Bits(w[i]) + b <= Bits(last)
    BY <1>4, <2>2, <2>3, <2>4
  <2> QED
    BY <2>1, <2>3, <2>5
<1> HIDE DEF N
<1>9. 0..m \subseteq N
  BY <1>7, <1>8, InductionDownFrom, Zenon
<1>10. 0 \in N
  BY <1>7, <1>9
<1>11. n \in 0..n
  BY <1>1
<1> QED
  BY <1>2, <1>3, <1>10, <1>11 DEF N

-----------------------------------------------------------------------------
(* The decoder has before it the stream that ends with this coder, and what was
   put behind it. *)
Sealed(last, spare, d) ==
  /\ Normal(last) /\ last.error = OK
  /\ LengthInBytes(Len(last.buffer), last.range) <= MAX_ARITHM_BYTES
  /\ spare \in Seq(Byte)
  /\ d.length = Len(RangeEncWrapUp(last) \o spare)
  /\ \E stale \in Byte : d.buffer = WithinReach(RangeEncWrapUp(last) \o spare, stale)

(* How long the stream is, of any normal coder. *)
LEMMA StreamLength ==
  ASSUME NEW e, Normal(e)
  PROVE  LET nBytes == LengthInBytes(Len(e.buffer), e.range) IN
         /\ nBytes \in Nat /\ nBytes >= Len(e.buffer) /\ Len(e.buffer) \in Nat
         /\ nBytes = Len(e.buffer) + LastBytes(BitsToStore(e.range))
<1> DEFINE K == Len(e.buffer)
           range == e.range
           k == LastBytes(BitsToStore(range))
<1>1. K \in Nat /\ range \in B..B2 - 1
  BY NormalTypes
<1> HIDE DEF K, range
<1>2. LengthInBytes(K, range) = K + k
  BY <1>1, LengthIs
<1>3. k \in 1..2
  BY DEF LastBytes
<1> HIDE DEF k
<1>4. LengthInBytes(K, range) \in Nat /\ LengthInBytes(K, range) >= K
  BY <1>1, <1>2, <1>3
<1> QED
  BY <1>1, <1>2, <1>4 DEF K, range, k

(* The stream itself is as long, unless it is cut off at the end of the buffer. *)
LEMMA StreamIs ==
  ASSUME NEW e, Normal(e), e.error = OK,
         LengthInBytes(Len(e.buffer), e.range) <= MAX_ARITHM_BYTES
  PROVE  /\ RangeEncWrapUp(e) \in Seq(Byte)
         /\ Len(RangeEncWrapUp(e)) = LengthInBytes(Len(e.buffer), e.range)
BY WrapUpIs, StreamLength

(* The decoder is within reach of the end of the stream. *)
LEMMA SealedReaches ==
  ASSUME NEW last, NEW spare, NEW d, Sealed(last, spare, d)
  PROVE  /\ Reaches(last, d)
         /\ d.buffer \in Seq(Byte) /\ d.length \in Nat /\ Len(d.buffer) = d.length + 4
         /\ d.length = LengthInBytes(Len(last.buffer), last.range) + Len(spare)
<1> DEFINE r == RangeEncWrapUp(last)
           nBytes == LengthInBytes(Len(last.buffer), last.range)
           K == Len(last.buffer)
<1>1. PICK stale \in Byte : d.buffer = WithinReach(r \o spare, stale)
  BY DEF Sealed
<1> DEFINE t == <<stale, stale, stale, stale>>
           rest == spare \o t
<1>2. /\ Normal(last) /\ last.error = OK /\ nBytes <= MAX_ARITHM_BYTES
      /\ spare \in Seq(Byte) /\ d.length = Len(r \o spare)
  BY DEF Sealed
<1>3. r \in Seq(Byte) /\ Len(r) = nBytes /\ nBytes \in Nat /\ nBytes >= K /\ K \in Nat
  BY <1>2, StreamIs, StreamLength
<1> HIDE DEF r, nBytes, K
<1>4. d.length = nBytes + Len(spare) /\ Len(spare) \in Nat /\ d.length \in Nat
  BY <1>2, <1>3
<1>5. t \in Seq(Byte) /\ Len(t) = 4
  OBVIOUS
<1> HIDE DEF t
<1>6. /\ rest \in Seq(Byte) /\ Len(r \o rest) = nBytes + (Len(spare) + 4)
      /\ (r \o spare) \o t = r \o rest
  <2>1. r \in Seq(Byte) /\ spare \in Seq(Byte) /\ t \in Seq(Byte)
    BY <1>2, <1>3, <1>5
  <2>2. spare \o t \in Seq(Byte) /\ Len(spare \o t) = Len(spare) + Len(t)
    BY <2>1
  <2>3. Len(r \o (spare \o t)) = Len(r) + (Len(spare) + Len(t))
    BY <2>1, <2>2
  <2>4. (r \o spare) \o t = r \o (spare \o t)
    BY <2>1
  <2> QED
    BY <1>3, <1>5, <2>2, <2>3, <2>4
<1>7. d.buffer = (r \o spare) \o t
  BY <1>1 DEF WithinReach, t
<1> HIDE DEF rest
<1>8. d.buffer = r \o rest
  BY <1>6, <1>7
<1>9. r \o rest \in Seq(Byte)
  BY <1>3, <1>6
<1>10. K + 4 <= Len(r \o rest) /\ K <= d.length
  BY <1>3, <1>4, <1>6
<1>11. Inside(last, r \o rest)
  BY <1>2, <1>6, <1>10, WrapUpLiesInside DEF r, nBytes, K
<1>12. Reaches(last, d)
  BY <1>2, <1>8, <1>10, <1>11 DEF Reaches, K
<1>13. Len(d.buffer) = d.length + 4
  BY <1>3, <1>4, <1>6, <1>8
<1> QED
  BY <1>4, <1>8, <1>9, <1>12, <1>13 DEF nBytes

(* The decoder that is in step at the end of the stream finds the redundancy
   behind it, and nothing wrong. *)
LEMMA EndIsFound ==
  ASSUME NEW last, NEW spare, NEW d, Sealed(last, spare, d), InStep(last, d)
  PROVE  nBytesLeft(d) = Len(spare) /\ Checked(d) = d
<1>1. PICK stale \in Byte : d.buffer = WithinReach(RangeEncWrapUp(last) \o spare, stale)
  BY DEF Sealed
<1>2. /\ Normal(last) /\ last.error = OK /\ spare \in Seq(Byte)
      /\ LengthInBytes(Len(last.buffer), last.range) <= MAX_ARITHM_BYTES
      /\ d.length = Len(RangeEncWrapUp(last) \o spare)
  BY DEF Sealed
<1>3. CheckAfterDecoding(d) = d
  BY <1>1, <1>2, CheckPasses
<1>4. LengthInBytes(d.ix, d.range) = LengthInBytes(Len(last.buffer), last.range)
  BY DEF InStep
<1>5. d.length = LengthInBytes(Len(last.buffer), last.range) + Len(spare)
  BY SealedReaches
<1> DEFINE nBytes == LengthInBytes(Len(last.buffer), last.range)
<1>6. nBytes \in Nat /\ Len(spare) \in Nat
  BY <1>2, StreamLength
<1> HIDE DEF nBytes
<1>7. nBytesLeft(d) = Len(spare)
  BY <1>4, <1>5, <1>6 DEF nBytesLeft, nBytes
<1> QED
  BY <1>3, <1>6, <1>7 DEF Checked

(* The coders before the end of the stream have left more behind them. *)
LEMMA MoreIsLeft ==
  ASSUME NEW e, Normal(e), NEW last, NEW spare, NEW d, Sealed(last, spare, d), InStep(e, d),
         Bits(e) + b <= Bits(last)
  PROVE  nBytesLeft(d) > Len(spare) /\ Checked(d) = d
<1> DEFINE m == Bits(e)
           n == Bits(last)
           nBytes == LengthInBytes(Len(last.buffer), last.range)
<1>1. m \in Nat /\ n \in Nat /\ m + b <= n
  BY BitsAre DEF Sealed
<1>2. LengthInBytes(d.ix, d.range) = (m + b - 1) \div b /\ nBytes = (n + b - 1) \div b
  BY DEF InStep, LengthInBytes, Bits
<1>3. nBytes \in Nat /\ Len(spare) \in Nat /\ d.length = nBytes + Len(spare)
  <2>1. Normal(last) /\ spare \in Seq(Byte)
    BY DEF Sealed
  <2>2. d.length = nBytes + Len(spare)
    BY SealedReaches
  <2> QED
    BY <2>1, <2>2, StreamLength
<1> HIDE DEF m, n, nBytes
<1>4. LengthInBytes(d.ix, d.range) < nBytes
  BY <1>1, <1>2, BytesGrow
<1>5. LengthInBytes(d.ix, d.range) \in Int
  <2>1. LengthInBytes(Len(e.buffer), e.range) \in Nat
    BY StreamLength
  <2>2. LengthInBytes(d.ix, d.range) = LengthInBytes(Len(e.buffer), e.range)
    BY DEF InStep
  <2> QED
    BY <2>1, <2>2
<1>6. nBytesLeft(d) > Len(spare) /\ nBytesLeft(d) > 0
  <2> DEFINE k == LengthInBytes(d.ix, d.range)
  <2>1. k \in Int /\ k < nBytes /\ nBytesLeft(d) = d.length - k
    BY <1>4, <1>5 DEF nBytesLeft
  <2> HIDE DEF k
  <2> QED
    BY <2>1, <1>3
<1>7. ~(nBytesLeft(d) < 0) /\ ~(nBytesLeft(d) = 0)
  <2> DEFINE k == nBytesLeft(d)
  <2>1. k \in Int
    BY <1>3, <1>5 DEF nBytesLeft
  <2>2. k > 0
    BY <1>6
  <2> HIDE DEF k
  <2>3. ~(k < 0) /\ ~(k = 0)
    BY <2>1, <2>2
  <2> QED
    BY <2>3 DEF k
<1> QED
  BY <1>6, <1>7 DEF Checked

(* A frame crosses: a decoder that is in step with the encoder before the frame
   returns it as it was encoded, and is in step behind it, if the bytes it has
   lie within what the frame has left of the interval. *)
THEOREM FrameCrosses ==
  ASSUME NEW e, Normal(e), NEW rc, InStep(e, rc), NEW u \in Sized(0, 0), u = Unknown(rc),
         NEW f, Fits(f, u.first), Suits(u, f.fs), NEW term, IsTerm(term),
         Reaches(EncodeSymbols(e, FramePart(f, u.first, u.typeOffset, term)), rc)
  PROVE  LET d == DecodeParameters(rc) IN
         /\ FrameTaken(d, f, term, d.rc)
         /\ InStep(EncodeSymbols(e, FramePart(f, u.first, u.typeOffset, term)), d.rc)
         /\ d.rc.buffer = rc.buffer /\ d.rc.length = rc.length
<1> DEFINE part == FramePart(f, u.first, u.typeOffset, term)
<1>1. u.first \in BOOLEAN /\ u.typeOffset \in 0..3
  BY FrameParts DEF Sized
<1>2. part \in Seq(Symbols)
  BY <1>1, FramePartIs DEF Fits, IsTerm
<1>3. Reaches(EncodeSymbols(e, part), rc)
  OBVIOUS
<1>4. part = FrameSymbols(f, u.first, u.typeOffset) \o TermPart(term)
  BY DEF FramePart
<1> HIDE DEF part
<1>5. PICK r : /\ Delivers(rc, part, r) /\ InStep(EncodeSymbols(e, part), r)
               /\ r.buffer = rc.buffer /\ r.length = rc.length
  BY <1>2, <1>3, PartArrives
<1>6. Delivers(rc, FrameSymbols(f, u.first, u.typeOffset) \o TermPart(term), r)
  BY <1>4, <1>5
<1>7. FrameTaken(DecodeParameters(rc), f, term, r)
  BY <1>6, FrameTakes DEF Fits, IsTerm
<1>8. DecodeParameters(rc).rc = r
  BY <1>7 DEF FrameTaken
<1> QED
  BY <1>5, <1>7, <1>8 DEF part

(* What the decoder has before it are these frames, with so many bytes behind
   them: there is an encoder that it is in step with, and that ends with its
   stream. *)
Ahead(rc, frames, first, prev, spare) ==
  \E e, term, last :
    /\ Normal(e) /\ InStep(e, rc) /\ IsTerm(term) /\ term # MORE_FRAMES
    /\ Holds(e, frames, first, prev, term, last) /\ Sealed(last, spare, rc)

(* What the decoder has behind the first of them. *)
FramePlayed(d, frames, spare) ==
  /\ d \in Frames /\ FrameOf(d) = frames[1]
  /\ d.typeOffset = frames[1].typeOffset /\ d.fs = frames[1].fs /\ d.book = BookOf(d.fs)
  /\ Checked(d.rc) = d.rc /\ d.rc.error = OK
  /\ IF Len(frames) = 1 THEN d.term # MORE_FRAMES /\ nBytesLeft(d.rc) = Len(spare)
     ELSE /\ d.term = MORE_FRAMES /\ nBytesLeft(d.rc) > Len(spare)
          /\ Ahead(d.rc, Rest(frames), FALSE, frames[1].typeOffset, spare)

(* The bytes that are looked at do not change. *)
LEMMA StaysSealed ==
  ASSUME NEW last, NEW spare, NEW d, NEW d2, Sealed(last, spare, d),
         d2.buffer = d.buffer, d2.length = d.length
  PROVE  Sealed(last, spare, d2)
BY DEF Sealed

(* The only frame left is decoded. *)
LEMMA LastFramePlays ==
  ASSUME NEW rc, NEW frames, NEW u \in Sized(0, 0), u = Unknown(rc), AreFrames(frames, u.first),
         Len(frames) = 1, Suits(u, frames[1].fs), NEW spare,
         Ahead(rc, frames, u.first, u.typeOffset, spare)
  PROVE  FramePlayed(DecodeParameters(rc), frames, spare)
<1> DEFINE f == frames[1]
           d == DecodeParameters(rc)
<1>1. PICK e, term, last :
        /\ Normal(e) /\ InStep(e, rc) /\ IsTerm(term) /\ term # MORE_FRAMES
        /\ Holds(e, frames, u.first, u.typeOffset, term, last) /\ Sealed(last, spare, rc)
  BY Zenon DEF Ahead
<1>2. last = EncodeSymbols(e, FramePart(f, u.first, u.typeOffset, term))
  BY <1>1, HoldsLast
<1>3. Reaches(last, rc)
  BY <1>1, SealedReaches, Zenon
<1>4. Fits(f, u.first)
  <2>1. 1 \in 1..Len(frames) /\ (u.first /\ 1 = 1) = u.first
    BY FrameParts DEF Sized
  <2> QED
    BY <2>1 DEF AreFrames
<1> HIDE DEF f
<1>5. /\ FrameTaken(d, f, term, d.rc) /\ InStep(last, d.rc)
      /\ d.rc.buffer = rc.buffer /\ d.rc.length = rc.length
  BY <1>1, <1>2, <1>3, <1>4, FrameCrosses DEF f
<1> HIDE DEF d
<1>6. Sealed(last, spare, d.rc)
  BY <1>1, <1>5, StaysSealed
<1>7. nBytesLeft(d.rc) = Len(spare) /\ Checked(d.rc) = d.rc
  BY <1>5, <1>6, EndIsFound
<1>8. d.rc.error = OK
  BY <1>5 DEF InStep, Decoder
<1>9. /\ d \in Frames /\ FrameOf(d) = f /\ d.term = term /\ d.typeOffset = f.typeOffset
      /\ d.fs = f.fs /\ d.book = BookOf(f.fs)
  BY <1>5 DEF FrameTaken
<1> QED
  BY <1>1, <1>7, <1>8, <1>9 DEF FramePlayed, f, d

(* A frame that others follow is decoded. *)
LEMMA FirstFramePlays ==
  ASSUME NEW rc, NEW frames, NEW u \in Sized(0, 0), u = Unknown(rc), AreFrames(frames, u.first),
         Len(frames) >= 2, Suits(u, frames[1].fs), NEW spare,
         Ahead(rc, frames, u.first, u.typeOffset, spare)
  PROVE  FramePlayed(DecodeParameters(rc), frames, spare)
<1> DEFINE f == frames[1]
           d == DecodeParameters(rc)
           rest == Rest(frames)
<1>1. PICK e, term, last :
        /\ Normal(e) /\ InStep(e, rc) /\ IsTerm(term) /\ term # MORE_FRAMES
        /\ Holds(e, frames, u.first, u.typeOffset, term, last) /\ Sealed(last, spare, rc)
  BY Zenon DEF Ahead
<1> DEFINE from == EncodeSymbols(e, FramePart(f, u.first, u.typeOffset, MORE_FRAMES))
<1>2. u.first \in BOOLEAN /\ u.typeOffset \in 0..3
  BY FrameParts DEF Sized
<1>3. Holds(from, rest, FALSE, f.typeOffset, term, last)
  BY <1>1, HoldsRest
<1>4. AreFrames(rest, FALSE) /\ Len(rest) >= 1 /\ Len(frames) # 1
  <2>1. AreFrames(rest, FALSE) /\ Len(rest) = Len(frames) - 1
    BY RestIs
  <2>2. Len(frames) \in Nat /\ Len(frames) >= 2
    BY DEF AreFrames
  <2> DEFINE n == Len(frames)
  <2>3. n \in Nat /\ n >= 2 /\ Len(rest) = n - 1
    BY <2>1, <2>2
  <2> HIDE DEF n
  <2>4. Len(rest) >= 1 /\ n # 1
    BY <2>3
  <2> QED
    BY <2>1, <2>4 DEF n
<1>5. Fits(f, u.first) /\ f.typeOffset \in 0..3
  <2>1. 1 \in 1..Len(frames) /\ (u.first /\ 1 = 1) = u.first
    BY <1>2 DEF AreFrames
  <2>2. f \in AnyFrame
    BY <2>1 DEF AreFrames
  <2> QED
    BY <2>1, <2>2 DEF AreFrames, AnyFrame
<1>6. IsTerm(MORE_FRAMES)
  BY IndexTables DEF IsTerm
<1>7. Normal(from)
  <2>1. FramePart(f, u.first, u.typeOffset, MORE_FRAMES) \in Seq(Symbols)
    BY <1>2, <1>5, <1>6, FramePartIs DEF Fits, IsTerm
  <2> QED
    BY <1>1, <2>1, EncodedIsNormal
<1>8. from = EncodeSymbols(e, FramePart(f, u.first, u.typeOffset, MORE_FRAMES))
  OBVIOUS
<1> HIDE DEF from, rest, f
<1>9. /\ rc.buffer \in Seq(Byte) /\ rc.length \in Nat /\ Len(rc.buffer) = rc.length + 4
      /\ Reaches(last, rc)
  BY <1>1, SealedReaches
<1>10. Reaches(from, rc)
  BY <1>1, <1>3, <1>4, <1>5, <1>7, <1>9, HoldsReaches
<1>11. /\ FrameTaken(d, f, MORE_FRAMES, d.rc) /\ InStep(from, d.rc)
       /\ d.rc.buffer = rc.buffer /\ d.rc.length = rc.length
  BY <1>1, <1>5, <1>6, <1>8, <1>10, FrameCrosses DEF f
<1> HIDE DEF d
<1>12. Sealed(last, spare, d.rc)
  BY <1>1, <1>11, StaysSealed
<1>13. last.error = OK
  BY <1>1 DEF Sealed
<1>14. Bits(from) + b <= Bits(last)
  BY <1>1, <1>3, <1>4, <1>5, <1>7, <1>13, HoldsBytes
<1>15. nBytesLeft(d.rc) > Len(spare) /\ Checked(d.rc) = d.rc
  BY <1>7, <1>11, <1>12, <1>14, MoreIsLeft
<1>16. d.rc.error = OK
  BY <1>11 DEF InStep, Decoder
<1>17. /\ d \in Frames /\ FrameOf(d) = f /\ d.term = MORE_FRAMES /\ d.typeOffset = f.typeOffset
       /\ d.fs = f.fs /\ d.book = BookOf(f.fs)
  BY <1>11 DEF FrameTaken
<1>18. Ahead(d.rc, rest, FALSE, f.typeOffset, spare)
  <2>1. /\ Normal(from) /\ InStep(from, d.rc) /\ IsTerm(term) /\ term # MORE_FRAMES
        /\ Holds(from, rest, FALSE, f.typeOffset, term, last) /\ Sealed(last, spare, d.rc)
    BY <1>1, <1>3, <1>7, <1>11, <1>12
  <2> QED
    BY <2>1, Zenon DEF Ahead
<1> QED
  BY <1>4, <1>15, <1>16, <1>17, <1>18 DEF FramePlayed, f, d, rest

(* Whatever frames are left of a packet, the next of them is decoded as it was
   encoded, and the decoder finds out whether others follow. *)
LEMMA FramePlays ==
  ASSUME NEW rc, NEW frames, NEW u \in Sized(0, 0), u = Unknown(rc), AreFrames(frames, u.first),
         Len(frames) >= 1, Suits(u, frames[1].fs), NEW spare,
         Ahead(rc, frames, u.first, u.typeOffset, spare)
  PROVE  FramePlayed(DecodeParameters(rc), frames, spare)
<1>1. Len(frames) \in Nat
  BY DEF AreFrames
<1>2. CASE Len(frames) = 1
  BY <1>2, LastFramePlays
<1>3. CASE Len(frames) >= 2
  BY <1>3, FirstFramePlays
<1>4. Len(frames) = 1 \/ Len(frames) >= 2
  <2> DEFINE n == Len(frames)
  <2>1. n \in Nat /\ n >= 1
    BY <1>1
  <2> HIDE DEF n
  <2>2. n = 1 \/ n >= 2
    BY <2>1
  <2> QED
    BY <2>2 DEF n
<1> QED
  BY <1>2, <1>3, <1>4

-----------------------------------------------------------------------------
(* The sender's side of the stream: what its coder has of the frames. *)
BuildingInv ==
  /\ AreFrames(building, TRUE) /\ Len(building) = enc.n
  /\ enc.n < FRAMES_PER_PACKET
  /\ Holds(RangeEncInit, building, TRUE, 0, MORE_FRAMES, enc.rc)
  /\ enc.prev = IF enc.n = 0 THEN 0 ELSE building[enc.n].typeOffset
  /\ enc.n # 0 => building[1].fs = enc.fs

(* No frame yet. *)
LEMMA NothingBuilt ==
  ASSUME NEW error, building' = <<>>, enc' = Idle(error)
  PROVE  BuildingInv'
<1>1. /\ enc'.rc = RangeEncInit /\ enc'.n = 0 /\ enc'.prev = 0
  BY DEF Idle
<1>2. AreFrames(<<>>, TRUE) /\ Len(<<>>) = 0
  BY DEF AreFrames
<1>3. 0 < FRAMES_PER_PACKET
  BY FrameAssumption
<1>4. Holds(RangeEncInit, <<>>, TRUE, 0, MORE_FRAMES, RangeEncInit)
  BY HoldsNone
<1> QED
  BY <1>1, <1>2, <1>3, <1>4 DEF BuildingInv

(* A frame that the encoder codes. *)
LEMMA NextFrameIs ==
  ASSUME NEW f \in NextFrames
  PROVE  Fits(f, enc.n = 0) /\ f \in AnyFrame /\ (enc.n # 0 => f.fs = enc.fs)
<1>1. Fits(f, enc.n = 0) /\ (enc.n # 0 => f.fs = enc.fs)
  BY FrameAssumption DEF NextFrames, Fits
<1>2. f \in AnyFrame
  BY <1>1 DEF Fits, IsFrame, AnyFrame
<1> QED
  BY <1>1, <1>2

(* The coder behind a frame and the symbol that ends it. *)
LEMMA FrameIsCoded ==
  ASSUME SenderInv, NEW f \in NextFrames, NEW term, IsTerm(term)
  PROVE  RangeEncode(Parameters(f), FrameTermination_CDF, term)
           = EncodeSymbols(enc.rc, FramePart(f, enc.n = 0, enc.prev, term))
<1> DEFINE first == enc.n = 0
           e == enc.rc
           part == FrameSymbols(f, first, enc.prev)
           s == Symbol(FrameTermination_CDF, term)
           last == TermPart(term)
<1>1. Fits(f, first) /\ first \in BOOLEAN
  BY NextFrameIs
<1>2. enc.prev \in 0..3 /\ Normal(e)
  BY DEF SenderInv
<1>3. Parameters(f) = EncodeSymbols(e, part)
  BY Zenon DEF Parameters
<1>4. FramePart(f, first, enc.prev, term) = part \o last
  BY Zenon DEF FramePart
<1> HIDE DEF first, e
<1>5. part \in Seq(Symbols)
  BY <1>1, <1>2, FrameSymbolsAre, Zenon DEF Fits
<1>6. last \in Seq(Symbols)
  BY <1>1, <1>2, FramePartIs, Zenon DEF Fits, IsTerm
<1>7. s.cdf = FrameTermination_CDF /\ s.data = term /\ last = <<s>>
  BY DEF Symbol, TermPart
<1> HIDE DEF part, s, last
<1>8. EncodeSymbols(e, part \o last) = EncodeSymbols(EncodeSymbols(e, part), last)
  BY <1>2, <1>5, <1>6, EncodeBoth, Zenon
<1>9. EncodeSymbols(EncodeSymbols(e, part), last)
        = RangeEncode(EncodeSymbols(e, part), FrameTermination_CDF, term)
  <2> DEFINE c == EncodeSymbols(e, part)
  <2> HIDE DEF c
  <2>1. EncodeSymbols(c, <<s>>) = RangeEncode(c, s.cdf, s.data)
    BY EncodeOne, Zenon
  <2> QED
    BY <1>7, <2>1 DEF c
<1> QED
  BY <1>3, <1>4, <1>8, <1>9 DEF first, e

(* A frame joins the payload. *)
LEMMA FrameJoins ==
  ASSUME SenderInv, BuildingInv, NEW f \in NextFrames, NEW term, IsTerm(term)
  PROVE  /\ AreFrames(Append(building, f), TRUE)
         /\ Holds(RangeEncInit, Append(building, f), TRUE, 0, term,
                  RangeEncode(Parameters(f), FrameTermination_CDF, term))
<1> DEFINE n == enc.n
           more == Append(building, f)
<1>1. /\ building \in Seq(AnyFrame) /\ n \in Nat /\ Len(building) = n
      /\ \A i \in 1..n : Fits(building[i], i = 1) /\ building[i].fs = building[1].fs
      /\ n # 0 => building[1].fs = enc.fs
      /\ enc.prev = IF n = 0 THEN 0 ELSE building[n].typeOffset
      /\ Holds(RangeEncInit, building, TRUE, 0, MORE_FRAMES, enc.rc)
  <2>1. AreFrames(building, TRUE) /\ Len(building) = n
    BY DEF BuildingInv
  <2> HIDE DEF n
  <2>2. building \in Seq(AnyFrame) /\ n \in Nat
    BY <2>1 DEF AreFrames
  <2>3. \A i \in 1..n : Fits(building[i], TRUE /\ i = 1) /\ building[i].fs = building[1].fs
    BY <2>1 DEF AreFrames
  <2>4. \A i : (TRUE /\ i = 1) = (i = 1)
    OBVIOUS
  <2>5. \A i \in 1..n : Fits(building[i], i = 1) /\ building[i].fs = building[1].fs
    BY <2>3, <2>4
  <2> QED
    BY <2>1, <2>2, <2>5 DEF BuildingInv, n
<1>2. Fits(f, n = 0) /\ f \in AnyFrame /\ (n # 0 => f.fs = enc.fs)
  BY NextFrameIs
<1>3. RangeEncode(Parameters(f), FrameTermination_CDF, term)
        = EncodeSymbols(enc.rc, FramePart(f, n = 0, enc.prev, term))
  BY FrameIsCoded
<1> HIDE DEF n
<1>4. /\ more \in Seq(AnyFrame) /\ Len(more) = n + 1 /\ more[n + 1] = f
      /\ \A i \in 1..n : more[i] = building[i]
  BY <1>1, <1>2
<1> HIDE DEF more
<1>5. AreFrames(more, TRUE)
  <2>1. n + 1 = 1 <=> n = 0
    BY <1>1
  <2>2. \A i \in 1..n + 1 : i = n + 1 \/ i \in 1..n
    BY <1>1
  <2>3. n # 0 => 1 \in 1..n
    BY <1>1
  <2>4. n # 0 => more[1].fs = enc.fs
    BY <1>1, <1>4, <2>3
  <2>5. ASSUME NEW i \in 1..n + 1
        PROVE  Fits(more[i], TRUE /\ i = 1) /\ more[i].fs = more[1].fs
    <3>1. (TRUE /\ i = 1) = (i = 1)
      OBVIOUS
    <3>2. CASE i \in 1..n
      <4>1. n # 0 /\ more[i] = building[i] /\ building[i].fs = building[1].fs
        BY <1>1, <1>4, <3>2
      <4>2. Fits(more[i], i = 1)
        BY <1>1, <3>2, <4>1
      <4> QED
        BY <1>1, <2>4, <3>1, <4>1, <4>2
    <3>3. CASE i = n + 1
      <4>1. more[i] = f /\ (i = 1) = (n = 0)
        BY <1>4, <2>1, <3>3
      <4>2. Fits(more[i], i = 1)
        BY <1>2, <4>1
      <4>3. more[i].fs = more[1].fs
        BY <1>2, <2>1, <2>4, <3>3, <4>1
      <4> QED
        BY <3>1, <4>2, <4>3
    <3> QED
      BY <2>2, <3>2, <3>3
  <2> QED
    BY <1>4, <2>5 DEF AreFrames
<1>6. Holds(RangeEncInit, Append(building, f), TRUE, 0, term,
            EncodeSymbols(enc.rc, FramePart(f, TRUE /\ n = 0, IF n = 0 THEN 0 ELSE building[n].typeOffset, term)))
  <2>1. /\ building \in Seq(AnyFrame) /\ f \in AnyFrame /\ TRUE \in BOOLEAN
        /\ Holds(RangeEncInit, building, TRUE, 0, MORE_FRAMES, enc.rc)
    BY <1>1, <1>2
  <2> DEFINE k == Len(building)
  <2>2. Holds(RangeEncInit, Append(building, f), TRUE, 0, term,
              EncodeSymbols(enc.rc, FramePart(f, TRUE /\ k = 0, IF k = 0 THEN 0 ELSE building[k].typeOffset, term)))
    BY <2>1, HoldsMore, Zenon
  <2>3. k = n
    BY <1>1
  <2> QED
    BY <2>2, <2>3
<1>7. FramePart(f, TRUE /\ n = 0, IF n = 0 THEN 0 ELSE building[n].typeOffset, term)
        = FramePart(f, n = 0, enc.prev, term)
  <2>1. (TRUE /\ n = 0) = (n = 0)
    OBVIOUS
  <2> QED
    BY <1>1, <2>1
<1> QED
  BY <1>3, <1>5, <1>6, <1>7 DEF more

(* A frame that others will follow has joined the payload, or the payload has
   been given up. *)
LEMMA FrameIsBuilt ==
  ASSUME SenderInv, BuildingInv, NEW f \in NextFrames, NEW rc, rc = Parameters(f), EncodeFrame(f, rc)
  PROVE  BuildingInv' /\ (building' = <<>> \/ building' = Append(building, f)) /\ packet' = packet
<1> DEFINE n     == IF rc.error = OK THEN enc.n + 1 ELSE 0
           ended == RangeEncode(rc, FrameTermination_CDF, MORE_FRAMES)
           more  == Append(building, f)
<1>1. /\ n < FRAMES_PER_PACKET /\ packet' = packet
      /\ enc' = IF n = 0 THEN Idle(rc.error)
                ELSE [rc |-> ended, n |-> n, prev |-> f.typeOffset, fs |-> f.fs, error |-> ended.error]
      /\ building' = IF n = 0 THEN <<>> ELSE more
  BY Zenon DEF EncodeFrame
<1>2. CASE n = 0
  <2> HIDE DEF n, ended, more
  <2>1. enc' = Idle(rc.error) /\ building' = <<>>
    BY <1>1, <1>2
  <2> QED
    BY <1>1, <2>1, NothingBuilt
<1>3. CASE n # 0
  <2>1. IsTerm(MORE_FRAMES)
    BY IndexTables DEF IsTerm
  <2>2. AreFrames(more, TRUE) /\ Holds(RangeEncInit, more, TRUE, 0, MORE_FRAMES, ended)
    BY <2>1, FrameJoins
  <2>3. n = enc.n + 1
    BY <1>3
  <2>4. Len(building) = enc.n /\ building \in Seq(AnyFrame) /\ (enc.n # 0 => building[1].fs = enc.fs)
    BY DEF BuildingInv, AreFrames
  <2>5. f \in AnyFrame /\ (enc.n # 0 => f.fs = enc.fs)
    BY NextFrameIs
  <2> HIDE DEF n, ended
  <2>6. /\ Len(more) = enc.n + 1 /\ more[enc.n + 1] = f
        /\ enc.n # 0 => more[1] = building[1]
    BY <2>4, <2>5
  <2> HIDE DEF more
  <2>7. more[1].fs = f.fs
    BY <2>4, <2>5, <2>6
  <2>8. /\ enc'.rc = ended /\ enc'.n = n /\ enc'.prev = f.typeOffset /\ enc'.fs = f.fs
        /\ building' = more
    BY <1>1, <1>3
  <2>9. BuildingInv'
    BY <1>1, <1>3, <2>2, <2>3, <2>6, <2>7, <2>8 DEF BuildingInv
  <2> QED
    BY <1>1, <2>8, <2>9 DEF more
<1> QED
  BY <1>2, <1>3

(* A packet of whole frames: its coder has them, and unless it is too long, its
   bytes are the stream of the coder and the redundancy behind it. *)
IsPacket(p) ==
  /\ p.holds = Source("whole", p.holds.frames, p.holds.spare)
  /\ AreFrames(p.holds.frames, TRUE) /\ Len(p.holds.frames) \in 1..FRAMES_PER_PACKET
  /\ p.holds.spare \in Seq(Byte)
  /\ \E term : /\ IsTerm(term) /\ term # MORE_FRAMES
               /\ Holds(RangeEncInit, p.holds.frames, TRUE, 0, term, p.rc)
  /\ Len(p.bytes) <= MAX_ARITHM_BYTES =>
       /\ LengthInBytes(Len(p.rc.buffer), p.rc.range) <= MAX_ARITHM_BYTES
       /\ p.bytes = RangeEncWrapUp(p.rc) \o p.holds.spare

(* On its way is nothing, a stray packet, or the packet that was sent. *)
PacketInv == packet = NoPacket \/ packet.holds = Damaged \/ IsPacket(packet)

(* The bytes copied out are the stream, if all of it is in the buffer. *)
LEMMA CopiedOut ==
  ASSUME NEW e, Normal(e), e.error = OK, NEW spare \in Seq(Byte),
         LET nBytes == LengthInBytes(Len(e.buffer), e.range)
             stream == RangeEncWrapUp(e)
         IN Len([i \in 1..nBytes |-> IF i <= Len(stream) THEN stream[i] ELSE 0] \o spare)
              <= MAX_ARITHM_BYTES
  PROVE  LET nBytes == LengthInBytes(Len(e.buffer), e.range)
             stream == RangeEncWrapUp(e)
         IN /\ nBytes <= MAX_ARITHM_BYTES
            /\ [i \in 1..nBytes |-> IF i <= Len(stream) THEN stream[i] ELSE 0] \o spare = stream \o spare
<1> DEFINE nBytes == LengthInBytes(Len(e.buffer), e.range)
           stream == RangeEncWrapUp(e)
           part == [i \in 1..nBytes |-> IF i <= Len(stream) THEN stream[i] ELSE 0]
<1>1. nBytes \in Nat
  BY StreamLength
<1>2. stream \in Seq(Byte)
  BY WrapUpKeepsBytes
<1>3. nBytes <= MAX_ARITHM_BYTES => Len(stream) = nBytes
  BY StreamIs
<1>4. Len(part \o spare) <= MAX_ARITHM_BYTES
  OBVIOUS
<1> HIDE DEF nBytes, stream
<1>5. /\ part \in Seq(Byte) /\ Len(part) = nBytes
      /\ \A i \in 1..nBytes : part[i] = IF i <= Len(stream) THEN stream[i] ELSE 0
  <2>1. 0 \in Byte
    BY Powers DEF Byte
  <2>2. \A i \in 1..nBytes : (IF i <= Len(stream) THEN stream[i] ELSE 0) \in Byte
    BY <1>1, <1>2, <2>1
  <2> QED
    BY <1>1, <2>2
<1> HIDE DEF part
<1>6. Len(part \o spare) = nBytes + Len(spare) /\ Len(spare) \in Nat
  BY <1>5
<1>7. nBytes <= MAX_ARITHM_BYTES
  BY <1>1, <1>4, <1>6, BufferAssumption
<1>8. part = stream
  <2>1. Len(stream) = nBytes
    BY <1>3, <1>7
  <2>2. \A i \in 1..nBytes : part[i] = stream[i]
    BY <1>1, <1>5, <2>1
  <2> QED
    BY <1>2, <1>5, <2>1, <2>2, SameSequence
<1> QED
  BY <1>7, <1>8 DEF part, stream, nBytes

(* The last frame has been sent with those before it, or the packet has been
   given up. *)
LEMMA LastFrameIsSent ==
  ASSUME SenderInv, BuildingInv, NEW f \in NextFrames, NEW rc, rc = Parameters(f),
         NEW r \in Redundancy, EncodeLastFrame(f, rc, r.term, r.lbrr)
  PROVE  /\ BuildingInv' /\ building' = <<>>
         /\ packet' = NoPacket
              \/ (IsPacket(packet)' /\ packet'.holds.frames = Append(building, f))
<1> DEFINE ended  == RangeEncode(rc, FrameTermination_CDF, r.term)
           nBytes == LengthInBytes(Len(ended.buffer), ended.range)
           stream == RangeEncWrapUp(ended)
           spare  == IF r.term > MORE_FRAMES /\ MAX_BYTES_OUT >= nBytes + Len(r.lbrr)
                     THEN r.lbrr ELSE <<>>
           part   == [i \in 1..nBytes |-> IF i <= Len(stream) THEN stream[i] ELSE 0]
           more   == Append(building, f)
           sent   == [bytes |-> part \o spare, holds |-> Source("whole", more, spare), rc |-> ended]
<1>1. /\ enc.n + 1 >= FRAMES_PER_PACKET /\ enc' = Idle(ended.error) /\ building' = <<>>
      /\ packet' = NoPacket \/ (packet' = sent /\ ended.error = OK)
  BY DEF EncodeLastFrame
<1>2. BuildingInv'
  BY <1>1, NothingBuilt
<1>3. IsTerm(r.term) /\ r.term # MORE_FRAMES
  BY PayloadAssumption DEF IsTerm
<1>4. Normal(ended)
  <2>1. Normal(rc)
    BY ParametersAreNormal
  <2> QED
    BY <1>3, <2>1, TerminatedIsNormal DEF IsTerm
<1>5. AreFrames(more, TRUE) /\ Holds(RangeEncInit, more, TRUE, 0, r.term, ended)
  BY <1>3, FrameJoins
<1>6. Len(more) \in 1..FRAMES_PER_PACKET
  <2>1. building \in Seq(AnyFrame) /\ Len(building) = enc.n /\ enc.n < FRAMES_PER_PACKET
    BY DEF BuildingInv, AreFrames
  <2>2. f \in AnyFrame
    BY NextFrameIs
  <2>3. Len(more) = enc.n + 1 /\ enc.n \in Nat
    BY <2>1, <2>2
  <2>4. FRAMES_PER_PACKET \in Nat
    BY FrameAssumption
  <2> HIDE DEF more
  <2> QED
    BY <2>1, <2>3, <2>4
<1>7. spare \in Seq(Byte)
  BY PayloadAssumption
<1> HIDE DEF more, spare
<1>8. ASSUME ended.error = OK, Len(part \o spare) <= MAX_ARITHM_BYTES
      PROVE  nBytes <= MAX_ARITHM_BYTES /\ part \o spare = stream \o spare
  <2> HIDE DEF ended
  <2> QED
    BY <1>4, <1>7, <1>8, CopiedOut
<1> HIDE DEF part, nBytes, stream
<1>9. ASSUME packet' = sent, ended.error = OK PROVE IsPacket(packet)' /\ packet'.holds.frames = more
  <2>1. /\ packet'.bytes = part \o spare /\ packet'.rc = ended
        /\ packet'.holds = Source("whole", more, spare)
        /\ packet'.holds.frames = more /\ packet'.holds.spare = spare
    BY <1>9 DEF Source
  <2> HIDE DEF ended
  <2>2. Len(packet'.bytes) <= MAX_ARITHM_BYTES =>
          /\ LengthInBytes(Len(packet'.rc.buffer), packet'.rc.range) <= MAX_ARITHM_BYTES
          /\ packet'.bytes = RangeEncWrapUp(packet'.rc) \o packet'.holds.spare
    BY <1>8, <1>9, <2>1 DEF nBytes, stream
  <2>3. \E term : /\ IsTerm(term) /\ term # MORE_FRAMES
                  /\ Holds(RangeEncInit, packet'.holds.frames, TRUE, 0, term, packet'.rc)
    BY <1>3, <1>5, <2>1
  <2> QED
    BY <1>5, <1>6, <1>7, <2>1, <2>2, <2>3 DEF IsPacket
<1> QED
  BY <1>1, <1>2, <1>9 DEF more

-----------------------------------------------------------------------------
(* The receiver's side of the stream: nothing that was sent, or frames of which
   some have been heard, and that are still before the decoder. *)
IsRest(source) ==
  /\ source = Source("whole", source.frames, source.spare)
  /\ AreFrames(source.frames, FALSE) /\ Len(source.frames) >= 1
  /\ dec.n + Len(source.frames) <= 5
  /\ source.frames[1].fs = dec.fs /\ dec.book = BookOf(dec.fs)
  /\ Ahead(dec.rc, source.frames, FALSE, dec.prev, source.spare)

(* Between two calls of the decoder its payload is a stray one, or has the rest
   of the frames ahead; between two packets it has none. *)
PlayingInv ==
  IF dec.more THEN packet = NoPacket /\ dec.n \in 1..4 /\ (playing = Damaged \/ IsRest(playing))
  ELSE playing = NoSource /\ dec.n = 0 /\ dec.prev = 0

(* What was heard, and where its redundancy was. *)
HeardInv == RedundancyFound /\ (heard = NothingHeard \/ heard.kind \in {"concealed", "error", "whole"})

(* The frames that the decoder is about to decode the first of. *)
IsNext(rc, source) ==
  /\ source = Source("whole", source.frames, source.spare)
  /\ AreFrames(source.frames, dec.n = 0) /\ Len(source.frames) >= 1
  /\ dec.n \in 0..4 /\ dec.n + Len(source.frames) <= 5
  /\ Suits(Unknown(rc), source.frames[1].fs)
  /\ Ahead(rc, source.frames, dec.n = 0, dec.prev, source.spare)

(* What DecodeFrame() makes of a source, by the outcome of the frame. *)
LEMMA DecodeFrameIs ==
  ASSUME NEW rc, NEW source, DecodeFrame(rc, source)
  PROVE  LET d    == DecodeParameters(rc)
             c    == Checked(d.rc)
             left == nBytesLeft(c)
             more == c.error = OK /\ left > 0 /\ d.term = MORE_FRAMES /\ dec.n + 1 < 5
         IN /\ dec'.rc = IF more THEN c ELSE NoCoder
            /\ dec'.n = IF more THEN dec.n + 1 ELSE 0
            /\ dec'.prev = IF more THEN d.typeOffset ELSE 0
            /\ dec'.fs = IF c.error = OK THEN d.fs ELSE dec.fs
            /\ dec'.book = d.book /\ dec'.more = more
            /\ heard' = IF c.error # OK THEN Corrupt
                        ELSE [kind |-> "whole", frames |-> <<FrameOf(d)>>, left |-> left, source |-> source]
            /\ playing' = IF more THEN [source EXCEPT !.frames = SubSeq(@, 2, Len(@))] ELSE NoSource
<1> DEFINE d    == DecodeParameters(rc)
           c    == Checked(d.rc)
           left == nBytesLeft(c)
           more == c.error = OK /\ left > 0 /\ d.term = MORE_FRAMES /\ dec.n + 1 < 5
<1>1. /\ dec' = [rc   |-> IF more THEN c ELSE NoCoder,
                 n    |-> IF more THEN dec.n + 1 ELSE 0,
                 prev |-> IF more THEN d.typeOffset ELSE 0,
                 fs   |-> IF c.error = OK THEN d.fs ELSE dec.fs,
                 book |-> d.book,
                 more |-> more]
      /\ heard' = IF c.error # OK THEN Corrupt
                  ELSE [kind |-> "whole", frames |-> <<FrameOf(d)>>, left |-> left, source |-> source]
      /\ playing' = IF more THEN [source EXCEPT !.frames = SubSeq(@, 2, Len(@))] ELSE NoSource
  BY Zenon DEF DecodeFrame
<1> HIDE DEF d, c, left, more
<1>2. /\ dec'.rc = IF more THEN c ELSE NoCoder
      /\ dec'.n = IF more THEN dec.n + 1 ELSE 0
      /\ dec'.prev = IF more THEN d.typeOffset ELSE 0
      /\ dec'.fs = IF c.error = OK THEN d.fs ELSE dec.fs
      /\ dec'.book = d.book /\ dec'.more = more
  BY <1>1
<1> QED
  BY <1>1, <1>2 DEF d, c, left, more

(* What is left of a source behind its first frame. *)
LEMMA RestOfSource ==
  ASSUME NEW s, NEW frames, NEW spare, s = Source("whole", frames, spare)
  PROVE  [s EXCEPT !.frames = SubSeq(@, 2, Len(@))] = Source("whole", Rest(frames), spare)
<1> DEFINE rest == SubSeq(frames, 2, Len(frames))
<1>1. s = [kind |-> "whole", frames |-> frames, spare |-> spare]
  BY DEF Source
<1>2. [s EXCEPT !.frames = SubSeq(@, 2, Len(@))] = [s EXCEPT !.frames = rest]
  <2>1. s.frames = frames
    BY <1>1
  <2> QED
    BY <2>1
<1> HIDE DEF rest
<1>3. [s EXCEPT !.frames = rest] = [kind |-> "whole", frames |-> rest, spare |-> spare]
  BY <1>1
<1> QED
  BY <1>2, <1>3 DEF Source, Rest, rest

(* The frame of a packet that arrived whole. *)
LEMMA WholePlays ==
  ASSUME ReceiverInv, NEW rc \in Reader, NEW source, IsNext(rc, source), DecodeFrame(rc, source),
         packet' = NoPacket
  PROVE  /\ PlayingInv' /\ HeardInv'
         /\ heard'.kind = "whole" /\ heard'.frames = <<source.frames[1]>>
         /\ playing' = IF Len(source.frames) = 1 THEN NoSource
                       ELSE Source("whole", Rest(source.frames), source.spare)
         /\ ~Astray'
<1> DEFINE u == Unknown(rc)
           d == DecodeParameters(rc)
           c == Checked(d.rc)
           frames == source.frames
           spare == source.spare
           left == nBytesLeft(c)
           more == c.error = OK /\ left > 0 /\ d.term = MORE_FRAMES /\ dec.n + 1 < 5
<1>1. /\ dec'.rc = IF more THEN c ELSE NoCoder
      /\ dec'.n = IF more THEN dec.n + 1 ELSE 0
      /\ dec'.prev = IF more THEN d.typeOffset ELSE 0
      /\ dec'.fs = IF c.error = OK THEN d.fs ELSE dec.fs
      /\ dec'.book = d.book /\ dec'.more = more
      /\ heard' = IF c.error # OK THEN Corrupt
                  ELSE [kind |-> "whole", frames |-> <<FrameOf(d)>>, left |-> left, source |-> source]
      /\ playing' = IF more THEN [source EXCEPT !.frames = SubSeq(@, 2, Len(@))] ELSE NoSource
  BY DecodeFrameIs, Zenon
<1>2. u \in Sized(0, 0) /\ u.first = (dec.n = 0) /\ u.typeOffset = dec.prev
  <2>1. u \in Sized(0, 0)
    BY UnknownIs
  <2> QED
    BY <2>1 DEF Unknown
<1>3. FramePlayed(d, frames, spare)
  <2>1. /\ AreFrames(frames, u.first) /\ Len(frames) >= 1 /\ Suits(u, frames[1].fs)
        /\ Ahead(rc, frames, u.first, u.typeOffset, spare)
    BY <1>2, Zenon DEF IsNext
  <2>2. u = Unknown(rc)
    OBVIOUS
  <2> HIDE DEF u, frames, spare
  <2> QED
    BY <1>2, <2>1, <2>2, FramePlays
<1>4. /\ d \in Frames /\ FrameOf(d) = frames[1]
      /\ d.typeOffset = frames[1].typeOffset /\ d.fs = frames[1].fs /\ d.book = BookOf(d.fs)
      /\ c = d.rc /\ c.error = OK
      /\ IF Len(frames) = 1 THEN d.term # MORE_FRAMES /\ left = Len(spare)
         ELSE /\ d.term = MORE_FRAMES /\ left > Len(spare)
              /\ Ahead(c, Rest(frames), FALSE, frames[1].typeOffset, spare)
  BY <1>3, Zenon DEF FramePlayed
<1>5. /\ source = Source("whole", frames, spare)
      /\ AreFrames(frames, dec.n = 0) /\ Len(frames) >= 1
      /\ dec.n \in 0..4 /\ dec.n + Len(frames) <= 5
  BY DEF IsNext
<1> DEFINE m == Len(frames)
           k == Len(spare)
<1>6. m \in Nat /\ m >= 1 /\ frames \in Seq(AnyFrame)
  BY <1>5 DEF AreFrames
<1>7. k \in Nat
  <2>1. Ahead(rc, frames, dec.n = 0, dec.prev, spare)
    BY Zenon DEF IsNext
  <2>2. spare \in Seq(Byte)
    BY <2>1 DEF Ahead, Sealed
  <2> QED
    BY <2>2
<1>8. left \in Int
  <2>1. d.rc \in Reader
    BY <1>4, FrameParts
  <2>2. c \in Reader
    BY <1>4, <2>1
  <2> HIDE DEF c
  <2>3. c.length \in Nat /\ c.ix \in Nat /\ c.range \in B..B2 - 1
    BY <2>2, ReaderParts
  <2> DEFINE K == c.ix
             range == c.range
  <2>4. LengthInBytes(K, range) = K + LastBytes(BitsToStore(range))
    BY <2>3, LengthIs
  <2>5. LastBytes(BitsToStore(range)) \in Nat
    BY DEF LastBytes
  <2>6. LengthInBytes(K, range) \in Nat
    BY <2>3, <2>4, <2>5
  <2> QED
    BY <2>3, <2>6 DEF nBytesLeft
<1> HIDE DEF u, d, c, left
<1>9. heard' = [kind |-> "whole", frames |-> <<frames[1]>>, left |-> left, source |-> source]
  BY <1>1, <1>4
<1>10. more <=> m # 1
  <2>1. CASE m = 1
    BY <1>4, <2>1
  <2>2. CASE m # 1
    <3>1. left > k /\ d.term = MORE_FRAMES /\ c.error = OK
      BY <1>4, <2>2
    <3>2. dec.n + m <= 5 /\ dec.n \in Nat
      BY <1>5
    <3> HIDE DEF m, k
    <3>3. left > 0
      BY <1>7, <1>8, <3>1
    <3>4. dec.n + 1 < 5
      BY <1>6, <2>2, <3>2
    <3> QED
      BY <2>2, <3>1, <3>3, <3>4
  <2> QED
    BY <2>1, <2>2
<1>11. playing' = IF m = 1 THEN NoSource ELSE Source("whole", Rest(frames), spare)
  <2>1. [source EXCEPT !.frames = SubSeq(@, 2, Len(@))] = Source("whole", Rest(frames), spare)
    <3> HIDE DEF more, m, frames, spare
    <3> QED
      BY <1>5, RestOfSource
  <2> HIDE DEF more, m, frames
  <2> QED
    BY <1>1, <1>10, <2>1
<1>12. HeardInv'
  <2>1. heard'.source = source /\ heard'.left = left /\ heard'.kind = "whole"
    BY <1>9
  <2>2. source.frames = frames /\ source.spare = spare
    OBVIOUS
  <2>3. IF Len(frames) = 1 THEN left = Len(spare) ELSE left > Len(spare)
    BY <1>4
  <2> HIDE DEF frames, spare
  <2>4. RedundancyFound'
    BY <2>1, <2>2, <2>3 DEF RedundancyFound
  <2> QED
    BY <2>1, <2>4 DEF HeardInv
<1>13. PlayingInv'
  <2>1. CASE m = 1
    <3>1. ~dec'.more /\ dec'.n = 0 /\ dec'.prev = 0
      BY <1>1, <1>10, <2>1
    <3>2. playing' = NoSource
      BY <1>11, <2>1
    <3> QED
      BY <3>1, <3>2 DEF PlayingInv
  <2>2. CASE m # 1
    <3>1. /\ dec'.more /\ dec'.n = dec.n + 1 /\ dec'.prev = d.typeOffset /\ dec'.rc = c
          /\ dec'.fs = d.fs /\ dec'.book = d.book
      BY <1>1, <1>4, <1>10, <2>2
    <3> DEFINE rest == Rest(frames)
    <3>2. m >= 2
      <4> HIDE DEF m
      <4> QED
        BY <1>6, <2>2
    <3>3. AreFrames(rest, FALSE) /\ Len(rest) = m - 1 /\ rest[1].fs = frames[1].fs
      BY <1>5, <3>2, RestIs
    <3>4. Ahead(c, rest, FALSE, frames[1].typeOffset, spare)
      BY <1>4, <2>2
    <3> HIDE DEF rest, m
    <3>5. Len(rest) >= 1 /\ dec'.n + Len(rest) <= 5 /\ dec'.n \in 1..4
      BY <1>5, <1>6, <1>10, <2>2, <3>1, <3>2, <3>3 DEF m
    <3>6. /\ playing' = Source("whole", rest, spare) /\ playing'.frames = rest
          /\ playing'.spare = spare
      BY <1>11, <2>2 DEF rest, Source
    <3> HIDE DEF frames, spare
    <3>7. rest[1].fs = dec'.fs /\ dec'.book = BookOf(dec'.fs)
      BY <1>4, <3>1, <3>3
    <3>8. Ahead(dec'.rc, rest, FALSE, dec'.prev, spare)
      BY <1>4, <3>1, <3>4
    <3>9. IsRest(playing)'
      BY <3>3, <3>5, <3>6, <3>7, <3>8 DEF IsRest
    <3> QED
      BY <3>1, <3>5, <3>9 DEF PlayingInv
  <2> QED
    BY <2>1, <2>2
<1>14. ~Astray'
  <2>1. dec'.fs = d.fs /\ dec'.book = BookOf(d.fs)
    BY <1>1, <1>4
  <2> QED
    BY <2>1 DEF Astray
<1> QED
  BY <1>9, <1>11, <1>12, <1>13, <1>14 DEF m

(* A frame of what nobody sent, or of a packet that is decoded with a codebook
   that is not its own. *)
LEMMA DamagedPlays ==
  ASSUME NEW rc, DecodeFrame(rc, Damaged), packet' = NoPacket, dec.n \in 0..4
  PROVE  /\ PlayingInv' /\ HeardInv'
         /\ heard'.kind \in {"error", "whole"} /\ playing' \in {NoSource, Damaged}
<1> DEFINE d == DecodeParameters(rc)
           c == Checked(d.rc)
           left == nBytesLeft(c)
           more == c.error = OK /\ left > 0 /\ d.term = MORE_FRAMES /\ dec.n + 1 < 5
<1>1. /\ dec'.n = IF more THEN dec.n + 1 ELSE 0
      /\ dec'.prev = IF more THEN d.typeOffset ELSE 0
      /\ dec'.more = more
      /\ heard' = IF c.error # OK THEN Corrupt
                  ELSE [kind |-> "whole", frames |-> <<FrameOf(d)>>, left |-> left, source |-> Damaged]
      /\ playing' = IF more THEN [Damaged EXCEPT !.frames = SubSeq(@, 2, Len(@))] ELSE NoSource
  BY DecodeFrameIs, Zenon
<1>2. more => dec.n + 1 < 5
  OBVIOUS
<1> HIDE DEF d, c, left, more
<1>3. [Damaged EXCEPT !.frames = SubSeq(@, 2, Len(@))] = Damaged
  <2>1. SubSeq(<<>>, 2, Len(<<>>)) = <<>>
    <3> DEFINE s == SubSeq(<<>>, 2, 0)
    <3>1. s = [i \in 1..(0 - 2 + 1) |-> <<>>[2 + i - 1]]
      BY DEF SubSeq
    <3> QED
      OBVIOUS
  <2> QED
    BY <2>1 DEF Damaged, Source
<1>4. playing' \in {NoSource, Damaged} /\ (more => playing' = Damaged) /\ (~more => playing' = NoSource)
  BY <1>1, <1>3
<1>5. PlayingInv'
  <2>1. CASE more
    <3>1. dec'.more /\ dec'.n = dec.n + 1 /\ playing' = Damaged
      BY <1>1, <1>4, <2>1
    <3>2. dec'.n \in 1..4
      BY <1>2, <2>1, <3>1
    <3> QED
      BY <3>1, <3>2 DEF PlayingInv
  <2>2. CASE ~more
    <3>1. ~dec'.more /\ dec'.n = 0 /\ dec'.prev = 0 /\ playing' = NoSource
      BY <1>1, <1>4, <2>2
    <3> QED
      BY <3>1 DEF PlayingInv
  <2> QED
    BY <2>1, <2>2
<1>6. heard'.kind \in {"error", "whole"} /\ heard'.source.kind # "whole"
  <2>1. Corrupt.kind = "error" /\ Corrupt.source.kind # "whole" /\ Damaged.kind # "whole"
    BY DEF Corrupt, NothingHeard, NoSource, Damaged, Source
  <2> QED
    BY <1>1, <2>1
<1>7. HeardInv'
  <2>1. RedundancyFound'
    BY <1>6, Zenon DEF RedundancyFound
  <2> QED
    BY <1>6, <2>1 DEF HeardInv
<1> QED
  BY <1>4, <1>5, <1>6, <1>7

(* What has been concealed is no frame of a packet. *)
LEMMA ConcealedIsHeard ==
  ASSUME heard' = Concealed
  PROVE  HeardInv' /\ heard'.kind = "concealed"
<1>1. Concealed.kind = "concealed" /\ Concealed.source.kind # "whole"
  BY DEF Concealed, NothingHeard, NoSource, Source
<1>2. RedundancyFound'
  BY <1>1, Zenon DEF RedundancyFound
<1> QED
  BY <1>1, <1>2 DEF HeardInv

(* Nothing has been heard. *)
LEMMA NothingIsHeard ==
  ASSUME heard' = NothingHeard
  PROVE  HeardInv'
<1>1. NothingHeard.source.kind # "whole"
  BY DEF NothingHeard, NoSource, Source
<1>2. RedundancyFound'
  BY <1>1, Zenon DEF RedundancyFound
<1> QED
  BY <1>2 DEF HeardInv

(* A packet that was sent, and is not misread, when it is not too long. *)
LEMMA SentIsNext ==
  ASSUME SenderInv, ReceiverInv, PlayingInv, ~dec.more, IsPacket(packet), ~Misread,
         Len(packet.bytes) <= MAX_ARITHM_BYTES, NEW stale \in Byte
  PROVE  IsNext(RangeDecInit(packet.bytes, stale), packet.holds)
<1> DEFINE rc == RangeDecInit(packet.bytes, stale)
           frames == packet.holds.frames
           spare == packet.holds.spare
           last == packet.rc
<1>1. /\ packet.holds = Source("whole", frames, spare)
      /\ AreFrames(frames, TRUE) /\ Len(frames) \in 1..FRAMES_PER_PACKET
      /\ spare \in Seq(Byte)
  BY DEF IsPacket
<1>2. PICK term : /\ IsTerm(term) /\ term # MORE_FRAMES
                  /\ Holds(RangeEncInit, frames, TRUE, 0, term, last)
  BY DEF IsPacket
<1>3. /\ LengthInBytes(Len(last.buffer), last.range) <= MAX_ARITHM_BYTES
      /\ packet.bytes = RangeEncWrapUp(last) \o spare
  BY Zenon DEF IsPacket
<1>4. dec.n = 0 /\ dec.prev = 0
  BY DEF PlayingInv
<1>5. packet.bytes \in Seq(Byte) /\ Normal(last) /\ last.error = OK
  BY DEF SenderInv, ReceiverInv
<1>6. packet.holds.kind = "whole"
  BY <1>1 DEF Source
<1>7. ~(Astray /\ frames[1].fs = dec.fs)
  BY <1>6, Zenon DEF Misread
<1>8. InStep(RangeEncInit, rc) /\ Normal(RangeEncInit)
  BY <1>5, StartsInStep, EncoderStartsNormal
<1>9. rc.length = Len(packet.bytes) /\ rc.buffer = WithinReach(packet.bytes, stale)
  BY DEF RangeDecInit, WithinReach
<1>10. Suits(Unknown(rc), frames[1].fs)
  <2>1. /\ Unknown(rc).first = (dec.n = 0) /\ Unknown(rc).fs = dec.fs /\ Unknown(rc).book = dec.book
    BY DEF Unknown
  <2>2. Unknown(rc).first
    BY <1>4, <2>1
  <2>3. dec.fs = frames[1].fs => dec.book = BookOf(frames[1].fs)
    BY <1>7, Zenon DEF Astray
  <2> QED
    BY <2>1, <2>2, <2>3 DEF Suits
<1> HIDE DEF rc, frames, spare, last
<1>11. Sealed(last, spare, rc)
  BY <1>1, <1>3, <1>5, <1>9 DEF Sealed
<1>12. Ahead(rc, frames, TRUE, 0, spare)
  <2>1. /\ Normal(RangeEncInit) /\ InStep(RangeEncInit, rc) /\ IsTerm(term) /\ term # MORE_FRAMES
        /\ Holds(RangeEncInit, frames, TRUE, 0, term, last) /\ Sealed(last, spare, rc)
    BY <1>2, <1>8, <1>11
  <2> QED
    BY <2>1, Zenon DEF Ahead
<1>13. (dec.n = 0) = TRUE /\ dec.n \in 0..4
  BY <1>4
<1>14. Len(frames) >= 1 /\ dec.n + Len(frames) <= 5
  <2> DEFINE m == Len(frames)
  <2>1. m \in 1..FRAMES_PER_PACKET /\ FRAMES_PER_PACKET \in 1..5
    BY <1>1, FrameAssumption
  <2> HIDE DEF m
  <2>2. m >= 1 /\ 0 + m <= 5
    BY <2>1
  <2> QED
    BY <1>4, <2>2 DEF m
<1>15. AreFrames(frames, dec.n = 0) /\ Ahead(rc, frames, dec.n = 0, dec.prev, spare)
  BY <1>1, <1>4, <1>12, <1>13
<1>16. IsNext(rc, packet.holds)
  BY <1>1, <1>10, <1>13, <1>14, <1>15 DEF IsNext, frames, spare
<1> QED
  BY <1>16 DEF rc

-----------------------------------------------------------------------------
(* How a source is seen in FramePipe. *)
Shown(source) == [kind |-> source.kind, frames |-> source.frames]

(* The sources without frames. *)
LEMMA ShownAre ==
  /\ Shown(NoSource) = Pipe!Nothing /\ Shown(Damaged) = Pipe!Damaged
  /\ Shown(NothingHeard) = Pipe!Nothing /\ Shown(Concealed) = Pipe!Concealed
  /\ Pipe!Damaged # Pipe!Nothing /\ Pipe!Damaged.kind = "damaged" /\ Pipe!Concealed.kind = "concealed"
  /\ Pipe!Nothing.kind = "nothing"
BY DEF Shown, NoSource, Damaged, NothingHeard, Concealed, Source,
       Pipe!Nothing, Pipe!Damaged, Pipe!Concealed, Pipe!Is

(* The frames of a source, and what is left of them behind the first. *)
LEMMA FramesShown ==
  ASSUME NEW source, source = Source("whole", source.frames, source.spare),
         NEW first, AreFrames(source.frames, first), Len(source.frames) >= 1
  PROVE  /\ Shown(source).kind = "whole" /\ Shown(source).frames = source.frames
         /\ Pipe!Whole(<<Head(Shown(source).frames)>>) = [kind |-> "whole", frames |-> <<source.frames[1]>>]
         /\ Pipe!Whole(Tail(Shown(source).frames))
              = Shown(IF Len(source.frames) = 1 THEN NoSource
                      ELSE Source("whole", Rest(source.frames), source.spare))
<1> DEFINE frames == source.frames
           rest == Rest(frames)
           n == Len(frames)
<1>1. Shown(source).kind = "whole" /\ Shown(source).frames = frames
  BY DEF Shown, Source
<1>2. frames \in Seq(AnyFrame) /\ n \in Nat /\ n >= 1
  BY DEF AreFrames
<1> HIDE DEF frames
<1>3. Head(frames) = frames[1]
  BY <1>2
<1>4. Pipe!Whole(<<frames[1]>>) = [kind |-> "whole", frames |-> <<frames[1]>>]
  <2>1. <<frames[1]>> # <<>>
    OBVIOUS
  <2> QED
    BY <2>1, Zenon DEF Pipe!Whole, Pipe!Is
<1>5. Pipe!Whole(Tail(frames)) = Shown(IF n = 1 THEN NoSource ELSE Source("whole", rest, source.spare))
  <2>1. /\ Tail(frames) \in Seq(AnyFrame) /\ Len(Tail(frames)) = n - 1
        /\ \A i \in 1..n - 1 : Tail(frames)[i] = frames[i + 1]
    BY <1>2
  <2>2. CASE n = 1
    <3> DEFINE t == Tail(frames)
    <3>1. t \in Seq(AnyFrame) /\ Len(t) = 0
      BY <2>1, <2>2
    <3> HIDE DEF t
    <3>2. t = <<>>
      BY <3>1
    <3>3. Tail(frames) = <<>>
      BY <3>2 DEF t
    <3> QED
      BY <2>2, <3>3, ShownAre DEF Pipe!Whole
  <2>3. CASE n # 1
    <3>1. n >= 2 /\ n - 1 >= 1
      <4> HIDE DEF n
      <4> QED
        BY <1>2, <2>3
    <3>2. /\ rest \in Seq(AnyFrame) /\ Len(rest) = n - 1
          /\ \A i \in 1..n - 1 : rest[i] = frames[i + 1]
      BY <1>2, <3>1 DEF Rest
    <3> DEFINE t == Tail(frames)
    <3> HIDE DEF t, rest
    <3>3. \A i \in 1..Len(t) : t[i] = rest[i]
      BY <2>1, <3>2 DEF t
    <3>4. t = rest
      BY <2>1, <3>2, <3>3, SameSequence DEF t
    <3>5. rest # <<>>
      <4> HIDE DEF n
      <4> QED
        BY <3>1, <3>2
    <3>6. Pipe!Whole(rest) = [kind |-> "whole", frames |-> rest]
      BY <3>5, Zenon DEF Pipe!Whole, Pipe!Is
    <3> QED
      BY <2>3, <3>4, <3>6 DEF Shown, Source, t
  <2> QED
    BY <2>2, <2>3
<1> QED
  BY <1>1, <1>3, <1>4, <1>5 DEF frames

(* A packet on its way is seen, and none is not. *)
LEMMA FlightIs ==
  /\ packet = NoPacket => packet.holds = NoSource
  /\ PacketInv /\ packet # NoPacket => packet.holds.kind # "nothing"
<1>1. NoPacket.holds = NoSource
  BY DEF NoPacket
<1>2. Damaged.kind # "nothing"
  BY DEF Damaged, Source
<1>3. IsPacket(packet) => packet.holds.kind = "whole"
  <2>1. IsPacket(packet) => packet.holds = Source("whole", packet.holds.frames, packet.holds.spare)
    BY DEF IsPacket
  <2> QED
    BY <2>1 DEF Source
<1>4. PacketInv /\ packet # NoPacket => packet.holds = Damaged \/ IsPacket(packet)
  BY DEF PacketInv
<1> QED
  BY <1>1, <1>2, <1>3, <1>4

(* The rate whose packets are misread, as it is seen in FramePipe. *)
Lost == IF Astray THEN {dec.fs} ELSE {}

-----------------------------------------------------------------------------
(* The stream, from the frames that are being encoded to what is heard. *)
PartsInv == BuildingInv /\ PacketInv /\ PlayingInv /\ HeardInv

(* The inductive invariant of the stream. *)
StreamInv == SenderInv /\ ReceiverInv /\ PartsInv

(* What a step keeps, and what it is in FramePipe. *)
StreamFollows == PartsInv' /\ [Pipe!Next]_(Pipe!vars)

(* One frame more. *)
LEMMA OneFrameMore ==
  ASSUME NEW T, NEW s \in Seq(T), NEW f \in T
  PROVE  Len(Append(s, f)) = Len(s) + 1 /\ SubSeq(Append(s, f), 1, Len(s)) = s
<1> DEFINE n == Len(s)
           t == Append(s, f)
           u == SubSeq(t, 1, n)
<1>1. n \in Nat /\ t \in Seq(T) /\ Len(t) = n + 1 /\ \A i \in 1..n : t[i] = s[i]
  OBVIOUS
<1> HIDE DEF t, n
<1>2. u \in Seq(T) /\ Len(u) = n /\ \A i \in 1..n : u[i] = t[i]
  <2>1. CASE n = 0
    <3>1. u = [i \in 1..(0 - 1 + 1) |-> t[1 + i - 1]]
      BY <2>1 DEF SubSeq
    <3> QED
      BY <2>1, <3>1
  <2>2. CASE n >= 1
    BY <1>1, <2>2
  <2> QED
    BY <1>1, <2>1, <2>2
<1> HIDE DEF u
<1>3. u = s
  BY <1>1, <1>2, SameSequence DEF n
<1> QED
  BY <1>1, <1>3 DEF t, n, u

(* Nothing but the frames in the encoder changes. *)
LEMMA BuildFollows ==
  ASSUME StreamInv, UNCHANGED <<packet, dec, playing, heard>>, BuildingInv',
         building' = <<>> \/ \E f \in AnyFrame : building' = Append(building, f)
  PROVE  StreamFollows
<1>1. PacketInv' /\ PlayingInv' /\ HeardInv'
  <2>1. PacketInv /\ PlayingInv /\ HeardInv
    BY DEF StreamInv, PartsInv
  <2>2. PacketInv'
    BY <2>1 DEF PacketInv, IsPacket
  <2>3. PlayingInv'
    BY <2>1 DEF PlayingInv, IsRest
  <2>4. HeardInv'
    BY <2>1 DEF HeardInv, RedundancyFound
  <2> QED
    BY <2>2, <2>3, <2>4
<1>2. Lost' = Lost
  BY DEF Lost, Astray
<1>3. building' = <<>> \/ Pipe!OneMore(building')
  <2>1. building \in Seq(AnyFrame)
    BY DEF StreamInv, PartsInv, BuildingInv, AreFrames
  <2>2. ASSUME NEW f \in AnyFrame, building' = Append(building, f) PROVE Pipe!OneMore(building')
    BY <2>1, <2>2, OneFrameMore DEF Pipe!OneMore
  <2> QED
    BY <2>2
<1>4. Pipe!Build
  BY <1>2, <1>3 DEF Pipe!Build, Lost
<1> QED
  BY <1>1, <1>4 DEF StreamFollows, PartsInv, Pipe!Next

(* A frame is encoded. *)
LEMMA EncodeFollowed ==
  ASSUME StreamInv, Encode
  PROVE  StreamFollows
<1>1. SenderInv /\ BuildingInv /\ PacketInv /\ PlayingInv /\ HeardInv
  BY DEF StreamInv, PartsInv
<1>2. /\ packet = NoPacket /\ ~dec.more /\ heard = NothingHeard
      /\ dec' = dec /\ playing' = playing /\ heard' = heard
  BY DEF Encode
<1>3. PICK f \in NextFrames : \E rc \in {Parameters(f)} :
        EncodeFrame(f, rc) \/ \E r \in Redundancy : EncodeLastFrame(f, rc, r.term, r.lbrr)
  BY Zenon DEF Encode
<1>4. PICK rc : rc = Parameters(f) /\
        (EncodeFrame(f, rc) \/ \E r \in Redundancy : EncodeLastFrame(f, rc, r.term, r.lbrr))
  BY <1>3, Zenon
<1>5. f \in AnyFrame
  BY NextFrameIs
<1>6. CASE EncodeFrame(f, rc)
  <2>1. BuildingInv' /\ (building' = <<>> \/ building' = Append(building, f)) /\ packet' = packet
    BY <1>1, <1>4, <1>6, FrameIsBuilt
  <2> QED
    BY <1>2, <1>5, <2>1, BuildFollows
<1>7. ASSUME NEW r \in Redundancy, EncodeLastFrame(f, rc, r.term, r.lbrr) PROVE StreamFollows
  <2>1. /\ BuildingInv' /\ building' = <<>>
        /\ packet' = NoPacket \/ (IsPacket(packet)' /\ packet'.holds.frames = Append(building, f))
    BY <1>1, <1>4, <1>7, LastFrameIsSent
  <2>2. CASE packet' = NoPacket
    BY <1>2, <2>1, <2>2, BuildFollows
  <2>3. CASE IsPacket(packet)' /\ packet'.holds.frames = Append(building, f)
    <3>1. PacketInv'
      BY <2>3 DEF PacketInv
    <3>2. PlayingInv'
      BY <1>1, <1>2 DEF PlayingInv
    <3>3. HeardInv'
      BY <1>1, <1>2 DEF HeardInv, RedundancyFound
    <3>4. Shown(packet.holds) = Pipe!Nothing
      BY <1>2, FlightIs, ShownAre
    <3>5. Pipe!OneMore(Append(building, f))
      <4>1. building \in Seq(AnyFrame)
        BY <1>1 DEF BuildingInv, AreFrames
      <4> QED
        BY <1>5, <4>1, OneFrameMore DEF Pipe!OneMore
    <3>6. packet'.holds.kind = "whole"
      <4>1. packet'.holds = Source("whole", packet'.holds.frames, packet'.holds.spare)
        BY <2>3 DEF IsPacket
      <4> QED
        BY <4>1 DEF Source
    <3>7. Shown(packet'.holds) = [kind |-> "whole", frames |-> Append(building, f)]
      BY <2>3, <3>6 DEF Shown
    <3> DEFINE sent == Append(building, f)
    <3> HIDE DEF sent
    <3>8. /\ Shown(packet'.holds) = Pipe!Is("whole", Shown(packet'.holds).frames)
          /\ Pipe!OneMore(Shown(packet'.holds).frames)
      BY <3>5, <3>7 DEF sent, Pipe!Is
    <3>9. Lost' = Lost
      BY <1>2 DEF Lost, Astray
    <3>10. Pipe!Send
      BY <1>2, <2>1, <3>4, <3>8, <3>9 DEF Pipe!Send, Shown, Lost
    <3> QED
      BY <2>1, <3>1, <3>2, <3>3, <3>10 DEF StreamFollows, PartsInv, Pipe!Next
  <2> QED
    BY <2>1, <2>2, <2>3
<1> QED
  BY <1>4, <1>6, <1>7

(* The payload is given up. *)
LEMMA ChangeRateFollows ==
  ASSUME StreamInv, ChangeRate
  PROVE  StreamFollows
<1>1. /\ enc' = Idle(OK) /\ building' = <<>>
      /\ packet' = packet /\ dec' = dec /\ playing' = playing /\ heard' = heard
  BY DEF ChangeRate
<1>2. BuildingInv'
  BY <1>1, NothingBuilt
<1> QED
  BY <1>1, <1>2, BuildFollows

(* Nothing but the packet on its way, or what is heard, changes. *)
LEMMA BuildingStays ==
  ASSUME StreamInv, enc' = enc, building' = building
  PROVE  BuildingInv'
BY DEF StreamInv, PartsInv, BuildingInv

(* A packet of someone else comes. *)
LEMMA StrayFollows ==
  ASSUME StreamInv, Stray
  PROVE  StreamFollows
<1>1. /\ packet = NoPacket /\ ~dec.more /\ packet'.holds = Damaged
      /\ enc' = enc /\ dec' = dec /\ building' = building /\ playing' = playing /\ heard' = heard
  BY DEF Stray
<1>2. PlayingInv /\ HeardInv
  BY DEF StreamInv, PartsInv
<1>3. PacketInv' /\ PlayingInv'
  BY <1>1, <1>2 DEF PacketInv, PlayingInv
<1>4. HeardInv'
  BY <1>1, <1>2 DEF HeardInv, RedundancyFound
<1>5. packet.holds = NoSource /\ packet'.holds = Damaged
  BY <1>1, FlightIs
<1>6. Shown(packet.holds) = Pipe!Nothing /\ Shown(packet'.holds) = Pipe!Damaged
  BY <1>5, ShownAre
<1>7. Lost' = Lost
  BY <1>1 DEF Lost, Astray
<1>8. Pipe!Stray
  BY <1>1, <1>6, <1>7 DEF Pipe!Stray, Shown, Lost
<1> QED
  BY <1>1, <1>3, <1>4, <1>8, BuildingStays DEF StreamFollows, PartsInv, Pipe!Next

(* A packet is lost, or found too long, and concealed. *)
LEMMA ConcealFollows ==
  ASSUME StreamInv, packet # NoPacket, ~dec.more, heard = NothingHeard, packet' = NoPacket,
         heard' = Concealed, enc' = enc, dec' = dec, building' = building, playing' = playing
  PROVE  StreamFollows
<1>1. PacketInv /\ PlayingInv
  BY DEF StreamInv, PartsInv
<1>2. PacketInv' /\ PlayingInv'
  BY <1>1 DEF PacketInv, PlayingInv
<1>3. HeardInv'
  BY ConcealedIsHeard
<1>4. packet'.holds = NoSource
  BY DEF NoPacket
<1>5. Shown(packet.holds) # Pipe!Nothing
  <2>1. packet.holds.kind # "nothing"
    BY <1>1, FlightIs
  <2> QED
    BY <2>1, ShownAre DEF Shown
<1>6. Shown(packet'.holds) = Pipe!Nothing
  BY <1>4, ShownAre
<1>7. Shown(heard) = Pipe!Nothing /\ Shown(heard') = Pipe!Concealed
  BY ShownAre
<1>8. Lost' = Lost
  BY DEF Lost, Astray
<1>9. Pipe!Lose
  BY <1>5, <1>6, <1>7, <1>8 DEF Pipe!Lose, Shown, Lost
<1> QED
  BY <1>2, <1>3, <1>9, BuildingStays DEF StreamFollows, PartsInv, Pipe!Next

LEMMA LoseFollows ==
  ASSUME StreamInv, Lose
  PROVE  StreamFollows
BY ConcealFollows DEF Lose

(* The samples are taken. *)
LEMMA TakeFollows ==
  ASSUME StreamInv, Take
  PROVE  StreamFollows
<1>1. /\ heard # NothingHeard /\ heard' = NothingHeard
      /\ enc' = enc /\ packet' = packet /\ dec' = dec /\ building' = building /\ playing' = playing
  BY DEF Take
<1>2. PacketInv /\ PlayingInv /\ HeardInv
  BY DEF StreamInv, PartsInv
<1>3. PacketInv'
  BY <1>1, <1>2 DEF PacketInv, IsPacket
<1>4. PlayingInv'
  BY <1>1, <1>2 DEF PlayingInv, IsRest
<1>5. HeardInv'
  BY <1>1, NothingIsHeard
<1>6. Lost' = Lost
  BY <1>1 DEF Lost, Astray
<1>7. Shown(heard) # Pipe!Nothing
  <2>1. heard.kind \in {"concealed", "error", "whole"}
    BY <1>1, <1>2 DEF HeardInv
  <2>2. heard.kind # "nothing"
    BY <2>1
  <2> QED
    BY <2>2, ShownAre DEF Shown
<1>8. Shown(heard)' = Pipe!Nothing
  BY <1>1, ShownAre DEF Shown
<1>9. Pipe!Take
  BY <1>1, <1>6, <1>7, <1>8 DEF Pipe!Take, Shown, Lost
<1> QED
  BY <1>1, <1>3, <1>4, <1>5, <1>9, BuildingStays DEF StreamFollows, PartsInv, Pipe!Next

(* Nothing happens. *)
LEMMA StutterFollows ==
  ASSUME StreamInv, UNCHANGED vars
  PROVE  StreamFollows
<1>1. /\ enc' = enc /\ packet' = packet /\ dec' = dec /\ building' = building /\ playing' = playing
      /\ heard' = heard
  BY DEF vars
<1>2. PacketInv /\ PlayingInv /\ HeardInv
  BY DEF StreamInv, PartsInv
<1>3. PacketInv'
  BY <1>1, <1>2 DEF PacketInv, IsPacket
<1>4. PlayingInv'
  BY <1>1, <1>2 DEF PlayingInv, IsRest
<1>5. HeardInv'
  BY <1>1, <1>2 DEF HeardInv, RedundancyFound
<1>6. Lost' = Lost
  BY <1>1 DEF Lost, Astray
<1>7. UNCHANGED Pipe!vars
  BY <1>1, <1>6 DEF Pipe!vars, Lost
<1> QED
  BY <1>1, <1>3, <1>4, <1>5, <1>7, BuildingStays DEF StreamFollows, PartsInv

(* The decoder goes on with the packet it has, or takes the one that arrives. *)
Takes(source) ==
  \/ playing = NoSource /\ source = packet.holds
  \/ source = playing /\ packet = NoPacket

(* What FramePipe is given, and that nothing else arrives. *)
LEMMA GivenIs ==
  ASSUME NEW source, Takes(source), Shown(source).kind # "nothing", heard = NothingHeard,
         packet' = NoPacket, building' = building
  PROVE  Pipe!Given = Shown(source) /\ Pipe!Decode
<1> DEFINE flight == Shown(packet.holds)
<1>1. Shown(source) # Pipe!Nothing
  BY ShownAre
<1>2. Shown(heard) = Pipe!Nothing
  BY ShownAre
<1>3. flight' = Pipe!Nothing
  BY ShownAre DEF NoPacket
<1>4. CASE playing = NoSource /\ source = packet.holds
  <2>1. Shown(playing) = Pipe!Nothing /\ flight = Shown(source)
    BY <1>4, ShownAre
  <2> QED
    BY <1>1, <1>2, <1>3, <2>1 DEF Pipe!Given, Pipe!Decode, Shown
<1>5. CASE source = playing /\ packet = NoPacket
  <2>1. flight = Pipe!Nothing /\ Shown(playing) = Shown(source)
    BY <1>5, FlightIs, ShownAre
  <2> QED
    BY <1>1, <1>2, <1>3, <2>1 DEF Pipe!Given, Pipe!Decode, Shown
<1> QED
  BY <1>4, <1>5 DEF Takes

(* A frame of a packet is played that arrived as it was sent. *)
LEMMA WholeFollows ==
  ASSUME StreamInv, heard = NothingHeard, packet' = NoPacket, enc' = enc, building' = building,
         NEW source, Takes(source), NEW rc \in Reader, DecodeFrame(rc, source),
         IsNext(rc, source), ~Pipe!Misread
  PROVE  StreamFollows
<1> DEFINE left == IF Len(source.frames) = 1 THEN NoSource
                   ELSE Source("whole", Rest(source.frames), source.spare)
<1>1. /\ PlayingInv' /\ HeardInv' /\ ~Astray'
      /\ heard'.kind = "whole" /\ heard'.frames = <<source.frames[1]>> /\ playing' = left
  BY WholePlays DEF StreamInv
<1>2. PacketInv' /\ BuildingInv'
  BY BuildingStays DEF PacketInv
<1>3. /\ source = Source("whole", source.frames, source.spare)
      /\ AreFrames(source.frames, dec.n = 0) /\ Len(source.frames) >= 1
  BY DEF IsNext
<1>4. /\ Shown(source).kind = "whole"
      /\ Pipe!Whole(<<Head(Shown(source).frames)>>) = [kind |-> "whole", frames |-> <<source.frames[1]>>]
      /\ Pipe!Whole(Tail(Shown(source).frames)) = Shown(left)
  BY <1>3, FramesShown
<1> HIDE DEF left
<1>5. Pipe!Given = Shown(source) /\ Pipe!Decode
  <2>1. Shown(source).kind # "nothing"
    BY <1>4
  <2> QED
    BY <2>1, GivenIs
<1>6. Shown(heard)' = Pipe!Whole(<<Head(Pipe!Given.frames)>>)
  <2>1. Shown(heard)' = [kind |-> "whole", frames |-> <<source.frames[1]>>]
    BY <1>1 DEF Shown
  <2> QED
    BY <1>4, <1>5, <2>1
<1>7. Shown(playing)' = Pipe!Whole(Tail(Pipe!Given.frames))
  <2>1. Shown(playing)' = Shown(left)
    BY <1>1 DEF Shown
  <2> QED
    BY <1>4, <1>5, <2>1
<1>8. Lost' = {}
  BY <1>1 DEF Lost
<1>9. Pipe!PlayWhole
  BY <1>4, <1>5, <1>6, <1>7, <1>8 DEF Pipe!PlayWhole, Shown, Lost
<1> QED
  BY <1>1, <1>2, <1>9 DEF StreamFollows, PartsInv, Pipe!Next

(* A frame is played of a packet that is damaged, or misread. *)
LEMMA DamagedFollows ==
  ASSUME StreamInv, heard = NothingHeard, packet' = NoPacket, enc' = enc, building' = building,
         NEW source, Takes(source), NEW rc, DecodeFrame(rc, Damaged), dec.n \in 0..4,
         source = Damaged \/ (Pipe!Misread /\ source = packet.holds)
  PROVE  StreamFollows
<1>1. /\ PlayingInv' /\ HeardInv'
      /\ heard'.kind \in {"error", "whole"} /\ playing' \in {NoSource, Damaged}
  BY DamagedPlays
<1>2. PacketInv' /\ BuildingInv'
  BY BuildingStays DEF PacketInv
<1>3. Shown(source).kind # "nothing"
  <2>1. CASE source = Damaged
    BY <2>1, ShownAre
  <2>2. CASE Pipe!Misread /\ source = packet.holds
    BY <2>2 DEF Pipe!Misread, Shown
  <2> QED
    BY <2>1, <2>2
<1>4. Pipe!Given = Shown(source) /\ Pipe!Decode
  BY <1>3, GivenIs
<1>5. Pipe!Given = Pipe!Damaged \/ Pipe!Misread
  BY <1>4, ShownAre
<1>6. Shown(heard)'.kind \in {"error", "whole"}
  BY <1>1 DEF Shown
<1>7. Shown(playing)' \in {Pipe!Nothing, Pipe!Damaged}
  BY <1>1, ShownAre DEF Shown
<1>8. \A rate, other \in Lost' : rate = other
  BY DEF Lost
<1>9. Pipe!PlayDamaged
  BY <1>4, <1>5, <1>6, <1>7, <1>8 DEF Pipe!PlayDamaged, Shown, Lost
<1> QED
  BY <1>1, <1>2, <1>9 DEF StreamFollows, PartsInv, Pipe!Next

(* The first frame of a packet is decoded. *)
LEMMA DecodeFirstFollows ==
  ASSUME StreamInv, DecodeFirst
  PROVE  StreamFollows
<1> DEFINE source == IF Misread THEN Damaged ELSE packet.holds
<1>1. /\ packet # NoPacket /\ ~dec.more /\ heard = NothingHeard /\ packet' = NoPacket
      /\ enc' = enc /\ building' = building
      /\ IF Len(packet.bytes) > MAX_ARITHM_BYTES
         THEN heard' = Concealed /\ dec' = dec /\ playing' = playing
         ELSE \E stale \in StaleBytes : DecodeFrame(RangeDecInit(packet.bytes, stale), source)
  BY DEF DecodeFirst
<1>2. CASE Len(packet.bytes) > MAX_ARITHM_BYTES
  BY <1>1, <1>2, ConcealFollows
<1>3. CASE ~(Len(packet.bytes) > MAX_ARITHM_BYTES)
  <2>1. PICK stale \in StaleBytes : DecodeFrame(RangeDecInit(packet.bytes, stale), source)
    BY <1>1, <1>3
  <2> DEFINE rc == RangeDecInit(packet.bytes, stale)
  <2>2. stale \in Byte
    BY PayloadAssumption
  <2>3. SenderInv /\ ReceiverInv /\ PacketInv /\ PlayingInv
    BY DEF StreamInv, PartsInv
  <2>4. packet.bytes \in Seq(Byte)
    BY <2>3 DEF ReceiverInv
  <2>5. rc \in Reader
    BY <2>2, <2>4, ReaderStarts
  <2>6. Len(packet.bytes) <= MAX_ARITHM_BYTES
    BY <1>3, <2>4, BufferAssumption
  <2>7. playing = NoSource /\ dec.n \in 0..4 /\ Takes(packet.holds)
    BY <1>1, <2>3 DEF PlayingInv, Takes
  <2>8. Pipe!Misread <=> Misread
    BY <2>7, ShownAre DEF Pipe!Misread, Misread, Shown
  <2>9. DecodeFrame(rc, source)
    BY <2>1
  <2>10. packet.holds = Damaged \/ IsPacket(packet)
    BY <1>1, <2>3 DEF PacketInv
  <2>11. CASE Misread \/ packet.holds = Damaged
    <3>1. source = Damaged
      BY <2>11
    <3> HIDE DEF rc, source
    <3> QED
      BY <1>1, <2>7, <2>8, <2>9, <2>11, <3>1, DamagedFollows
  <2>12. CASE ~Misread /\ IsPacket(packet)
    <3>1. source = packet.holds
      BY <2>12
    <3>2. IsNext(rc, packet.holds)
      BY <1>1, <2>2, <2>3, <2>6, <2>12, SentIsNext
    <3> HIDE DEF rc, source
    <3> QED
      BY <1>1, <2>5, <2>7, <2>8, <2>9, <2>12, <3>1, <3>2, WholeFollows
  <2> QED
    BY <2>10, <2>11, <2>12
<1> QED
  BY <1>2, <1>3

(* The next frame of the packet is decoded. *)
LEMMA DecodeNextFollows ==
  ASSUME StreamInv, DecodeNext
  PROVE  StreamFollows
<1>1. /\ dec.more /\ heard = NothingHeard /\ DecodeFrame(dec.rc, playing)
      /\ enc' = enc /\ building' = building /\ packet' = packet
  BY DEF DecodeNext
<1>2. PlayingInv /\ ReceiverInv
  BY DEF StreamInv, PartsInv
<1>3. packet = NoPacket /\ dec.n \in 1..4 /\ (playing = Damaged \/ IsRest(playing))
  BY <1>1, <1>2 DEF PlayingInv
<1>4. dec.rc \in Reader
  BY <1>1, <1>2 DEF ReceiverInv
<1>5. Takes(playing) /\ dec.n \in 0..4
  BY <1>3 DEF Takes
<1>6. ASSUME IsRest(playing) PROVE IsNext(dec.rc, playing)
  <2> DEFINE u == Unknown(dec.rc)
             frames == playing.frames
  <2>1. (dec.n = 0) = FALSE /\ dec.n \in 0..4
    BY <1>3
  <2>2. /\ playing = Source("whole", frames, playing.spare)
        /\ AreFrames(frames, FALSE) /\ Len(frames) >= 1
        /\ dec.n + Len(frames) <= 5
        /\ frames[1].fs = dec.fs /\ dec.book = BookOf(dec.fs)
        /\ Ahead(dec.rc, frames, FALSE, dec.prev, playing.spare)
    BY <1>6 DEF IsRest
  <2>3. u.first = FALSE /\ u.fs = dec.fs /\ u.book = dec.book
    BY <2>1 DEF Unknown
  <2> HIDE DEF u
  <2>4. Suits(u, frames[1].fs)
    BY <2>2, <2>3 DEF Suits
  <2> QED
    BY <2>1, <2>2, <2>4 DEF IsNext, u
<1>7. ~Pipe!Misread
  <2>1. packet.holds = NoSource /\ NoSource.kind = "nothing"
    BY <1>3, FlightIs DEF NoSource, Source
  <2> QED
    BY <2>1 DEF Pipe!Misread
<1>8. CASE playing = Damaged
  BY <1>1, <1>3, <1>5, <1>8, DamagedFollows
<1>9. CASE IsRest(playing)
  <2>1. IsNext(dec.rc, playing)
    BY <1>6, <1>9
  <2> QED
    BY <1>1, <1>3, <1>4, <1>5, <1>7, <2>1, WholeFollows
<1> QED
  BY <1>3, <1>8, <1>9

(* Every step of the stream is one of FramePipe, or none. *)
LEMMA StreamSteps ==
  ASSUME StreamInv, [Next]_vars
  PROVE  StreamInv' /\ [Pipe!Next]_(Pipe!vars)
<1>1. StreamFollows
  BY EncodeFollowed, ChangeRateFollows, DecodeFirstFollows, DecodeNextFollows, TakeFollows,
     LoseFollows, StrayFollows, StutterFollows, Zenon DEF Next
<1>2. SenderInv' /\ ReceiverInv'
  BY SenderSteps, ReceiverSteps DEF StreamInv
<1> QED
  BY <1>1, <1>2 DEF StreamFollows, StreamInv

(* The stream starts like FramePipe. *)
LEMMA StreamStarts ==
  ASSUME Init
  PROVE  StreamInv /\ Pipe!Init
<1>1. /\ enc = Idle(OK) /\ packet = NoPacket /\ building = <<>>
      /\ playing = NoSource /\ heard = NothingHeard
      /\ dec = [rc |-> NoCoder, n |-> 0, prev |-> 0, fs |-> 3, book |-> BookOf(3), more |-> FALSE]
  BY DEF Init
<1>2. SenderInv /\ ReceiverInv
  BY SenderStarts, ReceiverStarts
<1>3. BuildingInv
  <2>1. enc.rc = RangeEncInit /\ enc.n = 0 /\ enc.prev = 0
    BY <1>1 DEF Idle
  <2>2. AreFrames(<<>>, TRUE) /\ Len(<<>>) = 0
    BY DEF AreFrames
  <2>3. 0 < FRAMES_PER_PACKET
    BY FrameAssumption
  <2>4. Holds(RangeEncInit, <<>>, TRUE, 0, MORE_FRAMES, RangeEncInit)
    BY HoldsNone
  <2> QED
    BY <1>1, <2>1, <2>2, <2>3, <2>4 DEF BuildingInv
<1>4. PacketInv /\ PlayingInv
  BY <1>1 DEF PacketInv, PlayingInv
<1>5. HeardInv
  <2>1. NothingHeard.source.kind # "whole"
    BY DEF NothingHeard, NoSource, Source
  <2>2. RedundancyFound
    BY <1>1, <2>1, Zenon DEF RedundancyFound
  <2> QED
    BY <1>1, <2>2 DEF HeardInv
<1>6. Pipe!Init
  <2>1. packet.holds = NoSource
    BY <1>1, FlightIs
  <2>2. /\ Shown(packet.holds) = Pipe!Nothing /\ Shown(playing) = Pipe!Nothing
        /\ Shown(heard) = Pipe!Nothing
    BY <1>1, <2>1, ShownAre
  <2>3. ~Astray
    BY <1>1 DEF Astray
  <2> QED
    BY <1>1, <2>2, <2>3 DEF Pipe!Init, Shown
<1> QED
  BY <1>2, <1>3, <1>4, <1>5, <1>6 DEF StreamInv, PartsInv

(* The redundancy behind a packet is found where it is, whatever frames, tables
   and redundancy: what the decoder has not used when the last frame is decoded
   is the redundancy, and before that there is more (nBytesLeft in
   SKP_Silk_SDK_search_for_LBRR()). *)
THEOREM RedundancyIsFound == Spec => []RedundancyFound
<1>1. Init => StreamInv
  BY StreamStarts
<1>2. StreamInv /\ [Next]_vars => StreamInv'
  BY StreamSteps
<1>3. StreamInv => RedundancyFound
  BY DEF StreamInv, PartsInv, HeardInv
<1> QED
  BY <1>1, <1>2, <1>3, PTL DEF Spec

(* The encoder and the decoder of a stream are a pipe of frames: every frame of
   a packet that arrives as it was sent is heard as it was encoded, whatever the
   frames, the tables and the width of a byte (SKP_Silk_encode_parameters() and
   SKP_Silk_decode_parameters()), unless a damaged packet has left the decoder
   astray, and then unless the packet is of the one rate that it is astray for
   (SKP_Silk_decode_frame.c). *)
THEOREM StreamIsPipe == Spec => PipeSpec
<1>1. Init => StreamInv /\ Pipe!Init
  BY StreamStarts
<1>2. StreamInv /\ [Next]_vars => StreamInv' /\ [Pipe!Next]_(Pipe!vars)
  BY StreamSteps
<1> QED
  BY <1>1, <1>2, PTL DEF Spec, PipeSpec, Pipe!Spec
=============================================================================
