---------------------------- MODULE MCSilkStream ----------------------------
(***************************************************************************)
(* Bytes of two bits, blocks of four pulses, two blocks a frame, and tables *)
(* of the shapes of the codec's: strictly increasing, except that the       *)
(* shell tables leave no interval to children above the limit of the level  *)
(* below.  Behind the table of a level lies that of the next one.           *)
(***************************************************************************)
EXTENDS SilkStream, TLC

Cdf(s) == [i \in 0..Len(s) - 1 |-> s[i + 1]]

Limits == 0 :> 2 @@ 1 :> 3
RateLevels == 0 :> Cdf(<<0, 9, 15>>) @@ 1 :> Cdf(<<0, 6, 15>>)
PulsesPerBlock == 0 :> Cdf(<<0, 5, 10, 13, 14, 15>>) @@ 1 :> Cdf(<<0, 1, 4, 8, 12, 15>>)
                  @@ 2 :> Cdf(<<0, 1, 3, 7, 12, 15>>)
ShellCode == 0 :> (1 :> Cdf(<<0, 8, 15>>) @@ 2 :> Cdf(<<0, 5, 10, 15>>)
                   @@ 3 :> Cdf(<<0, 7, 15, 0, 4>>))
             @@ 1 :> (1 :> Cdf(<<0, 7, 15>>) @@ 2 :> Cdf(<<0, 4, 11, 15>>)
                      @@ 3 :> Cdf(<<0, 0, 7, 15, 15>>))
Lsb == Cdf(<<0, 9, 15>>)
Sign == [sigtype \in 0..1 |-> [offset \in 0..1 |-> [rate \in 0..1 |->
           Cdf(<<0, 6 + 2 * sigtype + offset - rate, 15>>)]]]

SamplingRates == Cdf(<<0, 4, 8, 12, 15>>)
TypeOffset == Cdf(<<0, 6, 9, 11, 15>>)
TypeOffsetJoint == 0 :> Cdf(<<0, 11, 12, 13, 15>>) @@ 1 :> Cdf(<<0, 3, 11, 13, 15>>)
                   @@ 2 :> Cdf(<<0, 2, 4, 12, 15>>) @@ 3 :> Cdf(<<0, 1, 3, 5, 15>>)
Gain == 0 :> Cdf(<<0, 3, 10, 15>>) @@ 1 :> Cdf(<<0, 9, 13, 15>>)
DeltaGain == Cdf(<<0, 2, 12, 15>>)
Nlsf == "order 10" :> (0 :> Cdf(<<0, 6, 15>>) @@ 1 :> Cdf(<<0, 10, 15>>))
        @@ "order 16" :> (0 :> Cdf(<<0, 3, 8, 15>>) @@ 1 :> Cdf(<<0, 4, 12, 15>>))
PitchLag == 0 :> Cdf(<<0, 7, 15>>) @@ 1 :> Cdf(<<0, 3, 9, 15>>)
            @@ 2 :> Cdf(<<0, 4, 8, 15>>) @@ 3 :> Cdf(<<0, 5, 6, 15>>)
Seed == Cdf(<<0, 4, 8, 12, 15>>)
VadFlag == Cdf(<<0, 5, 15>>)
FrameTermination == Cdf(<<0, 5, 10, 13, 15>>)

Frame(fs, type, gain, nlsf, lag, seed, rate, vad, q) ==
  [fs |-> fs, typeOffset |-> type, gain |-> gain, nlsf |-> nlsf, lag |-> lag, seed |-> seed,
   rate |-> rate, vad |-> vad, q |-> q]

Quiet == <<0, 0, 0, 0>>

First ==
  {Frame(0, 2, 1, 0, 0, 3, 0, 1, <<x, y>>) :
     x \in [1..4 -> {0, 1, -2, 7}], y \in {Quiet, <<0, -1, 0, 2>>}}
  \union {Frame(2, 1, 0, 1, 2, 1, 1, 0, <<x, <<0, 0, -1, 0>>>>) : x \in [1..4 -> {0, -1, 3}]}
  \union {Frame(3, 3, 2, 2, 0, 3, 1, 1, <<x, x>>) : x \in {Quiet, <<3, 3, 3, 3>>}}

Later ==
  {Frame(fs, 0, 2, 1, 1, 0, 0, 1, <<<<0, 1, 1, 0>>, Quiet>>) : fs \in {0, 2, 3}}
  \union {Frame(0, 3, 1, 1, 0, 2, 1, 1, <<Quiet, x>>) : x \in {Quiet, <<3, -6, 1, 1>>, <<0, 0, 0, 1>>}}

Lbrr == {[term |-> LAST_FRAME, lbrr |-> <<>>], [term |-> 2, lbrr |-> <<0, 3>>],
         [term |-> 3, lbrr |-> <<3, 3, 3>>]}

Strays == UNION {[1..n -> Byte] : n \in 1..4}
          \union {[i \in 1..14 |-> IF i = k THEN x ELSE y] : k \in 1..14, x, y \in Byte}
=============================================================================
