----------------------------- MODULE SilkStream -----------------------------
(***************************************************************************)
(* A stream of SILK packets (bit stream version 3) from an encoder to a    *)
(* decoder: SKP_Silk_SDK_Encode(), SKP_Silk_encode_frame_FIX() and         *)
(* SKP_Silk_encode_parameters() on one side, SKP_Silk_SDK_Decode(),        *)
(* SKP_Silk_decode_frame() and SKP_Silk_decode_parameters() on the other,  *)
(* over a network that loses packets and delivers stray ones.              *)
(*                                                                         *)
(* A frame is what the analysis of the speech has found, the quantization  *)
(* indices that are coded; the indices that are coded alike (the gains of  *)
(* the later subframes, the stages of the NLSF path, the filters of the    *)
(* pitch) are stood for by one of them.  The two ends share nothing but    *)
(* the packet, so the encoder waits while the decoder is busy with one.    *)
(* A coder is not looked at between the end of a packet and its next       *)
(* initialization: it is then the initial one here.                        *)
(***************************************************************************)
EXTENDS PulseCoder

CONSTANTS
  FRAMES_PER_PACKET,   \* PacketSize_ms in frames
  MAX_BYTES_OUT,       \* room that the caller of the encoder offers
  FirstFrames, LaterFrames,   \* frames at the start of a packet and within it
  Redundancy,          \* LBRR payloads, with the terminator that announces them
  StrayPayloads, StaleBytes,
  SamplingRates_CDF, type_offset_CDF, type_offset_joint_CDF, gain_CDF, delta_gain_CDF,
  NLSF_CDF, pitch_lag_CDF, Seed_CDF, vadflag_CDF, FrameTermination_CDF

LAST_FRAME  == 0
MORE_FRAMES == 1
VOICED      == 0

Rates == 0..3          \* 8, 12, 16 and 24 kHz
Books == {"order 10", "order 16"}

(* SKP_Silk_decoder_set_fs(): 8 kHz has a codebook of its own. *)
BookOf(fs) == IF fs = 0 THEN "order 10" ELSE "order 16"

(* The tables of the indices, and the frames that these tables can code. *)
ASSUME IndexTables ==
  /\ \A cdf \in {SamplingRates_CDF, type_offset_CDF}
               \union {type_offset_joint_CDF[prev] : prev \in 0..3} :
       IsFullTable(cdf) /\ DOMAIN cdf = 0..4
  /\ \A cdf \in {delta_gain_CDF, Seed_CDF, vadflag_CDF, FrameTermination_CDF}
               \union {gain_CDF[sigtype] : sigtype \in 0..1}
               \union {NLSF_CDF[book][sigtype] : book \in Books, sigtype \in 0..1}
               \union {pitch_lag_CDF[fs] : fs \in Rates} :
       IsFullTable(cdf)
  /\ IsSymbol(FrameTermination_CDF, MORE_FRAMES)

(* A symbol of such a table takes so many bits or more. *)
TakesBits(cdf, bits) ==
  \A i \in DOMAIN cdf : i + 1 \in DOMAIN cdf => (cdf[i + 1] - cdf[i]) * 2^bits <= B2

(* The NLSF path and the seed of a frame take a byte or more: 13 bits and 2 at
   least in the tables of the codec.  So no frame ends within the last byte of
   the one before it. *)
ASSUME FramesAreLong ==
  \E bits \in 0..b : /\ TakesBits(Seed_CDF, b - bits)
                     /\ \A book \in Books, sigtype \in 0..1 : TakesBits(NLSF_CDF[book][sigtype], bits)

(* The quantizer limits what it quantizes to 64 (SKP_Silk_NSQ.c); a payload has
   many more bits, and no pulse is scaled down more often than that. *)
Pulses == [Blocks -> [1..SHELL_CODEC_FRAME_LENGTH -> -MAX_SHIFTS..MAX_SHIFTS]]

IsFrame(f, gain) ==
  /\ f \in [fs : Rates, typeOffset : 0..3, gain : Nat, nlsf : Nat, lag : Nat, seed : Nat,
            rate : 0..N_RATE_LEVELS - 2, vad : Nat, q : Pulses]
  /\ IsSymbol(gain, f.gain)
  /\ IsSymbol(NLSF_CDF[BookOf(f.fs)][Sigtype(f)], f.nlsf)
  /\ IF Sigtype(f) = VOICED THEN IsSymbol(pitch_lag_CDF[f.fs], f.lag) ELSE f.lag = 0
  /\ IsSymbol(Seed_CDF, f.seed) /\ IsSymbol(vadflag_CDF, f.vad)

ASSUME FrameAssumption ==
  /\ \A f \in FirstFrames : IsFrame(f, gain_CDF[Sigtype(f)])
  /\ \A f \in LaterFrames : IsFrame(f, delta_gain_CDF)
  /\ FRAMES_PER_PACKET \in 1..5

ASSUME PayloadAssumption ==
  /\ MAX_BYTES_OUT \in Nat /\ StaleBytes \subseteq Byte /\ StrayPayloads \subseteq Seq(Byte)
  /\ \A r \in Redundancy : /\ r.lbrr \in Seq(Byte) /\ r.term # MORE_FRAMES
                          /\ IsSymbol(FrameTermination_CDF, r.term)

VARIABLES
  enc,                 \* sRC, nFramesInPayloadBuf, typeOffsetPrev, fs_kHz of the encoder,
                       \* and the error that it returned
  packet,              \* the packet on its way, and what was put into it
  dec,                 \* the same of the decoder, psNLSF_CB and moreInternalDecoderFrames
  building,            \* the frames in the encoder's payload
  playing,             \* what is left of the packet in the decoder
  heard                \* what the decoder has returned, and what it came from

vars == <<enc, packet, dec, building, playing, heard>>

(* What a packet holds: "whole" frames, with the redundancy behind them, or
   nothing that was sent. *)
Source(kind, frames, spare) == [kind |-> kind, frames |-> frames, spare |-> spare]

NoSource == Source("nothing", <<>>, <<>>)
Damaged  == Source("damaged", <<>>, <<>>)
NoPacket == [bytes |-> <<>>, holds |-> NoSource, rc |-> RangeEncInit]

NothingHeard == [kind |-> "nothing", frames |-> <<>>, left |-> 0, source |-> NoSource]
Concealed    == [NothingHeard EXCEPT !.kind = "concealed"]
Corrupt      == [NothingHeard EXCEPT !.kind = "error"]

Idle(error) == [rc |-> RangeEncInit, n |-> 0, prev |-> 0, fs |-> 0, error |-> error]
NoCoder == [base |-> 0, range |-> B2 - 1, ix |-> 0, length |-> 0, buffer |-> <<>>, error |-> OK]

(* SKP_Silk_init_decoder() sets 24 kHz. *)
Init ==
  /\ enc = Idle(OK)
  /\ dec = [rc |-> NoCoder, n |-> 0, prev |-> 0, fs |-> 3, book |-> BookOf(3), more |-> FALSE]
  /\ packet = NoPacket /\ building = <<>>
  /\ playing = NoSource /\ heard = NothingHeard

-----------------------------------------------------------------------------
(* SKP_Silk_encode_parameters(). *)
FrameSymbols(f, first, prev) ==
  LET sigtype == Sigtype(f)
  IN (IF first THEN <<Symbol(SamplingRates_CDF, f.fs), Symbol(type_offset_CDF, f.typeOffset),
                      Symbol(gain_CDF[sigtype], f.gain)>>
               ELSE <<Symbol(type_offset_joint_CDF[prev], f.typeOffset),
                      Symbol(delta_gain_CDF, f.gain)>>)
     \o <<Symbol(NLSF_CDF[BookOf(f.fs)][sigtype], f.nlsf)>>
     \o (IF sigtype = VOICED THEN <<Symbol(pitch_lag_CDF[f.fs], f.lag)>> ELSE <<>>)
     \o <<Symbol(Seed_CDF, f.seed)>>
     \o PulseSymbols(f.q, sigtype, QuantOffsetType(f), f.rate)
     \o <<Symbol(vadflag_CDF, f.vad)>>

EncodeSymbols(rc, symbols) ==
  Walk(LAMBDA c, s : RangeEncode(c, s.cdf, s.data), rc, symbols)

(* A packet has one rate: a change drops the payload (ChangeRate). *)
NextFrames == IF enc.n = 0 THEN FirstFrames ELSE {f \in LaterFrames : f.fs = enc.fs}

Parameters(f) == EncodeSymbols(enc.rc, FrameSymbols(f, enc.n = 0, enc.prev))

(* SKP_Silk_encode_frame_FIX() with more frames to follow, or after an error,
   which clears the payload. *)
EncodeFrame(f, rc) ==
  LET n     == IF rc.error = OK THEN enc.n + 1 ELSE 0
      ended == RangeEncode(rc, FrameTermination_CDF, MORE_FRAMES)
  IN /\ n < FRAMES_PER_PACKET
     /\ enc' = IF n = 0 THEN Idle(rc.error)
               ELSE [rc |-> ended, n |-> n, prev |-> f.typeOffset, fs |-> f.fs,
                     error |-> ended.error]
     /\ building' = IF n = 0 THEN <<>> ELSE Append(building, f)
     /\ UNCHANGED packet

(* The last frame: the payload is wrapped up and copied out if there is room,
   and the redundancy appended if there is room for it too.  What lies beyond
   the buffer of the coder is copied with it.  Nothing is sent if the encoder
   returns an error. *)
EncodeLastFrame(f, rc, term, lbrr) ==
  LET ended  == RangeEncode(rc, FrameTermination_CDF, term)
      nBytes == LengthInBytes(Len(ended.buffer), ended.range)
      stream == RangeEncWrapUp(ended)
      spare  == IF term > MORE_FRAMES /\ MAX_BYTES_OUT >= nBytes + Len(lbrr) THEN lbrr ELSE <<>>
  IN /\ rc.error = OK /\ enc.n + 1 >= FRAMES_PER_PACKET
     /\ enc' = Idle(ended.error)
     /\ building' = <<>>
     /\ packet' = IF MAX_BYTES_OUT < nBytes \/ ended.error # OK THEN NoPacket
                  ELSE [bytes |-> [i \in 1..nBytes |-> IF i <= Len(stream) THEN stream[i] ELSE 0] \o spare,
                        holds |-> Source("whole", Append(building, f), spare),
                        rc    |-> ended]

Encode ==
  /\ packet = NoPacket /\ ~dec.more /\ heard = NothingHeard
  /\ \E f \in NextFrames : \E rc \in {Parameters(f)} :
       \/ EncodeFrame(f, rc)
       \/ \E r \in Redundancy : EncodeLastFrame(f, rc, r.term, r.lbrr)
  /\ UNCHANGED <<dec, playing, heard>>

(* SKP_Silk_control_encoder_FIX() sets another sampling rate in the midst of a
   packet: the frames that are in it are given up. *)
ChangeRate ==
  /\ enc.n > 0 /\ packet = NoPacket /\ ~dec.more /\ heard = NothingHeard
  /\ enc' = Idle(OK) /\ building' = <<>>
  /\ UNCHANGED <<packet, dec, playing, heard>>

-----------------------------------------------------------------------------
(* The frame that is decoded with this coder, before anything of it is known. *)
Unknown(rc) ==
  [rc |-> rc, data |-> 0, first |-> dec.n = 0, book |-> dec.book, fs |-> dec.fs,
   typeOffset |-> dec.prev, gain |-> 0, nlsf |-> 0, lag |-> 0, seed |-> 0, rate |-> 0,
   sum |-> <<>>, shifts |-> <<>>, tree |-> <<>>, q |-> <<>>, vad |-> 0, term |-> 0]

Tuned(d, fs) == IF d.fs = fs THEN d ELSE [d EXCEPT !.book = BookOf(d.fs)]

ReadRateOfPacket(d) == IF d.first THEN Tuned(Keep(Read(d, SamplingRates_CDF), "fs"), d.fs) ELSE d

Table(d, field) ==
  CASE field = "typeOffset" -> IF d.first THEN type_offset_CDF ELSE type_offset_joint_CDF[d.typeOffset]
    [] field = "gain"       -> IF d.first THEN gain_CDF[Sigtype(d)] ELSE delta_gain_CDF
    [] field = "nlsf"       -> NLSF_CDF[d.book][Sigtype(d)]
    [] field = "lag"        -> pitch_lag_CDF[d.fs]
    [] field = "seed"       -> Seed_CDF
    [] field = "vad"        -> vadflag_CDF
    [] field = "term"       -> FrameTermination_CDF

ReadField(d, field) ==
  IF field = "lag" /\ Sigtype(d) # VOICED THEN d ELSE Keep(Read(d, Table(d, field)), field)

ReadIndices(d) == Walk(ReadField, ReadRateOfPacket(d), <<"typeOffset", "gain", "nlsf", "lag", "seed">>)

(* SKP_Silk_decode_parameters(). *)
DecodeParameters(rc) ==
  Walk(ReadField, DecodePulses(ReadIndices(Unknown(rc))), <<"vad", "term">>)

FrameOf(d) ==
  [fs |-> d.fs, typeOffset |-> d.typeOffset, gain |-> d.gain, nlsf |-> d.nlsf, lag |-> d.lag,
   seed |-> d.seed, rate |-> d.rate, q |-> d.q, vad |-> d.vad]

(* Faulty variant of nBytesLeft: what has not been read is taken to be left. *)
BytesNotRead(rc) == rc.length - rc.ix

nBytesLeft(rc) == rc.length - LengthInBytes(rc.ix, rc.range)

Checked(rc) == IF nBytesLeft(rc) < 0 THEN [rc EXCEPT !.error = READ_BEYOND]
               ELSE IF nBytesLeft(rc) = 0 THEN CheckAfterDecoding(rc) ELSE rc

(* SKP_Silk_decode_frame() for a frame that is not lost, and what
   SKP_Silk_SDK_Decode() makes of it.  After an error the sampling rate is set
   back; the codebook is not. *)
DecodeFrame(rc, source) ==
  \E d \in {DecodeParameters(rc)} :
  LET c    == Checked(d.rc)
      left == nBytesLeft(c)
      more == c.error = OK /\ left > 0 /\ d.term = MORE_FRAMES /\ dec.n + 1 < 5
  IN /\ dec' = [rc   |-> IF more THEN c ELSE NoCoder,
                n    |-> IF more THEN dec.n + 1 ELSE 0,
                prev |-> IF more THEN d.typeOffset ELSE 0,
                fs   |-> IF c.error = OK THEN d.fs ELSE dec.fs,
                book |-> d.book,
                more |-> more]
     /\ heard' = IF c.error # OK THEN Corrupt
                 ELSE [kind |-> "whole", frames |-> <<FrameOf(d)>>, left |-> left, source |-> source]
     /\ playing' = IF more THEN [source EXCEPT !.frames = SubSeq(@, 2, Len(@))] ELSE NoSource

(* Once the codebook is not that of the rate, a packet of this rate is decoded
   with the wrong one, though it arrives as it was sent: what the decoder makes
   of it is no frame of the packet. *)
Astray  == dec.book # BookOf(dec.fs)
Misread == Astray /\ packet.holds.kind = "whole" /\ packet.holds.frames[1].fs = dec.fs

(* A packet arrives: one that is too long is taken for lost. *)
DecodeFirst ==
  /\ packet # NoPacket /\ ~dec.more /\ heard = NothingHeard
  /\ packet' = NoPacket
  /\ IF Len(packet.bytes) > MAX_ARITHM_BYTES
     THEN heard' = Concealed /\ UNCHANGED <<dec, playing>>
     ELSE \E stale \in StaleBytes : DecodeFrame(RangeDecInit(packet.bytes, stale),
                                             IF Misread THEN Damaged ELSE packet.holds)
  /\ UNCHANGED <<enc, building>>

(* The decoder is called again while it has more frames. *)
DecodeNext ==
  /\ dec.more /\ heard = NothingHeard
  /\ DecodeFrame(dec.rc, playing)
  /\ UNCHANGED <<enc, packet, building>>

(* The caller takes the samples. *)
Take ==
  /\ heard # NothingHeard /\ heard' = NothingHeard
  /\ UNCHANGED <<enc, packet, dec, building, playing>>

-----------------------------------------------------------------------------
(* The network. *)
Lose ==
  /\ packet # NoPacket /\ ~dec.more /\ heard = NothingHeard
  /\ packet' = NoPacket /\ heard' = Concealed
  /\ UNCHANGED <<enc, dec, building, playing>>

Stray ==
  /\ packet = NoPacket /\ enc.n = 0 /\ ~dec.more /\ heard = NothingHeard
  /\ \E bytes \in StrayPayloads :
       packet' = [bytes |-> bytes, holds |-> Damaged, rc |-> RangeEncInit]
  /\ UNCHANGED <<enc, dec, building, playing, heard>>

Next == Encode \/ ChangeRate \/ DecodeFirst \/ DecodeNext \/ Take \/ Lose \/ Stray

Spec == Init /\ [][Next]_vars

-----------------------------------------------------------------------------
(* Every frame of a packet that arrives whole is heard as it was encoded, and
   the decoder knows when the packet ends, whatever lies behind the payload and
   whatever was lost before; but not when a damaged packet came before that left
   the decoder with the codebook of another rate (SKP_Silk_decode_frame.c):
   BookFitsRate says what the code means to do about that. *)
Pipe == INSTANCE FramePipe WITH
          flight  <- [kind |-> packet.holds.kind, frames |-> packet.holds.frames],
          playing <- [kind |-> playing.kind, frames |-> playing.frames],
          heard   <- [kind |-> heard.kind, frames |-> heard.frames],
          astray  <- IF Astray THEN {dec.fs} ELSE {}

PipeSpec == Pipe!Spec

(* No symbol is encoded that its table leaves no interval for: the range keeps
   a byte of resolution.  The tables of the shell coder have empty intervals,
   and only the scaling in SKP_Silk_encode_pulses() keeps clear of them. *)
IntervalIsNormal ==
  \A rc \in {enc.rc, packet.rc, dec.rc} : rc.range \in B..B2 - 1

(* A carry never runs out of the bytes written, neither while symbols are
   encoded nor when the stream is wrapped up (the loops over --bufferIx_tmp in
   SKP_Silk_range_coder.c). *)
CarryStaysInside ==
  /\ enc.error # CARRY_LOST
  /\ Rounded(packet.rc) >= B3 => ~AllOnes(packet.rc.buffer)

(* The redundancy behind a packet is found where it is: what the decoder has
   not used when the last frame is decoded, and more than that before
   (nBytesLeft in SKP_Silk_SDK_search_for_LBRR()). *)
RedundancyFound ==
  heard.source.kind = "whole" =>
    IF Len(heard.source.frames) = 1 THEN heard.left = Len(heard.source.spare)
    ELSE heard.left > Len(heard.source.spare)

(* The codebook of the decoder is the one of its sampling rate: "revert fs if
   changed in decode_parameters" (SKP_Silk_decode_frame.c, on an error). *)
BookFitsRate == ~Astray
=============================================================================
