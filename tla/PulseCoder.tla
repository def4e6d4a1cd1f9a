----------------------------- MODULE PulseCoder -----------------------------
(***************************************************************************)
(* The excitation of a SILK frame as symbols of the range coder:           *)
(* SKP_Silk_encode_pulses(), SKP_Silk_decode_pulses(), the shell coder and *)
(* the signs.                                                              *)
(*                                                                         *)
(* An excitation is a sequence of blocks, and a block one of 2^LEVELS      *)
(* pulses (16 in the code).  The pulses of a block are the leaves of a     *)
(* binary tree with the root 1 and the children 2n and 2n + 1 of a node n: *)
(* its nodes hold the sums that the code keeps in pulses1 .. pulses4.      *)
(***************************************************************************)
EXTENDS RangeCoder

CONSTANTS
  LEVELS,              \* levels of sums: 4 in the code
  BLOCKS,              \* shell blocks of a frame
  N_RATE_LEVELS,
  max_pulses_table,    \* the largest sum of each level, 0 that of the pairs
  rate_levels_CDF,     \* for each sigtype
  pulses_per_block_CDF,  \* for each rate level
  shell_code_table,    \* for each level, and sum to be split
  lsb_CDF,
  sign_CDF             \* for each sigtype, QuantOffsetType and rate level

SHELL_CODEC_FRAME_LENGTH == 2^LEVELS
MAX_PULSES == max_pulses_table[LEVELS - 1]

ASSUME PulseAssumption ==
  /\ LEVELS \in Nat \ {0} /\ BLOCKS \in Nat \ {0} /\ N_RATE_LEVELS \in Nat \ {0}
  /\ max_pulses_table \in [0..LEVELS - 1 -> Nat]

(* A sum of a level that splits into k and the rest, each within the limit of
   the level below. *)
IsSplit(level, sum, k) ==
  level > 0 => k <= max_pulses_table[level - 1] /\ sum - k <= max_pulses_table[level - 1]

(* The tables of SKP_Silk_tables_pulses_per_block.c and SKP_Silk_tables_sign.c.
   Those of the shell coder leave no interval to what is no split. *)
ASSUME PulseTables ==
  /\ \A sigtype \in 0..1 : /\ IsFullTable(rate_levels_CDF[sigtype])
                           /\ DOMAIN rate_levels_CDF[sigtype] = 0..N_RATE_LEVELS - 1
  /\ \A rate \in 0..N_RATE_LEVELS - 1 : /\ IsFullTable(pulses_per_block_CDF[rate])
                                        /\ DOMAIN pulses_per_block_CDF[rate] = 0..MAX_PULSES + 2
  /\ \A level \in 0..LEVELS - 1 : \A sum \in 1..max_pulses_table[level] :
       LET cdf == shell_code_table[level][sum] IN
       /\ IsTable(cdf) /\ DOMAIN cdf = 0..sum + 1
       /\ \A k \in 0..sum : cdf[k] < cdf[k + 1] <=> IsSplit(level, sum, k)
  /\ IsFullTable(lsb_CDF) /\ DOMAIN lsb_CDF = 0..2
  /\ \A sigtype, offset \in 0..1, rate \in 0..N_RATE_LEVELS - 2 :
       /\ IsFullTable(sign_CDF[sigtype][offset][rate])
       /\ DOMAIN sign_CDF[sigtype][offset][rate] = 0..2

Blocks == 1..BLOCKS
Inner  == 1..SHELL_CODEC_FRAME_LENGTH - 1

Level(n) == CHOOSE l \in 0..LEVELS - 1 : 2^(LEVELS - 1 - l) <= n /\ n < 2^(LEVELS - l)

(* A sequence walked through from the left: FoldLeft as a function on its
   positions, which TLC evaluates in one pass. *)
Walk(op(_, _), start, seq) ==
  LET after[i \in 0..Len(seq)] == IF i = 0 THEN start ELSE op(after[i - 1], seq[i])
  IN after[Len(seq)]

Concat(seqs) == Walk(LAMBDA s, t : s \o t, <<>>, seqs)

(* The inner nodes from the last one to the root: what is known of the children
   of a node is then at its own place and the next one. *)
Upwards == [i \in Inner |-> SHELL_CODEC_FRAME_LENGTH - i]

(* The inner nodes in the order of the calls to encode_split(): each before
   those below it. *)
Preorder ==
  Walk(LAMBDA below, n : <<<<n>> \o below[n] \o below[n + 1]>> \o below,
       [leaf \in 1..SHELL_CODEC_FRAME_LENGTH |-> <<>>], Upwards)[1]

Abs(p) == IF p < 0 THEN -p ELSE p

(* combine_pulses(): the sums at all nodes of a block of magnitudes. *)
Sums(abs) == Walk(LAMBDA sum, n : <<sum[n] + sum[n + 1]>> \o sum, abs, Upwards)

(* Faulty variant of TooMany: only the sum of the block is compared. *)
TooManyInAll(sum) == sum[1] > MAX_PULSES

(* combine_and_check() at every level: one sum that is too large asks for the
   whole block to be scaled down. *)
TooMany(sum) == \E n \in Inner : sum[n] > max_pulses_table[Level(n)]

(* A block as it is coded: how often it was scaled down, and its sums then. *)
Scaled(pulses) ==
  LET down[r \in Nat] ==
        LET sum == Sums([k \in DOMAIN pulses |-> Abs(pulses[k]) \div 2^r])
        IN IF TooMany(sum) THEN down[r + 1]
           ELSE [pulses |-> pulses, nRshifts |-> r, sum |-> sum]
  IN down[0]

-----------------------------------------------------------------------------
Symbol(cdf, data) == [cdf |-> cdf, data |-> data]

SumSymbols(block, rate) ==
  LET escape == MAX_PULSES + 1
      rest   == pulses_per_block_CDF[N_RATE_LEVELS - 1]
  IN IF block.nRshifts = 0 THEN <<Symbol(pulses_per_block_CDF[rate], block.sum[1])>>
     ELSE <<Symbol(pulses_per_block_CDF[rate], escape)>>
          \o [i \in 1..block.nRshifts - 1 |-> Symbol(rest, escape)]
          \o <<Symbol(rest, block.sum[1])>>

(* SKP_Silk_shell_encoder(): how each sum that is not zero splits. *)
SplitSymbols(sum, n) ==
  IF sum[n] = 0 THEN <<>> ELSE <<Symbol(shell_code_table[Level(n)][sum[n]], sum[2 * n])>>

ShellSymbols(block) ==
  Concat([i \in DOMAIN Preorder |-> SplitSymbols(block.sum, Preorder[i])])

(* The bits that were shifted out of every pulse, from the highest one. *)
LsbSymbols(block) ==
  Concat([k \in DOMAIN block.pulses |->
    [j \in 1..block.nRshifts |->
      Symbol(lsb_CDF, (Abs(block.pulses[k]) \div 2^(block.nRshifts - j)) % 2)]])

(* SKP_Silk_encode_signs(). *)
SignSymbols(block, cdf) ==
  Concat([k \in DOMAIN block.pulses |->
    IF block.pulses[k] = 0 THEN <<>>
    ELSE <<Symbol(cdf, IF block.pulses[k] < 0 THEN 0 ELSE 1)>>])

(* SKP_Silk_encode_pulses(), for a rate level it may find to be the best. *)
PulseSymbols(q, sigtype, offset, rate) ==
  LET block == [i \in Blocks |-> Scaled(q[i])]
      sign  == sign_CDF[sigtype][offset][rate]
  IN <<Symbol(rate_levels_CDF[sigtype], rate)>>
     \o Concat([i \in Blocks |-> SumSymbols(block[i], rate)])
     \o Concat([i \in Blocks |-> ShellSymbols(block[i])])
     \o Concat([i \in Blocks |-> LsbSymbols(block[i])])
     \o Concat([i \in Blocks |-> SignSymbols(block[i], sign)])

-----------------------------------------------------------------------------
(* The decoder builds a frame d out of symbols: a record with the coder, the
   symbol decoded last and what has been decoded of the frame, of which this
   module uses the sums, the shifts and the pulses q of the blocks, and the tree
   of the block at hand. *)
Put(d, r) == [d EXCEPT !.rc = r.rc, !.data = r.data]

Read(d, cdf) == Put(d, RangeDecode(d.rc, cdf))

Keep(d, field) == [d EXCEPT ![field] = d.data]

Sigtype(d)         == d.typeOffset \div 2
QuantOffsetType(d) == d.typeOffset % 2

ReadRate(d) == Keep(Read(d, rate_levels_CDF[Sigtype(d)]), "rate")

(* How often block i was announced to be scaled down, and its sum.  Every
   announcement takes a bit or more from the payload, so that MAX_SHIFTS of them
   lead beyond the longest one, which is an error in the end (Checked); the code
   goes on to count them. *)
MAX_SHIFTS == MAX_ARITHM_BYTES * b

Unescape(d, i) == Read([d EXCEPT !.shifts[i] = @ + 1], pulses_per_block_CDF[N_RATE_LEVELS - 1])

Repeated(i, times) == [k \in 1..times |-> i]

Unescaped(d, i, times) == Walk(Unescape, d, Repeated(i, times))

Escapes(d, i) ==
  CHOOSE times \in 0..MAX_SHIFTS :
    /\ times < MAX_SHIFTS => Unescaped(d, i, times).data <= MAX_PULSES
    /\ \A k \in 0..times - 1 : Unescaped(d, i, k).data > MAX_PULSES

Bounded(d) == IF d.data <= MAX_PULSES THEN d ELSE Put(d, Failed(d.rc, READ_BEYOND))

ReadSum(d, i) ==
  LET first == Read([d EXCEPT !.shifts = Append(@, 0)], pulses_per_block_CDF[d.rate])
      last  == Bounded(Unescaped(first, i, Escapes(first, i)))
  IN [last EXCEPT !.sum = Append(@, last.data)]

(* SKP_Silk_shell_decoder(): the first child is decoded, the second gets what
   is left.  A node without pulses has none below. *)
Divide(d, n) == [d EXCEPT !.tree[2 * n] = d.data, !.tree[2 * n + 1] = d.tree[n] - d.data]

Split(d, n) ==
  IF d.tree[n] = 0 THEN d ELSE Divide(Read(d, shell_code_table[Level(n)][d.tree[n]]), n)

Planted(d, i) ==
  [d EXCEPT !.tree = <<d.sum[i]>> \o [n \in 1..2 * SHELL_CODEC_FRAME_LENGTH - 2 |-> 0]]

Leaves(d) ==
  [d EXCEPT !.q = Append(@, SubSeq(d.tree, SHELL_CODEC_FRAME_LENGTH, Len(d.tree)))]

ReadShell(d, i) == Leaves(Walk(Split, Planted(d, i), Preorder))

(* Each pulse of a block that was scaled down gets its lower bits back. *)
Positions(times) ==
  Concat([i \in Blocks |->
    Concat([k \in 1..SHELL_CODEC_FRAME_LENGTH |-> [j \in 1..times[i] |-> <<i, k>>]])])

AddBit(d, at)  == [d EXCEPT !.q[at[1]][at[2]] = 2 * @ + d.data]
ReadLsb(d, at) == AddBit(Read(d, lsb_CDF), at)

(* SKP_Silk_decode_signs(). *)
AddSign(d, at)  == [d EXCEPT !.q[at[1]][at[2]] = @ * (2 * d.data - 1)]
ReadSign(d, at) ==
  IF d.q[at[1]][at[2]] = 0 THEN d
  ELSE AddSign(Read(d, sign_CDF[Sigtype(d)][QuantOffsetType(d)][d.rate]), at)

InBlocks == [i \in Blocks |-> i]
Once     == [i \in Blocks |-> 1]

(* SKP_Silk_decode_pulses(). *)
ReadSums(d)   == Walk(ReadSum, d, InBlocks)
ReadShells(d) == Walk(ReadShell, d, InBlocks)
ReadLsbs(d)   == Walk(ReadLsb, d, Positions(d.shifts))
ReadSigns(d)  == Walk(ReadSign, d, Positions(Once))

DecodePulses(d) == ReadSigns(ReadLsbs(ReadShells(ReadSums(ReadRate(d)))))
=============================================================================
