-------------------------------- MODULE MCDsp --------------------------------
(* Words of three and of six bits, and every operand of them. *)
EXTENDS Dsp

AllOperands == Word32
=============================================================================
