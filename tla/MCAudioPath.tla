---------------------------- MODULE MCAudioPath -----------------------------
(***************************************************************************)
(* AudioPath with delays counted in units of 80 samples, so that a frame   *)
(* has three and the 40 ms of the product are eight.                       *)
(***************************************************************************)
EXTENDS AudioPathProps

NegativeDelay == -6
MCMicDelays == {8, 0, NegativeDelay}
=============================================================================
