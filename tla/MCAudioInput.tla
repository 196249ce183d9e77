---------------------------- MODULE MCAudioInput ----------------------------
(***************************************************************************)
(* AudioInput with frames of five samples, so that the ring, of 2.2        *)
(* frames, holds eleven.                                                   *)
(***************************************************************************)
EXTENDS AudioInputProps

MCI2sSamples == (22 * FrameAdvance) \div 10
=============================================================================
