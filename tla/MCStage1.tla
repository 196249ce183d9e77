------------------------------ MODULE MCStage1 ------------------------------
(***************************************************************************)
(* Stage1 with a ring of three frames of two samples, and delays of both   *)
(* signs whose spans end within a frame or with one.                       *)
(***************************************************************************)
EXTENDS Stage1Props

MCDelays == {-5, -2, 0, 1, 4}
=============================================================================
