------------------------------ MODULE MCDfuInt ------------------------------
(***************************************************************************)
(* DfuInt on a flash of three or four sectors of two fragments: the        *)
(* factory image in sector 0, an upgrade partition of one or two sectors,  *)
(* a data partition of one.  Each .cfg gives the layout and the host.      *)
(***************************************************************************)
EXTENDS DfuIntDocs

CONSTANTS d1, d2    \* two distinct payloads
=============================================================================
