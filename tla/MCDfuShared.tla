---------------------------- MODULE MCDfuShared -----------------------------
(***************************************************************************)
(* DfuShared with the two transports on a flash of a factory sector, an    *)
(* upgrade partition of one sector and a data partition of two.            *)
(***************************************************************************)
EXTENDS DfuSharedProps, TLC

CONSTANTS int, usb,   \* the transports, which do the same things
          d1          \* what is downloaded

Transports == Permutations({int, usb})
=============================================================================
