--------------------------- MODULE DfuSharedProps ---------------------------
(***************************************************************************)
(* What is left of the promises of dfu_common.c with two transports.       *)
(***************************************************************************)
EXTENDS DfuShared

(* Every variable has its type.                                            *)
SharedTypeOK ==
    /\ bytes_avail \in Nat /\ dn_base_addr \in Nat /\ total_len \in Nat
    /\ flash \in [Addr -> Sector]
    /\ pc \in [Transport -> {"idle", "refused", "test", "len", "base", "avail", "diff",
                             "addr", "room", "avail_read", "total_read", "lock", "erase", "program", "count", "store"}]
    /\ alt \in [Transport -> Alt] /\ part \in [Transport -> Alt]
    /\ block \in [Transport -> Nat] /\ addr \in [Transport -> Nat]
    /\ operand \in [Transport -> Nat]
    /\ lock \subseteq Transport /\ overlapped \in BOOLEAN

(* As long as the two hosts take turns, each download being finished or    *)
(* aborted before the other begins, every sector erased or written is in   *)
(* the partition that is open, although an aborted download leaves the     *)
(* other transport its base and its length.                                *)
TurnsStayInside ==
    \A t \in Transport :
        ~ overlapped /\ pc[t] \in {"erase", "program"} =>
            /\ addr[t] \in dn_base_addr .. dn_base_addr + bytes_avail - 1
            /\ \E a \in {1, 2} : addr[t] \in PartitionBase(a) .. PartitionEnd(a) - 1

(* The flash driver's lock makes each write of a sector a whole one even   *)
(* when both transports write the same sector: what is there, unless some  *)
(* transport is between erase and write or a reset struck there, was       *)
(* written by one call.                                                    *)
SectorsNeverMixed == \A a \in Addr : flash[a] # ClearBuffer

(* The factory image is read-only (dfu_state_machine.h), whatever the two  *)
(* hosts do: no step changes a sector below the upgrade partition.         *)
FactoryUntouched == [][\A a \in 0 .. UpgradeAddr - 1 : flash'[a] = flash[a]]_flash
=============================================================================
