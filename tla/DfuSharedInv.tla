---------------------------- MODULE DfuSharedInv ----------------------------
(***************************************************************************)
(* The inductive invariants behind the properties of DfuShared.            *)
(***************************************************************************)
EXTENDS DfuSharedProps

(* The base is one of three, so that no difference with it is negative.    *)
BaseInv ==
    /\ dn_base_addr \in {0, UpgradeAddr, DataAddr}
    /\ \A t \in Transport :
          pc[t] \in {"test", "len", "base", "avail", "diff"} => part[t] \in {1, 2}
    /\ \A t \in Transport :
          pc[t] = "diff" => operand[t] \in {0, UpgradeAddr, DataAddr}
    /\ \A t \in Transport :
          block[t] > 0 \/ pc[t] \notin {"idle", "refused"} => alt[t] \in {1, 2}

(* One transport at most is between the lock and the end of the write, and *)
(* the sector it is about to program is erased.                            *)
LockInv ==
    /\ \A t \in Transport : pc[t] \in {"erase", "program"} => lock = {t}
    /\ \A t \in Transport :
          pc[t] = "program" /\ addr[t] \in Addr => flash[addr[t]] = ErasedSector
    /\ \A a \in Addr : flash[a] # ClearBuffer

Alone == \A t, u \in Transport : UnderWay(t) /\ UnderWay(u) => t = u

(* The partition that is open, once all three statics are set.             *)
Opened ==
    /\ \E a \in {1, 2} :
          /\ dn_base_addr = PartitionBase(a)
          /\ bytes_avail = PartitionEnd(a) - PartitionBase(a)
    /\ total_len <= bytes_avail
    /\ \A t \in Transport : block[t] <= total_len

(* What the only download under way finds in the statics at each place.    *)
PlaceInv(t) ==
    /\ pc[t] \in {"len", "base"} => dn_base_addr = 0
    /\ pc[t] = "base" => total_len = 0
    /\ pc[t] \in {"avail", "diff"} =>
          dn_base_addr = PartitionBase(part[t]) /\ total_len = 0 /\ block[t] = 0
    /\ pc[t] = "diff" => operand[t] = dn_base_addr
    /\ dn_base_addr = 0 => block[t] = 0 /\ pc[t] \in {"idle", "refused", "test", "len", "base"}
    /\ pc[t] = "avail_read" => operand[t] = bytes_avail
    /\ pc[t] \in {"total_read", "store"} => operand[t] = total_len
    /\ pc[t] \in {"room", "avail_read", "total_read", "lock", "erase", "program"} =>
          addr[t] = dn_base_addr + block[t]
    /\ pc[t] \in {"lock", "erase", "program", "count", "store"} => total_len < bytes_avail

TurnsInv ==
    ~ overlapped =>
        /\ Alone
        /\ dn_base_addr # 0 /\ (\A t \in Transport : pc[t] \notin {"avail", "diff"}) => Opened
        /\ \A t \in Transport : PlaceInv(t)

SharedInv == SharedTypeOK /\ BaseInv /\ LockInv /\ TurnsInv
=============================================================================
