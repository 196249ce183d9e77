-------------------------- MODULE DfuSharedProofs ---------------------------
(***************************************************************************)
(* Proofs about DfuShared, for any number of transports, any layout and    *)
(* images of any size.                                                     *)
(***************************************************************************)
EXTENDS DfuSharedInv, TLAPS

(* The bounds of the partitions, as numbers.                               *)
LEMMA Bounds ==
    /\ UpgradeAddr \in Nat /\ DataAddr \in Nat /\ FlashSize \in Nat
    /\ 0 < UpgradeAddr /\ UpgradeAddr < DataAddr /\ DataAddr < FlashSize
    /\ \A a \in {1, 2} : PartitionBase(a) \in {UpgradeAddr, DataAddr}
    /\ \A a \in {1, 2} : PartitionEnd(a) \in Nat /\ PartitionBase(a) < PartitionEnd(a)
    /\ \A a \in {1, 2}, b \in {0, UpgradeAddr, DataAddr} : PartitionEnd(a) - b \in Nat
<1>1. /\ UpgradeAddr \in Nat /\ DataAddr \in Nat /\ FlashSize \in Nat
      /\ 0 < UpgradeAddr /\ UpgradeAddr < DataAddr /\ DataAddr < FlashSize
  BY LayoutAssumption DEF LayoutAssumption
<1>2. \A a \in {1, 2} : a = 1 \/ a = 2
  OBVIOUS
<1> QED BY <1>1, <1>2 DEF PartitionBase, PartitionEnd

(* Sectors as the flash keeps them.                                        *)
LEMMA Contents ==
    /\ ErasedSector \in Sector /\ ClearBuffer \in Sector
    /\ ErasedSector # ClearBuffer
    /\ [f \in Frag |-> Original] \in Sector
    /\ [f \in Frag |-> Original] # ClearBuffer
    /\ \A data \in [Frag -> Payload] : data \in Sector /\ data # ClearBuffer
<1>1. 0 \in Frag
  BY LayoutAssumption DEF LayoutAssumption, Frag
<1>2. Zero \notin Payload /\ Zero # Erased /\ Zero # Original
  BY SharedAssumption DEF SharedAssumption
<1> QED BY <1>1, <1>2 DEF Sector, Cell, ErasedSector, ClearBuffer

(* The locals of a transport that does nothing.                            *)
LEMMA Locals ==
    /\ [t \in Transport |-> 0] \in [Transport -> Alt]
    /\ [t \in Transport |-> 0] \in [Transport -> Nat]
BY DEF Alt
-----------------------------------------------------------------------------
(* Types, with the base among the three it can be.                         *)
LEMMA InitTyped == SharedInit => SharedTypeOK /\ BaseInv
<1> SUFFICES ASSUME SharedInit PROVE SharedTypeOK /\ BaseInv
  OBVIOUS
<1>1. /\ bytes_avail = 0 /\ dn_base_addr = 0 /\ total_len = 0
      /\ flash \in [Addr -> Sector]
  BY Contents DEF SharedInit, CommonInit
<1>2. /\ alt \in [Transport -> Alt] /\ part \in [Transport -> Alt]
      /\ block \in [Transport -> Nat] /\ addr \in [Transport -> Nat]
      /\ operand \in [Transport -> Nat]
      /\ lock \subseteq Transport /\ overlapped \in BOOLEAN
  BY Locals, Zenon DEF SharedInit
<1>3. pc \in [Transport -> {"idle"}] /\ \A t \in Transport : pc[t] = "idle" /\ block[t] = 0
  BY DEF SharedInit
<1> QED BY <1>1, <1>2, <1>3 DEF SharedTypeOK, BaseInv

LEMMA NextTyped ==
    ASSUME SharedTypeOK, BaseInv, [SharedNext]_vars
    PROVE  SharedTypeOK' /\ BaseInv'
<1> USE DEF SharedTypeOK, BaseInv, Alt
<1>1. CASE Reset
  <2>1. /\ bytes_avail' \in Nat /\ dn_base_addr' = 0 /\ total_len' \in Nat
        /\ flash' \in [Addr -> Sector]
    BY <1>1 DEF Reset
  <2>3. /\ alt' \in [Transport -> 0 .. 3] /\ part' \in [Transport -> 0 .. 3]
        /\ block' \in [Transport -> Nat] /\ addr' \in [Transport -> Nat]
        /\ operand' \in [Transport -> Nat]
        /\ lock' \subseteq Transport /\ overlapped' \in BOOLEAN
    BY <1>1, Locals, Zenon DEF Reset
  <2>2. /\ pc' \in [Transport -> {"idle"}]
        /\ \A t \in Transport : pc'[t] = "idle" /\ block'[t] = 0
    BY <1>1 DEF Reset
  <2> QED BY <2>1, <2>2, <2>3
<1>2. CASE UNCHANGED vars
  BY <1>2 DEF vars, locals, commonVars
<1>3. ASSUME NEW t \in Transport, Host(t) PROVE SharedTypeOK' /\ BaseInv'
  <2>1. CASE \E a \in Alt : Begin(t, a)
    BY <2>1 DEF Begin, At, Writable, commonVars
  <2>2. CASE Continue(t)
    BY <2>2 DEF Continue, At, commonVars
  <2>3. CASE AbortDownload(t)
    BY <2>3 DEF AbortDownload, End, commonVars
  <2>4. CASE ManifestDownload(t)
    BY <2>4 DEF ManifestDownload, End, MakeManifest
  <2> QED BY <1>3, <2>1, <2>2, <2>3, <2>4 DEF Host
<1>4. ASSUME NEW t \in Transport, Write(t) PROVE SharedTypeOK' /\ BaseInv'
  <2>1. CASE Refuse(t)
    BY <2>1 DEF Refuse, At, End, commonVars
  <2>2. CASE TestOpen(t)
    BY <2>2 DEF TestOpen, NextCase, commonVars
  <2>3. CASE OpenLen(t)
    BY <2>3 DEF OpenLen, At
  <2>4. CASE OpenBase(t)
    <3>1. dn_base_addr' \in {UpgradeAddr, DataAddr}
      BY <2>4, Bounds DEF OpenBase, At
    <3> QED BY <2>4, <3>1, Bounds DEF OpenBase, At
  <2>read. CASE BaseRead(t)
    <3>1. PartitionBase(part[t]) \in {UpgradeAddr, DataAddr}
      BY <2>read, Bounds DEF BaseRead, At
    <3> QED BY <2>read, <3>1, Bounds DEF BaseRead, At, commonVars
  <2>5. CASE OpenAvail(t)
    <3>1. bytes_avail' \in Nat
      BY <2>5, Bounds DEF OpenAvail
    <3> QED BY <2>5, <3>1 DEF OpenAvail, NextCase
  <2>6. CASE CurAddr(t)
    BY <2>6 DEF CurAddr, At, commonVars
  <2>7. CASE RoomRead(t) \/ CheckRoom(t)
    BY <2>7 DEF RoomRead, CheckRoom, At, commonVars
  <2>8. CASE Lock(t)
    BY <2>8 DEF Lock, At, commonVars
  <2>9. CASE Erase(t)
    BY <2>9, Contents DEF Erase, At, EraseSector
  <2>10. CASE Program(t)
    <3>1. flash' \in [Addr -> Sector]
      BY <2>10, Contents DEF Program, Programmed
    <3> QED BY <2>10, <3>1 DEF Program, At
  <2>11. CASE Count(t)
    BY <2>11 DEF Count, At, commonVars
  <2>12. CASE Store(t)
    BY <2>12 DEF Store, At
  <2> QED BY <1>4, <2>1, <2>2, <2>3, <2>4, <2>read, <2>5, <2>6, <2>7, <2>8, <2>9, <2>10,
             <2>11, <2>12 DEF Write
<1> QED BY <1>1, <1>2, <1>3, <1>4 DEF SharedNext

(* Every variable keeps its type, whatever the transports do at once.      *)
THEOREM SharedTypeCorrect == SharedSpec => []SharedTypeOK
<1>1. SharedTypeOK /\ BaseInv /\ [SharedNext]_vars => SharedTypeOK' /\ BaseInv'
  BY NextTyped
<1> QED BY InitTyped, <1>1, PTL DEF SharedSpec
-----------------------------------------------------------------------------
(* The driver's lock.  A step that leaves the flash and the lock alone and *)
(* moves nobody into the locked section keeps the invariant.               *)
LEMMA LockKept ==
    ASSUME SharedTypeOK, LockInv, UNCHANGED <<lock, flash>>,
           \A u \in Transport : pc'[u] \in {"erase", "program"} =>
               pc'[u] = pc[u] /\ addr'[u] = addr[u]
    PROVE  LockInv'
BY DEF LockInv

LEMMA LockStep ==
    ASSUME SharedTypeOK, LockInv, [SharedNext]_vars
    PROVE  LockInv'
<1> USE DEF SharedTypeOK
<1>1. CASE Reset
  <2>1. \A t \in Transport : pc'[t] = "idle"
    BY <1>1 DEF Reset
  <2>2. flash' = flash
    BY <1>1 DEF Reset
  <2> QED BY <2>1, <2>2 DEF LockInv
<1>2. CASE UNCHANGED vars
  BY <1>2 DEF vars, locals, commonVars, LockInv
<1>3. ASSUME NEW t \in Transport, Host(t) PROVE LockInv'
  <2>1. UNCHANGED <<lock, flash, addr>>
    BY <1>3 DEF Host, Begin, Continue, AbortDownload, ManifestDownload, commonVars
  <2>2. \E to \in {"test", "refused", pc[t]} : pc' = [pc EXCEPT ![t] = to]
    BY <1>3 DEF Host, Begin, Continue, AbortDownload, ManifestDownload, At
  <2> QED BY <2>1, <2>2, LockKept
<1>4. ASSUME NEW t \in Transport, Write(t) PROVE LockInv'
  <2>1. CASE Lock(t)
    BY <2>1 DEF Lock, At, LockInv, commonVars
  <2>2. CASE Erase(t)
    <3>1. /\ lock = {t} /\ lock' = lock /\ addr' = addr
          /\ pc' = [pc EXCEPT ![t] = "program"]
      BY <2>2 DEF Erase, At, LockInv
    <3>2. \A u \in Transport : pc[u] \in {"erase", "program"} => u = t
      BY <3>1 DEF LockInv
    <3>3. addr[t] \in Addr => flash'[addr[t]] = ErasedSector
      BY <2>2 DEF Erase, EraseSector
    <3>4. \A a \in Addr : flash'[a] # ClearBuffer
      BY <2>2, Contents DEF Erase, EraseSector, LockInv
    <3>5. \A u \in Transport : pc'[u] \in {"erase", "program"} => u = t
      BY <3>1, <3>2
    <3> QED BY <3>1, <3>3, <3>4, <3>5 DEF LockInv
  <2>3. CASE Program(t)
    <3>1. lock = {t} /\ pc' = [pc EXCEPT ![t] = "count"]
      BY <2>3 DEF Program, At, LockInv
    <3>2. \A u \in Transport : pc'[u] \notin {"erase", "program"}
      BY <3>1 DEF LockInv
    <3>3. addr[t] \in Addr => flash[addr[t]] = ErasedSector
      BY <2>3 DEF Program, At, LockInv
    <3>4. \A a \in Addr : flash'[a] # ClearBuffer
      BY <2>3, <3>3, Contents DEF Program, Programmed, LockInv
    <3> QED BY <3>2, <3>4 DEF LockInv
  <2>4. CASE ~ (Lock(t) \/ Erase(t) \/ Program(t))
    <3>1. UNCHANGED <<lock, flash>>
      BY <1>4, <2>4 DEF Write, Refuse, TestOpen, OpenLen, OpenBase, BaseRead, OpenAvail, CurAddr,
                        RoomRead, CheckRoom, Count, Store, commonVars
    <3>2. \E to \in {"idle", "len", "test", "addr", "base", "avail", "diff", "room",
                     "avail_read", "total_read", "lock", "refused", "store"} : pc' = [pc EXCEPT ![t] = to]
      BY <1>4, <2>4 DEF Write, Refuse, TestOpen, OpenLen, OpenBase, BaseRead, OpenAvail, CurAddr,
                        RoomRead, CheckRoom, Count, Store, NextCase, At
    <3>3. \A u \in Transport \ {t} : addr'[u] = addr[u]
      BY <1>4, <2>4 DEF Write, Refuse, TestOpen, OpenLen, OpenBase, BaseRead, OpenAvail, CurAddr,
                        RoomRead, CheckRoom, Count, Store, commonVars
    <3> QED BY <3>1, <3>2, <3>3, LockKept
  <2> QED BY <2>1, <2>2, <2>3, <2>4
<1> QED BY <1>1, <1>2, <1>3, <1>4 DEF SharedNext

(* Two transports never write into each other's sector.                    *)
THEOREM SectorsSafe == SharedSpec => []SectorsNeverMixed
<1>1. SharedInit => LockInv
  <2> SUFFICES ASSUME SharedInit PROVE LockInv
    OBVIOUS
  <2>1. \A t \in Transport : pc[t] = "idle"
    BY DEF SharedInit
  <2>2. \A a \in Addr : flash[a] = [f \in Frag |-> Original]
    BY DEF SharedInit, CommonInit
  <2> QED BY <2>1, <2>2, Contents DEF LockInv
<1>2. SharedTypeOK /\ LockInv /\ [SharedNext]_vars => LockInv'
  BY LockStep
<1>3. LockInv => SectorsNeverMixed
  BY DEF LockInv, SectorsNeverMixed
<1> QED BY <1>1, <1>2, <1>3, SharedTypeCorrect, PTL DEF SharedSpec
-----------------------------------------------------------------------------
(* Taking turns.  While no downloads have overlapped, the transport at     *)
(* work is the only one: the others are idle and at block 0.               *)
LEMMA Solo ==
    ASSUME TurnsInv, ~ overlapped, SharedTypeOK, NEW t \in Transport, UnderWay(t)
    PROVE  \A u \in Transport \ {t} : pc[u] = "idle" /\ block[u] = 0
BY DEF TurnsInv, Alone, UnderWay, SharedTypeOK

(* So a step of it need only be examined for itself and for the statics.   *)
LEMMA SoloStep ==
    ASSUME SharedTypeOK', NEW t \in Transport, PlaceInv(t)',
           \A u \in Transport \ {t} : pc'[u] = "idle" /\ block'[u] = 0,
           dn_base_addr' # 0 /\ pc'[t] \notin {"avail", "diff"} =>
               /\ \E a \in {1, 2} :
                     /\ dn_base_addr' = PartitionBase(a)
                     /\ bytes_avail' = PartitionEnd(a) - PartitionBase(a)
               /\ block'[t] <= total_len' /\ total_len' <= bytes_avail'
    PROVE  TurnsInv'
<1>1. \A u \in Transport \ {t} : PlaceInv(u)'
  BY DEF PlaceInv
<1>2. Alone'
  BY DEF Alone, UnderWay
<1>3. total_len' \in Nat
  BY DEF SharedTypeOK
<1>4. \A u \in Transport \ {t} : block'[u] <= total_len'
  BY <1>3
<1>5. dn_base_addr' # 0 /\ (\A u \in Transport : pc'[u] \notin {"avail", "diff"}) => Opened'
  BY <1>4 DEF Opened
<1> QED BY <1>1, <1>2, <1>5 DEF TurnsInv

(* What the invariant says of the statics when t is at work.               *)
LEMMA SoloOpen ==
    ASSUME TurnsInv, ~ overlapped, SharedTypeOK, NEW t \in Transport, UnderWay(t)
    PROVE  /\ PlaceInv(t)
           /\ dn_base_addr # 0 /\ pc[t] \notin {"avail", "diff"} =>
                /\ \E a \in {1, 2} :
                     /\ dn_base_addr = PartitionBase(a)
                     /\ bytes_avail = PartitionEnd(a) - PartitionBase(a)
                /\ block[t] <= total_len /\ total_len <= bytes_avail
<1>1. \A u \in Transport \ {t} : pc[u] = "idle"
  BY Solo
<1>2. dn_base_addr # 0 /\ pc[t] \notin {"avail", "diff"} => Opened
  BY <1>1 DEF TurnsInv
<1> QED BY <1>2 DEF TurnsInv, Opened

LEMMA HostTurns ==
    ASSUME SharedTypeOK, BaseInv, SharedTypeOK', TurnsInv, NEW t \in Transport, Host(t)
    PROVE  TurnsInv'
<1> SUFFICES ASSUME ~ overlapped' PROVE TurnsInv'
  BY DEF TurnsInv
<1> USE DEF SharedTypeOK
<1>1. ASSUME NEW a \in Alt, Begin(t, a) PROVE TurnsInv'
  <2>1. /\ ~ overlapped /\ pc[t] = "idle" /\ block[t] = 0 /\ block' = block
        /\ \A u \in Transport \ {t} : ~ UnderWay(u)
    BY <1>1 DEF Begin, At
  <2>2. \A u \in Transport \ {t} : pc[u] = "idle" /\ block[u] = 0
    BY <2>1 DEF UnderWay
  <2>3. \E to \in {"test", "refused"} : pc' = [pc EXCEPT ![t] = to]
    BY <1>1 DEF Begin, At
  <2>4. \A u \in Transport \ {t} : pc'[u] = "idle" /\ block'[u] = 0
    BY <2>1, <2>2, <2>3
  <2>5. \A u \in Transport : pc[u] \notin {"avail", "diff"}
    BY <2>1, <2>2
  <2>6. UNCHANGED <<dn_base_addr, bytes_avail, total_len>>
    BY <1>1 DEF Begin, commonVars
  <2>7. dn_base_addr # 0 => Opened
    BY <2>1, <2>5 DEF TurnsInv
  <2>8. PlaceInv(t)'
    BY <2>1, <2>3 DEF PlaceInv
  <2> QED BY <2>1, <2>4, <2>6, <2>7, <2>8, SoloStep DEF Opened
<1>2. CASE Continue(t)
  <2>1. UnderWay(t) /\ ~ overlapped /\ block[t] # 0 /\ block' = block
    BY <1>2 DEF Continue, At, UnderWay
  <2>2. pc[t] = "idle" /\ pc' = [pc EXCEPT ![t] = "test"]
    BY <1>2 DEF Continue, At
  <2>3. \A u \in Transport \ {t} : pc'[u] = "idle" /\ block'[u] = 0
    BY <2>1, <2>2, Solo
  <2>4. UNCHANGED <<dn_base_addr, bytes_avail, total_len>>
    BY <1>2 DEF Continue, commonVars
  <2>5. dn_base_addr # 0
    BY <2>1, SoloOpen DEF PlaceInv
  <2>6. PlaceInv(t)'
    BY <2>2, <2>4, <2>5 DEF PlaceInv
  <2> QED BY <2>1, <2>2, <2>3, <2>4, <2>6, SoloOpen, SoloStep
<1>3. CASE AbortDownload(t)
  <2>1. UnderWay(t) /\ ~ overlapped /\ pc[t] = "idle" /\ pc' = pc
    BY <1>3 DEF AbortDownload, UnderWay
  <2>2. block' = [block EXCEPT ![t] = 0]
    BY <1>3 DEF AbortDownload, End
  <2>3. \A u \in Transport \ {t} : pc'[u] = "idle" /\ block'[u] = 0
    BY <2>1, <2>2, Solo
  <2>4. UNCHANGED <<dn_base_addr, bytes_avail, total_len>>
    BY <1>3 DEF AbortDownload, commonVars
  <2>5. PlaceInv(t)'
    BY <2>1, <2>2 DEF PlaceInv
  <2> QED BY <2>1, <2>2, <2>3, <2>4, <2>5, SoloOpen, SoloStep
<1>4. CASE ManifestDownload(t)
  <2>1. /\ \A u \in Transport \ {t} : ~ UnderWay(u)
        /\ pc[t] = "idle" /\ pc' = pc /\ dn_base_addr' = 0
        /\ block' = [block EXCEPT ![t] = 0]
    BY <1>4 DEF ManifestDownload, MakeManifest, End
  <2>2. \A u \in Transport : pc'[u] = "idle" /\ block'[u] = 0
    BY <2>1 DEF UnderWay
  <2>3. PlaceInv(t)'
    BY <2>2 DEF PlaceInv
  <2> QED BY <2>1, <2>2, <2>3, SoloStep
<1> QED BY <1>1, <1>2, <1>3, <1>4 DEF Host

LEMMA WriteTurns ==
    ASSUME SharedTypeOK, BaseInv, SharedTypeOK', TurnsInv, NEW t \in Transport, Write(t)
    PROVE  TurnsInv'
<1> SUFFICES ASSUME ~ overlapped' PROVE TurnsInv'
  BY DEF TurnsInv
<1> USE DEF SharedTypeOK
<1>1. ~ overlapped /\ pc[t] # "idle"
  BY DEF Write, Refuse, TestOpen, OpenLen, OpenBase, BaseRead, OpenAvail, CurAddr, RoomRead, CheckRoom, Lock,
         Erase, Program, Count, Store, At
<1>2. \A u \in Transport \ {t} : pc[u] = "idle" /\ block[u] = 0
  BY <1>1, Solo DEF UnderWay
<1>3. \A u \in Transport \ {t} : pc'[u] = pc[u] /\ block'[u] = block[u]
  BY DEF Write, Refuse, TestOpen, OpenLen, OpenBase, BaseRead, OpenAvail, CurAddr, RoomRead, CheckRoom, Lock,
         Erase, Program, Count, Store, At, NextCase, End
<1>4. \A u \in Transport \ {t} : pc'[u] = "idle" /\ block'[u] = 0
  BY <1>2, <1>3
<1>5. /\ PlaceInv(t)
      /\ dn_base_addr # 0 /\ pc[t] \notin {"avail", "diff"} =>
           /\ \E a \in {1, 2} :
                /\ dn_base_addr = PartitionBase(a)
                /\ bytes_avail = PartitionEnd(a) - PartitionBase(a)
           /\ block[t] <= total_len /\ total_len <= bytes_avail
  BY <1>1, SoloOpen DEF UnderWay
<1> DEFINE Fits ==
      dn_base_addr' # 0 /\ pc'[t] \notin {"avail", "diff"} =>
           /\ \E a \in {1, 2} :
                /\ dn_base_addr' = PartitionBase(a)
                /\ bytes_avail' = PartitionEnd(a) - PartitionBase(a)
           /\ block'[t] <= total_len' /\ total_len' <= bytes_avail'
<1>6. PlaceInv(t)' /\ Fits
  <2>1. CASE Refuse(t)
    <3>1. /\ pc[t] = "refused" /\ pc'[t] = "idle" /\ block'[t] = 0
          /\ UNCHANGED <<dn_base_addr, bytes_avail, total_len>>
      BY <2>1 DEF Refuse, At, End, commonVars
    <3> QED BY <3>1, <1>5 DEF PlaceInv
  <2>2. CASE TestOpen(t)
    <3>1. /\ pc[t] = "test" /\ block' = block
          /\ UNCHANGED <<dn_base_addr, bytes_avail, total_len>>
          /\ \/ dn_base_addr = 0 /\ pc'[t] = "len"
             \/ dn_base_addr # 0 /\ pc'[t] \in {"test", "addr"}
      BY <2>2 DEF TestOpen, NextCase, commonVars
    <3> QED BY <3>1, <1>5 DEF PlaceInv
  <2>3. CASE OpenLen(t)
    <3>1. /\ pc[t] = "len" /\ pc'[t] = "base" /\ block' = block
          /\ total_len' = 0 /\ UNCHANGED dn_base_addr
      BY <2>3 DEF OpenLen, At
    <3> QED BY <3>1, <1>5 DEF PlaceInv
  <2>4. CASE OpenBase(t)
    <3>1. /\ pc[t] = "base" /\ pc'[t] = "avail" /\ block' = block /\ part' = part
          /\ total_len' = total_len /\ dn_base_addr' = PartitionBase(part[t])
      BY <2>4 DEF OpenBase, At
    <3>2. part[t] \in {1, 2}
      BY <3>1 DEF BaseInv
    <3>3. dn_base_addr' # 0
      BY <3>1, <3>2, Bounds
    <3> QED BY <3>1, <3>3, <1>5 DEF PlaceInv
  <2>read. CASE BaseRead(t)
    <3>1. /\ pc[t] = "avail" /\ pc'[t] = "diff" /\ block' = block /\ part' = part
          /\ UNCHANGED <<total_len, dn_base_addr>>
          /\ operand'[t] \in {PartitionBase(part[t]), dn_base_addr}
      BY <2>read DEF BaseRead, At, commonVars
    <3> QED BY <3>1, <1>5 DEF PlaceInv
  <2>5. CASE OpenAvail(t)
    <3>1. /\ pc[t] = "diff" /\ block' = block /\ UNCHANGED <<total_len, dn_base_addr>>
          /\ pc'[t] \in {"test", "addr"}
          /\ bytes_avail' = PartitionEnd(part[t]) - operand[t]
      BY <2>5 DEF OpenAvail, NextCase
    <3>2. part[t] \in {1, 2}
      BY <3>1 DEF BaseInv
    <3>3. /\ dn_base_addr = PartitionBase(part[t]) /\ operand[t] = dn_base_addr
          /\ total_len = 0 /\ block[t] = 0
      BY <3>1, <1>5 DEF PlaceInv
    <3>4. bytes_avail' = PartitionEnd(part[t]) - PartitionBase(part[t])
      BY <3>1, <3>3
    <3>5. dn_base_addr # 0
      BY <3>2, <3>3, Bounds
    <3>6. Fits
      BY <3>1, <3>2, <3>3, <3>4, Bounds
    <3> QED BY <3>1, <3>5, <3>6, <1>5 DEF PlaceInv
  <2>6. CASE CurAddr(t)
    <3>1. /\ pc[t] = "addr" /\ pc'[t] = "room" /\ block' = block
          /\ addr'[t] = dn_base_addr + block[t]
          /\ UNCHANGED <<dn_base_addr, bytes_avail, total_len>>
      BY <2>6 DEF CurAddr, At, commonVars
    <3> QED BY <3>1, <1>5 DEF PlaceInv
  <2>room. CASE RoomRead(t)
    <3>1. /\ pc[t] = "room" /\ UNCHANGED <<block, addr>>
          /\ UNCHANGED <<dn_base_addr, bytes_avail, total_len>>
          /\ \/ pc'[t] = "avail_read" /\ operand'[t] = bytes_avail
             \/ pc'[t] = "total_read" /\ operand'[t] = total_len
      BY <2>room DEF RoomRead, At, commonVars
    <3> QED BY <3>1, <1>5 DEF PlaceInv
  <2>7. CASE CheckRoom(t)
    <3>1. /\ pc[t] \in {"avail_read", "total_read"} /\ UNCHANGED <<block, addr>>
          /\ UNCHANGED <<dn_base_addr, bytes_avail, total_len>>
          /\ pc'[t] \in {"lock", "refused"}
      BY <2>7 DEF CheckRoom, commonVars
    <3>2. dn_base_addr # 0
      BY <3>1, <1>5 DEF PlaceInv
    <3>3. total_len <= bytes_avail
      BY <3>1, <3>2, <1>5
    <3>4. pc'[t] = "lock" => Room(bytes_avail, total_len)
      BY <2>7, <1>5 DEF CheckRoom, PlaceInv
    <3>5. pc'[t] = "lock" => total_len < bytes_avail
      BY <3>3, <3>4 DEF Room
    <3> QED BY <3>1, <3>2, <3>5, <1>5 DEF PlaceInv
  <2>8. CASE Lock(t) \/ Erase(t)
    <3>1. /\ UNCHANGED <<block, addr, dn_base_addr, bytes_avail, total_len>>
          /\ \/ pc[t] = "lock" /\ pc'[t] = "erase"
             \/ pc[t] = "erase" /\ pc'[t] = "program"
      BY <2>8 DEF Lock, Erase, At, commonVars
    <3> QED BY <3>1, <1>5 DEF PlaceInv
  <2>9. CASE Program(t) \/ Count(t)
    <3>1. /\ UNCHANGED <<block, dn_base_addr, bytes_avail, total_len>>
          /\ \/ pc[t] = "program" /\ pc'[t] = "count"
             \/ pc[t] = "count" /\ pc'[t] = "store" /\ operand'[t] = total_len
      BY <2>9 DEF Program, Count, At, commonVars
    <3> QED BY <3>1, <1>5 DEF PlaceInv
  <2>10. CASE Store(t)
    <3>1. /\ pc[t] = "store" /\ pc'[t] = "idle" /\ block'[t] = block[t] + 1
          /\ UNCHANGED <<dn_base_addr, bytes_avail>> /\ total_len' = operand[t] + 1
      BY <2>10 DEF Store, At
    <3>2. operand[t] = total_len /\ total_len < bytes_avail /\ dn_base_addr # 0
      BY <3>1, <1>5 DEF PlaceInv
    <3>3. block'[t] <= total_len' /\ total_len' <= bytes_avail'
      BY <3>1, <3>2, <1>5
    <3> QED BY <3>1, <3>2, <3>3, <1>5 DEF PlaceInv
  <2> QED BY <2>1, <2>2, <2>3, <2>4, <2>read, <2>5, <2>6, <2>room, <2>7, <2>8, <2>9, <2>10
      DEF Write
<1> QED BY <1>4, <1>6, SoloStep

LEMMA TurnsStep ==
    ASSUME SharedTypeOK, BaseInv, SharedTypeOK', TurnsInv, [SharedNext]_vars
    PROVE  TurnsInv'
<1>1. CASE Reset
  <2>1. \A t \in Transport : pc'[t] = "idle" /\ block'[t] = 0
    BY <1>1 DEF Reset
  <2>2. dn_base_addr' = 0
    BY <1>1 DEF Reset
  <2>3. \A t \in Transport : PlaceInv(t)'
    BY <2>1 DEF PlaceInv
  <2>4. Alone'
    BY <2>1 DEF Alone, UnderWay
  <2> QED BY <2>2, <2>3, <2>4 DEF TurnsInv
<1>2. CASE UNCHANGED vars
  BY <1>2 DEF vars, locals, commonVars, TurnsInv, Alone, UnderWay, Opened, PlaceInv
<1>3. CASE \E t \in Transport : Host(t) \/ Write(t)
  BY <1>3, HostTurns, WriteTurns
<1> QED BY <1>1, <1>2, <1>3 DEF SharedNext

(* Hosts that take turns never make dfu_common write outside the partition *)
(* that is open, however many downloads are aborted and whichever          *)
(* transport finds the statics the other has left.                         *)
THEOREM TurnsSafe == SharedSpec => []TurnsStayInside
<1>1. SharedInit => TurnsInv
  <2> SUFFICES ASSUME SharedInit PROVE TurnsInv
    OBVIOUS
  <2>1. \A t \in Transport : pc[t] = "idle" /\ block[t] = 0
    BY DEF SharedInit
  <2>2. dn_base_addr = 0
    BY DEF SharedInit, CommonInit
  <2> QED BY <2>1, <2>2 DEF TurnsInv, Alone, UnderWay, PlaceInv
<1>2. /\ SharedTypeOK /\ BaseInv /\ TurnsInv /\ [SharedNext]_vars
      => SharedTypeOK' /\ BaseInv' /\ TurnsInv'
  BY NextTyped, TurnsStep
<1>3. SharedTypeOK /\ TurnsInv => TurnsStayInside
  <2> SUFFICES ASSUME SharedTypeOK, TurnsInv, ~ overlapped, NEW t \in Transport,
                      pc[t] \in {"erase", "program"}
               PROVE  /\ addr[t] \in dn_base_addr .. dn_base_addr + bytes_avail - 1
                      /\ \E a \in {1, 2} :
                            addr[t] \in PartitionBase(a) .. PartitionEnd(a) - 1
    BY DEF TurnsStayInside
  <2>1. UnderWay(t)
    BY DEF UnderWay
  <2>2. /\ addr[t] = dn_base_addr + block[t] /\ total_len < bytes_avail
        /\ dn_base_addr # 0
    BY <2>1, SoloOpen DEF PlaceInv
  <2>3. PICK a \in {1, 2} : /\ dn_base_addr = PartitionBase(a)
                            /\ bytes_avail = PartitionEnd(a) - PartitionBase(a)
    BY <2>1, <2>2, SoloOpen
  <2>4. block[t] <= total_len
    BY <2>1, <2>2, SoloOpen
  <2>5. /\ PartitionBase(a) \in Nat /\ PartitionEnd(a) \in Nat
        /\ block[t] \in Nat /\ total_len \in Nat
    BY Bounds DEF SharedTypeOK
  <2> QED BY <2>2, <2>3, <2>4, <2>5
<1> QED BY InitTyped, <1>1, <1>2, <1>3, PTL DEF SharedSpec
=============================================================================
