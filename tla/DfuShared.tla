----------------------------- MODULE DfuShared ------------------------------
(***************************************************************************)
(* Both update transports at work on dfu_common.c: the device-control      *)
(* machine task (dfu_state_machine.c) and the USB task, which calls back   *)
(* into usb_dfu.c.  dfu_common keeps its three statics without a lock;     *)
(* only the flash driver has one, held from the read of a sector to its    *)
(* write.  Here dfu_common_write_to_flash is taken apart into its reads    *)
(* and writes of the statics, and a transport is what it does to them.     *)
(***************************************************************************)
EXTENDS DfuCommon

CONSTANTS Transport,   \* the tasks that call dfu_common: "int" and "usb"
          ImageSize,   \* sectors of the largest image a host downloads
          MaxTotal     \* bound: no host writes once total_len is above it

ASSUME SharedAssumption ==
    /\ ImageSize \in Nat /\ MaxTotal \in Nat
    /\ Zero \notin Payload \cup {Erased, Original}

VARIABLES
    pc,         \* transport -> where it is in dfu_common_write_to_flash
    alt,        \* transport -> setting of its download
    part,       \* transport -> the case of the switch it is in
    block,      \* transport -> next block of its download, 0 when it has none
    addr,       \* transport -> cur_addr
    operand,    \* transport -> the static it has read and is about to use
    lock,       \* the transports that hold the flash lock
    overlapped  \* history: two downloads at once since the partition was opened

locals == <<pc, alt, part, block, addr, operand>>
vars   == <<locals, lock, overlapped, commonVars>>

Room(avail, total) == avail < total \/ avail - total >= 1   \* over size_t

UnderWay(t) == pc[t] # "idle" \/ block[t] > 0

SharedInit ==
    /\ CommonInit
    /\ pc = [t \in Transport |-> "idle"]
    /\ alt = [t \in Transport |-> 0] /\ part = [t \in Transport |-> 0]
    /\ block = [t \in Transport |-> 0] /\ addr = [t \in Transport |-> 0]
    /\ operand = [t \in Transport |-> 0]
    /\ lock = {} /\ overlapped = FALSE

(* The download of t is over; its locals are 0 when they are not in use.   *)
End(t) == block' = [block EXCEPT ![t] = 0] /\ alt' = [alt EXCEPT ![t] = 0]

At(t, from, to) == pc[t] = from /\ pc' = [pc EXCEPT ![t] = to]
-----------------------------------------------------------------------------
(* The hosts.  A download starts at block 0 with a setting and goes on     *)
(* with the blocks after it; the setting chosen stays the host's.          *)
Begin(t, a) ==
    /\ block[t] = 0 /\ ImageSize > 0 /\ total_len <= MaxTotal
    /\ At(t, "idle", IF Writable(a) THEN "test" ELSE "refused")
    /\ alt' = [alt EXCEPT ![t] = a]
    /\ part' = [part EXCEPT ![t] = a]
    /\ overlapped' = (overlapped \/ \E u \in Transport \ {t} : UnderWay(u))
    /\ UNCHANGED <<block, addr, operand, lock, commonVars>>

Continue(t) ==
    /\ block[t] \in 1 .. ImageSize - 1 /\ total_len <= MaxTotal
    /\ At(t, "idle", "test")
    /\ part' = [part EXCEPT ![t] = alt[t]]
    /\ UNCHANGED <<alt, block, addr, operand, lock, overlapped, commonVars>>

(* tud_dfu_abort_cb and the machine's DFU_ABORT: the next download starts  *)
(* at block 0, and the statics of dfu_common are left as they are.         *)
AbortDownload(t) ==
    /\ pc[t] = "idle" /\ block[t] > 0
    /\ End(t)
    /\ UNCHANGED <<pc, part, addr, operand, lock, overlapped, commonVars>>

(* dfu_common_make_manifest, at the end of a download.                     *)
ManifestDownload(t) ==
    /\ pc[t] = "idle" /\ block[t] > 0
    /\ MakeManifest
    /\ End(t)
    /\ overlapped' = \E u \in Transport \ {t} : UnderWay(u)
    /\ UNCHANGED <<pc, part, addr, operand, lock, bytes_avail, total_len, flash>>

(* The watchdog that reboot() arms, or a power cut: only the flash is kept. *)
Reset ==
    /\ pc' = [t \in Transport |-> "idle"]
    /\ alt' = [t \in Transport |-> 0] /\ part' = [t \in Transport |-> 0]
    /\ block' = [t \in Transport |-> 0] /\ addr' = [t \in Transport |-> 0]
    /\ operand' = [t \in Transport |-> 0]
    /\ lock' = {} /\ overlapped' = FALSE
    /\ dn_base_addr' = 0 /\ bytes_avail' = 0 /\ total_len' = 0
    /\ UNCHANGED flash
-----------------------------------------------------------------------------
(* dfu_common_write_to_flash: the setting is refused ...                   *)
Refuse(t) ==
    /\ At(t, "refused", "idle")
    /\ End(t)
    /\ addr' = [addr EXCEPT ![t] = 0]
    /\ UNCHANGED <<part, operand, lock, overlapped, commonVars>>

(* ... or the partition is opened if none is.  Case 1 falls through to     *)
(* case 2, whose test finds the base set unless it was cleared meanwhile.  *)
NextCase(t) ==
    IF part[t] = 1
    THEN pc' = [pc EXCEPT ![t] = "test"] /\ part' = [part EXCEPT ![t] = 2]
    ELSE pc' = [pc EXCEPT ![t] = "addr"] /\ part' = [part EXCEPT ![t] = 0]

TestOpen(t) ==
    /\ pc[t] = "test"
    /\ IF dn_base_addr = 0
       THEN pc' = [pc EXCEPT ![t] = "len"] /\ UNCHANGED part
       ELSE NextCase(t)
    /\ UNCHANGED <<alt, block, addr, operand, lock, overlapped, commonVars>>

(* Mutant: a partition is opened with the length of the download before.   *)
OpenLenKept(t) ==
    /\ At(t, "len", "base")
    /\ UNCHANGED <<alt, part, block, addr, operand, lock, overlapped, commonVars>>

OpenLen(t) ==
    /\ At(t, "len", "base")
    /\ total_len' = 0
    /\ UNCHANGED <<alt, part, block, addr, operand, lock, overlapped,
                   bytes_avail, dn_base_addr, flash>>

OpenBase(t) ==
    /\ At(t, "base", "avail")
    /\ dn_base_addr' = PartitionBase(part[t])
    /\ UNCHANGED <<alt, part, block, addr, operand, lock, overlapped,
                   bytes_avail, total_len, flash>>

(* The compiler may use the base it has just stored or read it again.      *)
BaseRead(t) ==
    /\ At(t, "avail", "diff")
    /\ \E base \in {PartitionBase(part[t]), dn_base_addr} :
          operand' = [operand EXCEPT ![t] = base]
    /\ UNCHANGED <<alt, part, block, addr, lock, overlapped, commonVars>>

(* Mutant: the difference is taken the wrong way round.                    *)
OpenAvailSwapped(t) ==
    /\ pc[t] = "diff"
    /\ bytes_avail' = operand[t] - PartitionEnd(part[t])
    /\ operand' = [operand EXCEPT ![t] = 0]
    /\ NextCase(t)
    /\ UNCHANGED <<alt, block, addr, lock, overlapped, dn_base_addr, total_len, flash>>

OpenAvail(t) ==
    /\ pc[t] = "diff"
    /\ bytes_avail' = PartitionEnd(part[t]) - operand[t]
    /\ operand' = [operand EXCEPT ![t] = 0]
    /\ NextCase(t)
    /\ UNCHANGED <<alt, block, addr, lock, overlapped, dn_base_addr, total_len, flash>>

CurAddr(t) ==
    /\ At(t, "addr", "room")
    /\ addr' = [addr EXCEPT ![t] = dn_base_addr + block[t]]
    /\ UNCHANGED <<alt, part, block, operand, lock, overlapped, commonVars>>

(* The space check reads two statics, in the order the compiler chooses.   *)
RoomRead(t) ==
    /\ \/ At(t, "room", "avail_read") /\ operand' = [operand EXCEPT ![t] = bytes_avail]
       \/ At(t, "room", "total_read") /\ operand' = [operand EXCEPT ![t] = total_len]
    /\ UNCHANGED <<alt, part, block, addr, lock, overlapped, commonVars>>

CheckRoom(t) ==
    LET avail == IF pc[t] = "avail_read" THEN operand[t] ELSE bytes_avail
        total == IF pc[t] = "total_read" THEN operand[t] ELSE total_len
    IN  /\ pc[t] \in {"avail_read", "total_read"}
        /\ pc' = [pc EXCEPT ![t] = IF Room(avail, total) THEN "lock" ELSE "refused"]
        /\ operand' = [operand EXCEPT ![t] = 0]
        /\ UNCHANGED <<alt, part, block, addr, lock, overlapped, commonVars>>

(* Mutant: the driver's lock is left out.                                  *)
LockForgotten(t) ==
    /\ At(t, "lock", "erase")
    /\ lock' = lock \cup {t}
    /\ UNCHANGED <<alt, part, block, addr, operand, overlapped, commonVars>>

Lock(t) ==
    /\ lock = {}
    /\ At(t, "lock", "erase")
    /\ lock' = {t}
    /\ UNCHANGED <<alt, part, block, addr, operand, overlapped, commonVars>>

(* The flash driver, on a sector that exists.                              *)
Erase(t) ==
    /\ At(t, "erase", "program")
    /\ IF addr[t] \in Addr THEN EraseSector(addr[t]) ELSE UNCHANGED flash
    /\ UNCHANGED <<alt, part, block, addr, operand, lock, overlapped,
                   bytes_avail, dn_base_addr, total_len>>

(* A write only clears bits: it leaves the data in a sector just erased    *)
(* and in any other one a mixture (Zero).                                  *)
Programmed(sector, data) == IF sector = ErasedSector THEN data ELSE ClearBuffer

Program(t) ==
    /\ At(t, "program", "count")
    /\ IF addr[t] \in Addr
       THEN \E data \in [Frag -> Payload] :
                flash' = [flash EXCEPT ![addr[t]] = Programmed(@, data)]
       ELSE UNCHANGED flash
    /\ addr' = [addr EXCEPT ![t] = 0]
    /\ lock' = lock \ {t}
    /\ UNCHANGED <<alt, part, block, operand, overlapped,
                   bytes_avail, dn_base_addr, total_len>>

(* total_len += length, outside the lock: a read and a write.              *)
Count(t) ==
    /\ At(t, "count", "store")
    /\ operand' = [operand EXCEPT ![t] = total_len]
    /\ UNCHANGED <<alt, part, block, addr, lock, overlapped, commonVars>>

Store(t) ==
    /\ At(t, "store", "idle")
    /\ total_len' = operand[t] + 1
    /\ block' = [block EXCEPT ![t] = @ + 1]
    /\ operand' = [operand EXCEPT ![t] = 0]
    /\ UNCHANGED <<alt, part, addr, lock, overlapped,
                   bytes_avail, dn_base_addr, flash>>
-----------------------------------------------------------------------------
Host(t) ==
    \/ \E a \in Alt : Begin(t, a)
    \/ Continue(t) \/ AbortDownload(t) \/ ManifestDownload(t)

Write(t) ==
    \/ Refuse(t) \/ TestOpen(t) \/ OpenLen(t) \/ OpenBase(t) \/ BaseRead(t) \/ OpenAvail(t)
    \/ CurAddr(t) \/ RoomRead(t) \/ CheckRoom(t) \/ Lock(t) \/ Erase(t) \/ Program(t)
    \/ Count(t) \/ Store(t)

SharedNext == Reset \/ \E t \in Transport : Host(t) \/ Write(t)

SharedSpec == SharedInit /\ [][SharedNext]_vars
=============================================================================
