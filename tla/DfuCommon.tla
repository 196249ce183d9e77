------------------------------ MODULE DfuCommon ------------------------------
(***************************************************************************)
(* dfu_common.c: the flash side of firmware update.  Both DFU transports   *)
(* (the device-control servicer and the USB class driver) write, manifest  *)
(* and read through the three file-scope statics modelled here.            *)
(*                                                                         *)
(* A flash address counts sectors (4096 bytes); a transfer block, the unit *)
(* of an upload, is one fragment (128 bytes), of which NUM_FRAGMENTS make  *)
(* a sector.  Address 0 is never the base of a writable partition, which   *)
(* is what lets dn_base_addr = 0 stand for "no download open".             *)
(***************************************************************************)
EXTENDS Integers

CONSTANTS
    NUM_FRAGMENTS,  \* fragments per sector (DFU_NUM_FRAGMENTS, 32 in the product)
    FactoryAddr,    \* first sector of the factory image
    FactorySize,    \* fragments of the factory image
    UpgradeAddr,    \* first sector of the upgrade partition
    UpgradeSize,    \* fragments of the upgrade image present at boot
    DataAddr,       \* first sector of the data partition
    FlashSize,      \* sectors of the flash
    Payload,        \* the contents a host can put in a fragment
    Zero,           \* a fragment cleared by memset
    Erased,         \* a fragment of an erased sector
    Original        \* a fragment as it was before any update

ASSUME LayoutAssumption ==
    /\ NUM_FRAGMENTS \in Nat \ {0}
    /\ FactoryAddr \in Nat /\ UpgradeAddr \in Nat
    /\ DataAddr \in Nat /\ FlashSize \in Nat
    /\ FactoryAddr < UpgradeAddr
    /\ UpgradeAddr < DataAddr
    /\ DataAddr < FlashSize
    /\ FactorySize \in 0 .. (UpgradeAddr - FactoryAddr) * NUM_FRAGMENTS
    /\ UpgradeSize \in 0 .. (DataAddr - UpgradeAddr) * NUM_FRAGMENTS

VARIABLES
    bytes_avail,    \* sectors of the partition opened by the first write
    dn_base_addr,   \* its first sector, 0 when no download is open
    total_len,      \* sectors written since it was opened
    flash           \* sector -> fragment -> contents (the QSPI flash)

commonVars == <<bytes_avail, dn_base_addr, total_len, flash>>
-----------------------------------------------------------------------------
Alt    == 0 .. 3    \* factory, upgrade, data, and any other setting
Frag   == 0 .. NUM_FRAGMENTS - 1
Addr   == 0 .. FlashSize - 1
Cell   == Payload \cup {Zero, Erased, Original}
Sector == [Frag -> Cell]

ClearBuffer  == [f \in Frag |-> Zero]       \* memset(buffer, 0, sector)
ErasedSector == [f \in Frag |-> Erased]

STATUS_OK   == "OK"
ERR_WRITE   == "errWRITE"
ERR_ADDRESS == "errADDRESS"

CommonTypeOK ==
    /\ bytes_avail \in Nat /\ dn_base_addr \in Nat /\ total_len \in Nat
    /\ flash \in [Addr -> Sector]

CommonInit ==
    /\ bytes_avail = 0 /\ dn_base_addr = 0 /\ total_len = 0
    /\ flash = [a \in Addr |-> [f \in Frag |-> Original]]
-----------------------------------------------------------------------------
(* dfu_common_write_to_flash, up to the decision to write: the first write *)
(* of a download fixes the partition, every later one reuses it whatever   *)
(* its alt setting is.                                                     *)
Writable(alt) == alt \in {1, 2}

(* Mutant: the upgrade image is opened at the address of the factory image. *)
PartitionBaseFactory(alt) == IF alt = 1 THEN FactoryAddr ELSE DataAddr

PartitionBase(alt) == IF alt = 1 THEN UpgradeAddr ELSE DataAddr
PartitionEnd(alt)  == IF alt = 1 THEN DataAddr ELSE FlashSize

OpenPartition(alt) ==
    IF dn_base_addr # 0
    THEN UNCHANGED <<dn_base_addr, bytes_avail, total_len>>
    ELSE /\ dn_base_addr' = PartitionBase(alt)
         /\ bytes_avail' = PartitionEnd(alt) - PartitionBase(alt)
         /\ total_len' = 0

(* Mutant: the space check admits one sector too many.                     *)
HasRoomOffByOne == bytes_avail' - total_len' >= 0

(* The space check, after the partition is open: (bytes_avail - total_len) *)
(* >= length over size_t, where a negative difference wraps to a huge one. *)
HasRoom ==
    LET room == bytes_avail' - total_len'
    IN  room < 0 \/ room >= 1

EraseSector(a) == flash' = [flash EXCEPT ![a] = ErasedSector]

ProgramSector(a, data) ==
    /\ flash' = [flash EXCEPT ![a] = data]
    /\ total_len' = total_len + 1

(* dfu_common_make_manifest                                                *)
MakeManifest == dn_base_addr' = 0
-----------------------------------------------------------------------------
(* dfu_common_read_from_flash: block is inside the partition, or nothing   *)
(* is read.  The number of fragments returned is 1 or 0, never a part.     *)
Readable(alt, block) ==
    \/ alt = 0 /\ block < FactorySize
    \/ alt = 1 /\ block < UpgradeSize
    \/ alt = 2 /\ block < (FlashSize - DataAddr) * NUM_FRAGMENTS

ReadBase(alt) ==
    IF alt = 0 THEN FactoryAddr ELSE IF alt = 1 THEN UpgradeAddr ELSE DataAddr

FragmentAt(alt, block) ==
    flash[ReadBase(alt) + (block \div NUM_FRAGMENTS)][block % NUM_FRAGMENTS]
=============================================================================
