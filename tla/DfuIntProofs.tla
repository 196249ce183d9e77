---------------------------- MODULE DfuIntProofs ----------------------------
(***************************************************************************)
(* Proofs about DfuInt for every layout of the flash, every number of      *)
(* fragments in a sector, every set of payloads and every host, paced or   *)
(* not.                                                                    *)
(***************************************************************************)
EXTENDS DfuIntProps, TLAPS

(* A block count that fits in k sectors ends before sector k.              *)
LEMMA SectorOfBlock ==
    ASSUME NEW n \in Nat \ {0}, NEW k \in Nat, NEW block \in Nat, block < k * n
    PROVE  /\ block \div n \in 0 .. k - 1
           /\ block % n \in 0 .. n - 1
<1> DEFINE q == block \div n
<1>1. q \in Nat /\ block % n \in 0 .. n - 1 /\ block = n * q + (block % n)
  OBVIOUS
<1>2. q < k
  <2> SUFFICES ASSUME q >= k PROVE FALSE
    BY <1>1
  <2>1. q * n >= k * n
    BY <1>1
  <2> QED
    BY <1>1, <2>1
<1> QED
  BY <1>1, <1>2

(* The fragment an upload reads is a fragment of the flash.                *)
LEMMA FragmentType ==
    ASSUME CommonTypeOK, NEW alt \in Alt, NEW block \in Nat, Readable(alt, block)
    PROVE  FragmentAt(alt, block) \in Cell
<1> USE LayoutAssumption
<1> DEFINE n == NUM_FRAGMENTS
           room == IF alt = 0 THEN UpgradeAddr - FactoryAddr
                   ELSE IF alt = 1 THEN DataAddr - UpgradeAddr
                   ELSE FlashSize - DataAddr
<1>1. room \in Nat /\ block < room * n
  BY DEF Readable
<1>2. block \div n \in 0 .. room - 1 /\ block % n \in Frag
  BY <1>1, SectorOfBlock DEF Frag
<1>3. ReadBase(alt) + (block \div n) \in Addr
  BY <1>2 DEF ReadBase, Addr
<1> QED
  BY <1>2, <1>3 DEF FragmentAt, CommonTypeOK, Sector

(* The values the machine resets dfu_data to are values of its type.       *)
LEMMA ResetType ==
    ASSUME NEW d \in DfuData
    PROVE  /\ ResetDownloadBuffer(d) \in DfuData
           /\ ResetState(d) \in DfuData
<1>1. ClearBuffer \in Sector /\ 0 \in Frag /\ STATUS_OK \in Status
  BY LayoutAssumption DEF ClearBuffer, Sector, Cell, Frag, Status
<1>2. ResetDownloadBuffer(d) \in DfuData
  BY <1>1 DEF ResetDownloadBuffer, DfuData
<1>3. ResetState(d) \in DfuData
  BY <1>1, <1>2 DEF ResetState, DfuData, DfuState
<1> QED
  BY <1>2, <1>3
-----------------------------------------------------------------------------
(* What each task leaves of dfu_data and its own variables is of its type. *)
LEMMA UploadDataType == TypeOK => UploadData \in DfuData
<1> SUFFICES ASSUME TypeOK PROVE UploadData \in DfuData
  OBVIOUS
<1>0. dfu_data \in DfuData /\ CommonTypeOK /\ ClearBuffer \in Sector
  BY LayoutAssumption DEF TypeOK, ClearBuffer, Sector, Cell
<1> DEFINE cell == FragmentAt(dfu_data.alt_setting, dfu_data.transfer_block)
           full == Readable(dfu_data.alt_setting, dfu_data.transfer_block)
<1>1. CASE full
  <2>1. cell \in Cell
    BY <1>0, <1>1, FragmentType DEF DfuData
  <2>2. [ClearBuffer EXCEPT ![0] = cell] \in Sector
    BY <1>0, <2>1 DEF Sector
  <2>3. dfu_data.transfer_block + 1 \in Nat
    BY <1>0 DEF DfuData
  <2>4. ASSUME NEW b \in Sector, NEW t \in Nat
        PROVE  [dfu_data EXCEPT !.data_xfer_length = 1, !.dfu_data_buffer = b,
                                !.transfer_block = t,
                                !.current_state = "UPLOAD_IDLE"] \in DfuData
    BY <1>0 DEF DfuData, DfuState
  <2> QED
    BY <1>1, <2>2, <2>3, <2>4 DEF UploadData
<1>2. CASE ~full
  BY <1>0, <1>2 DEF UploadData, DfuData, DfuState
<1> QED
  BY <1>1, <1>2

(* The commands of the host and the servicer's steps keep the types.       *)
LEMMA ServicerType == TypeOK /\ (HostNext \/ ServicerNext) => TypeOK'
<1> SUFFICES ASSUME TypeOK, HostNext \/ ServicerNext PROVE TypeOK'
  OBVIOUS
<1> USE HostAssumption, LayoutAssumption
<1> USE DEF CommonTypeOK, commonVars, mailbox, machine, servicer, Submit, Request
<1>0. dfu_data \in DfuData /\ state \in DfuState /\ 0 \in Timeout
  BY DEF TypeOK, DfuData, state, Timeout
<1>1. ASSUME NEW length \in {0, 1}, NEW data \in Cell,
             length = 1 => data \in Payload, Download(length, data)
      PROVE  TypeOK'
  <2> DEFINE buffer == IF length = 0 THEN dfu_data.dfu_data_buffer
                       ELSE [dfu_data.dfu_data_buffer EXCEPT ![dfu_data.frag_number] = data]
  <2>1. buffer \in Sector
    BY <1>0 DEF DfuData, Sector
  <2>2. ASSUME NEW b \in Sector
        PROVE  [dfu_data EXCEPT !.data_xfer_length = length, !.dfu_data_buffer = b] \in DfuData
    BY <1>0 DEF DfuData
  <2>3. dfu_data' \in DfuData
    BY <1>1, <2>1, <2>2 DEF Download
  <2>4. sent' \in Seq(Payload)
    BY <1>1 DEF Download, TypeOK
  <2> QED
    BY <1>1, <2>3, <2>4 DEF Download, TypeOK, Reply, NoReply, Timeout
<1>2. CASE Upload
  BY <1>2 DEF TypeOK, Upload, Reply, NoReply, Timeout
<1>3. CASE ClearStatus
  BY <1>3 DEF TypeOK, ClearStatus, Reply, NoReply, Timeout
<1>4. CASE Abort
  BY <1>4 DEF TypeOK, Abort, Reply, NoReply, Timeout
<1>5. ASSUME NEW alt \in Alts, SetAlternate(alt) PROVE TypeOK'
  <2>1. dfu_data' \in DfuData
    BY <1>0, <1>5 DEF SetAlternate, DfuData
  <2> QED
    BY <1>5, <2>1 DEF TypeOK, SetAlternate, Reply, NoReply, Timeout
<1>6. ASSUME NEW block \in TransferBlocks, SetTransferBlock(block) PROVE TypeOK'
  <2>1. dfu_data' \in DfuData
    BY <1>0, <1>6 DEF SetTransferBlock, DfuData
  <2> QED
    BY <1>6, <2>1 DEF TypeOK, SetTransferBlock, Reply, NoReply, Timeout
<1>7. CASE Reboot
  BY <1>7 DEF TypeOK, Reboot, Reply, NoReply, Timeout
<1>8. CASE GetStatus
  BY <1>0, <1>8 DEF TypeOK, GetStatus, HostMay, Reply, NoReply, Timeout
<1>9. CASE StatusSettled
  <2>1. dfu_data' \in DfuData
    BY <1>0, <1>9 DEF StatusSettled, DfuData
  <2>2. PICK s \in DfuState : Answer(s, 0)
    BY <1>0, <1>9 DEF StatusSettled, TypeOK
  <2> QED
    BY <1>0, <1>9, <2>1, <2>2 DEF TypeOK, StatusSettled, Answer, Post, Reply, DfuState
<1>10. CASE StatusDnloadSync
  <2> DEFINE timeout == IF dfu_data.in_progress THEN DnloadTimeout ELSE 0
             next == IF dfu_data.in_progress THEN "DNBUSY" ELSE "DNLOAD_IDLE"
  <2>1. timeout \in Timeout /\ next \in DfuState
    BY DEF DnloadTimeout, Timeout, DfuState
  <2> HIDE DEF timeout, next
  <2>2. [dfu_data EXCEPT !.previous_timeout_ms = timeout] \in DfuData
    BY <1>0, <2>1 DEF DfuData
  <2>3. /\ dfu_data' = [dfu_data EXCEPT !.previous_timeout_ms = timeout]
        /\ Answer(next, timeout) /\ Post
    BY <1>10 DEF StatusDnloadSync, timeout, next
  <2> QED
    BY <2>1, <2>2, <2>3 DEF TypeOK, Answer, Post, Reply, DfuState
<1>11. CASE StatusManifestSync
  <2>1. dfu_data' \in DfuData
    BY <1>0, <1>11 DEF StatusManifestSync, DfuData
  <2> QED
    BY <1>0, <1>11, <2>1 DEF TypeOK, StatusManifestSync, Answer, Post, Reply, DfuState
<1>12. CASE StatusTooEarly
  <2>1. dfu_data' \in DfuData
    BY <1>0, <1>12 DEF StatusTooEarly, DfuData
  <2> QED
    BY <1>0, <1>12, <2>1 DEF TypeOK, StatusTooEarly, Answer, Reply, DfuState
<1>13. CASE StatusStillBusy
  <2>1. dfu_data.previous_timeout_ms \in Timeout /\ observed \in DfuState
    BY <1>0 DEF DfuData, TypeOK
  <2> QED
    BY <1>0, <1>13, <2>1 DEF TypeOK, StatusStillBusy, Answer, Reply, DfuState
<1>14. CASE Give
  <2>1. counter' \in Nat
    BY <1>14 DEF TypeOK, Give
  <2> QED
    BY <1>14, <2>1, Zenon DEF TypeOK, Give
<1>15. CASE Notify
  <2>1. posted' \in Nat
    BY <1>15 DEF TypeOK, Notify
  <2> QED
    BY <1>15, <2>1, Zenon DEF TypeOK, Notify
<1>16. CASE UploadTake
  BY <1>16 DEF TypeOK, UploadTake
<1>17. CASE UploadCopy
  BY <1>17 DEF TypeOK, UploadCopy
<1>18. Payload \subseteq Cell /\ Zero \in Cell
  BY DEF Cell
<1> QED
  BY <1>1, <1>2, <1>3, <1>4, <1>5, <1>6, <1>7, <1>8, <1>9, <1>10, <1>11, <1>12,
     <1>13, <1>14, <1>15, <1>16, <1>17, <1>18 DEF HostNext, ServicerNext

LEMMA MachineType == TypeOK /\ (MachineNext \/ Reset) => TypeOK'
<1> SUFFICES ASSUME TypeOK, MachineNext \/ Reset PROVE TypeOK'
  OBVIOUS
<1> USE LayoutAssumption
<1> USE DEF CommonTypeOK, commonVars, mailbox, servicer, Request, Loop, Forget
<1>0. /\ dfu_data \in DfuData /\ state \in DfuState
      /\ ClearBuffer \in Sector /\ ErasedSector \in Sector
      /\ STATUS_OK \in Status /\ ERR_STALLEDPKT \in Status
      /\ ERR_WRITE \in Status /\ ERR_ADDRESS \in Status
  BY DEF TypeOK, DfuData, state, ClearBuffer, ErasedSector, Sector, Cell, Status
<1>1. ResetState(dfu_data) \in DfuData
  BY <1>0, ResetType
<1>sent. <<>> \in Seq(Payload) /\ sent \in Seq(Payload)
  BY DEF TypeOK
<1>fail. ASSUME NEW status \in Status, Fail(status)
         PROVE  /\ dfu_data' \in DfuData /\ sent' \in Seq(Payload)
                /\ retval' \in Status /\ mpc' = "error"
  BY <1>1, <1>fail DEF Fail
<1>2. CASE Wake
  BY <1>2 DEF TypeOK, Wake
<1>3. CASE Take
  <2>1. counter' \in Nat
    BY <1>3 DEF TypeOK, Take
  <2>2. CASE counter = 1
    BY <1>3, <2>1, <2>2, Zenon DEF TypeOK, Take
  <2>3. CASE counter # 1
    <3>1. Fail(ERR_STALLEDPKT) /\ Forget
      BY <1>3, <2>3, Zenon DEF Take, Stall
    <3> QED
      BY <1>0, <1>fail, <1>3, <2>1, <3>1 DEF TypeOK, Take
  <2> QED
    BY <2>2, <2>3
<1>4. ASSUME NEW r \in Request, NEW valid \in BOOLEAN, NEW data,
             valid => data \in DfuData, Handle(r, valid, data)
      PROVE  TypeOK'
  <2>1. CASE valid
    <3>1. sent' = <<>> \/ sent' = sent
      BY <1>4, <2>1, Zenon DEF Handle
    <3>2. sent' \in Seq(Payload)
      BY <1>sent, <3>1, Zenon
    <3>3. dfu_data' \in DfuData /\ retval' = retval /\ Loop
      BY <1>4, <2>1, Zenon DEF Handle
    <3> QED
      BY <1>4, <3>2, <3>3 DEF TypeOK, Handle
  <2>2. CASE ~valid
    <3>1. Fail(ERR_STALLEDPKT) /\ Forget
      BY <1>4, <2>2, Zenon DEF Handle, Stall
    <3> QED
      BY <1>0, <1>fail, <1>4, <3>1 DEF TypeOK, Handle
  <2> QED
    BY <2>1, <2>2
<1>5. CASE DoDnload
  <2>1. ResetDownloadBuffer(dfu_data) \in DfuData
    BY <1>0, ResetType
  <2>2. ASSUME NEW d \in DfuData, NEW s \in DfuState
        PROVE  [d EXCEPT !.in_progress = TRUE, !.current_state = s] \in DfuData
    BY DEF DfuData
  <2>3. {"DNLOAD_SYNC", "MANIFEST_SYNC"} \subseteq DfuState
    BY DEF DfuState
  <2> QED
    BY <1>0, <1>1, <1>4, <1>5, <2>1, <2>2, <2>3 DEF DoDnload
<1>6. CASE DoUpload \/ UploadStalls
  <2>1. CASE DoUpload
    BY <2>1, UploadDataType DEF TypeOK, DoUpload
  <2>2. CASE UploadStalls
    <3>1. Fail(ERR_STALLEDPKT)
      BY <2>2, Zenon DEF UploadStalls, Stall
    <3> QED
      BY <1>0, <1>fail, <2>2, <3>1 DEF TypeOK, UploadStalls
  <2> QED
    BY <1>6, <2>1, <2>2
<1>7. CASE DoClrStatus
  BY <1>1, <1>4, <1>7 DEF DoClrStatus
<1>8. CASE DoAbort
  <2> DEFINE valid == state \in {"UPLOAD_IDLE", "DNLOAD_IDLE"}
  <2>1. valid \in BOOLEAN /\ Handle("ABORT", valid, ResetState(dfu_data))
    BY <1>8 DEF DoAbort
  <2> HIDE DEF valid
  <2> QED
    BY <1>1, <1>4, <2>1
<1>9. CASE DoSetAlternate
  BY <1>1, <1>4, <1>9 DEF DoSetAlternate
<1>10. ASSUME NEW s \in DfuState
       PROVE  [dfu_data EXCEPT !.current_state = s] \in DfuData
  BY <1>0 DEF DfuData
<1>11. CASE GetStatusElsewhere
  <2>1. CASE state \in Settled
    <3>1. /\ dfu_data' = dfu_data /\ retval' = retval /\ Loop
          /\ sent' = <<>> \/ sent' = sent
      BY <1>11, <2>1, Zenon DEF GetStatusElsewhere, DoGetStatus
    <3>2. sent' \in Seq(Payload)
      BY <1>sent, <3>1, Zenon
    <3> QED
      BY <1>11, <2>1, <3>1, <3>2 DEF TypeOK, GetStatusElsewhere, DoGetStatus
  <2>2. CASE state \notin Settled
    <3>1. Fail(ERR_STALLEDPKT) /\ Forget
      BY <1>11, <2>2, Zenon DEF GetStatusElsewhere, Stall
    <3> QED
      BY <1>0, <1>fail, <1>11, <2>2, <3>1 DEF TypeOK, GetStatusElsewhere
  <2> QED
    BY <2>1, <2>2
<1>12. CASE SyncDone
  <2>1. dfu_data' \in DfuData
    <3>1. {"DNLOAD_IDLE", "IDLE"} \subseteq DfuState
      BY DEF DfuState
    <3> QED
      BY <1>10, <1>12, <3>1 DEF SyncDone, DoGetStatus
  <2>2. sent' \in Seq(Payload)
    BY <1>12 DEF TypeOK, SyncDone, DoGetStatus
  <2> QED
    BY <1>12, <2>1, <2>2 DEF TypeOK, SyncDone, DoGetStatus
<1>13. CASE DnloadBusy
  <2>1. dfu_data' \in DfuData /\ sent' \in Seq(Payload)
    BY <1>10, <1>13 DEF TypeOK, DnloadBusy, DoGetStatus, DfuState
  <2> QED
    BY <1>13, <2>1 DEF TypeOK, DnloadBusy, DoGetStatus, Begin
<1>14. CASE ManifestBusy
  <2>1. dfu_data' \in DfuData /\ sent' \in Seq(Payload)
    BY <1>10, <1>14 DEF TypeOK, ManifestBusy, DoGetStatus, DfuState
  <2> QED
    BY <1>14, <2>1 DEF TypeOK, ManifestBusy, DoGetStatus, Begin
<1>15. CASE BufferFragment
  <2>1. dfu_data.frag_number + 1 \in Frag
    BY <1>0, <1>15 DEF BufferFragment, DfuData, Frag, LastFrag
  <2>2. dfu_data' \in DfuData
    BY <1>0, <1>15, <2>1 DEF BufferFragment, DfuData
  <2> QED
    BY <1>0, <1>15, <2>2 DEF TypeOK, BufferFragment
<1>16. ASSUME NEW alt \in Alt, OpenPartition(alt)
       PROVE  bytes_avail' \in Nat /\ dn_base_addr' \in Nat /\ total_len' \in Nat
  BY <1>16 DEF TypeOK, OpenPartition, PartitionBase, PartitionEnd
<1>17. dfu_data.alt_setting \in Alt /\ dfu_data.download_block_number \in Nat
       /\ dfu_data.dfu_data_buffer \in Sector
  BY <1>0 DEF DfuData
<1>18. CASE WriteRefused
  <2>1. bytes_avail' \in Nat /\ dn_base_addr' \in Nat /\ total_len' \in Nat
    BY <1>16, <1>17, <1>18 DEF TypeOK, WriteRefused
  <2> QED
    BY <1>0, <1>18, <2>1 DEF TypeOK, WriteRefused
<1>19. CASE WriteBegin
  <2>1. bytes_avail' \in Nat /\ dn_base_addr' \in Nat /\ total_len' \in Nat
    BY <1>16, <1>17, <1>19 DEF WriteBegin
  <2>2. wr_addr' \in Nat /\ tmp_buf' \in Sector
    BY <1>17, <1>19, <2>1 DEF WriteBegin
  <2> QED
    BY <1>19, <2>1, <2>2, Zenon DEF TypeOK, WriteBegin
<1>20. CASE FlashErase
  BY <1>0, <1>20 DEF TypeOK, FlashErase, EraseSector
<1>21. CASE FlashProgram
  <2>1. total_len' \in Nat
    BY <1>21 DEF TypeOK, FlashProgram, ProgramSector
  <2>2. flash' \in [Addr -> Sector]
    BY <1>21, Zenon DEF TypeOK, FlashProgram, ProgramSector
  <2> QED
    BY <1>0, <1>21, <2>1, <2>2, Zenon DEF TypeOK, FlashProgram
<1>22. CASE SectorDone
  <2>1. dfu_data.download_block_number + 1 \in Nat /\ 0 \in Frag
    BY <1>17 DEF Frag
  <2>2. dfu_data' \in DfuData
    BY <1>0, <1>22, <2>1 DEF SectorDone, DfuData
  <2> QED
    BY <1>0, <1>22, <2>2 DEF TypeOK, SectorDone
<1>23. CASE Manifest
  <2>1. dfu_data' \in DfuData
    BY <1>0, <1>23 DEF Manifest, DfuData
  <2> QED
    BY <1>0, <1>23, <2>1 DEF TypeOK, Manifest, MakeManifest
<1>24. CASE Finish
  <2> DEFINE back == IF state = "DNBUSY" THEN "DNLOAD_SYNC" ELSE "MANIFEST_SYNC"
  <2>1. Failure \in Status /\ back \in DfuState
    BY <1>0 DEF Failure, TypeOK, DfuState
  <2>2. [dfu_data EXCEPT !.current_state = back] \in DfuData
    BY <1>10, <2>1
  <2>3. CASE Failure # STATUS_OK
    <3>1. Fail(Failure) /\ Forget
      BY <1>24, <2>3, Zenon DEF Finish
    <3> QED
      BY <1>fail, <1>24, <2>1, <3>1 DEF TypeOK, Finish
  <2>4. CASE Failure = STATUS_OK
    <3>1. dfu_data' \in DfuData /\ UNCHANGED <<sent, retval>> /\ Loop
      BY <1>24, <2>2, <2>4, Zenon DEF Finish
    <3> QED
      BY <1>24, <3>1 DEF TypeOK, Finish
  <2> QED
    BY <2>3, <2>4
<1>25. CASE EnterError
  <2>1. [dfu_data EXCEPT !.current_state = "ERROR", !.current_status = retval] \in DfuData
    BY <1>0 DEF TypeOK, DfuData, DfuState
  <2>2. \/ /\ upload_semaphore' = TRUE /\ mpc' = "getstatus"
           /\ UNCHANGED <<notification_value, woken>>
        \/ Loop /\ UNCHANGED upload_semaphore
    BY <1>25, Zenon DEF EnterError
  <2>3. /\ upload_semaphore' \in BOOLEAN /\ mpc' \in {"wait", "getstatus"}
        /\ notification_value' \subseteq Request /\ woken' \in Nat
    <3>1. CASE upload_semaphore' = TRUE /\ mpc' = "getstatus"
               /\ UNCHANGED <<notification_value, woken>>
      BY <3>1, Zenon DEF TypeOK
    <3>2. CASE Loop /\ UNCHANGED upload_semaphore
      BY <3>2 DEF TypeOK
    <3> QED
      BY <2>2, <3>1, <3>2
  <2>4. dfu_data' \in DfuData /\ retval' = STATUS_OK
    BY <1>25, <2>1, Zenon DEF EnterError
  <2> QED
    BY <1>0, <1>25, <2>3, <2>4 DEF TypeOK, EnterError
<1>26. CASE Reset
  <2>1. BootData \in DfuData
    BY <1>0 DEF BootData, DfuData, DfuState, Alt, Timeout, Frag
  <2>2. NoReply \in Reply /\ "IDLE" \in DfuState /\ <<>> \in Seq(Payload)
    BY DEF Reply, NoReply, DfuState, Timeout
  <2>3. 0 \in Nat /\ {} \subseteq Request /\ FALSE \in BOOLEAN
    OBVIOUS
  <2>4. CommonTypeOK'
    BY <1>26, <2>3 DEF TypeOK, Reset
  <2> QED
    BY <1>0, <1>26, <2>1, <2>2, <2>3, <2>4 DEF TypeOK, Reset
<1> QED
  BY <1>2, <1>3, <1>5, <1>6, <1>7, <1>8, <1>9, <1>11, <1>12, <1>13, <1>14, <1>15,
     <1>18, <1>19, <1>20, <1>21, <1>22, <1>23, <1>24, <1>25, <1>26 DEF MachineNext

LEMMA InitType == Init => TypeOK
<1> SUFFICES ASSUME Init PROVE TypeOK
  OBVIOUS
<1> USE LayoutAssumption
<1>1. /\ ClearBuffer \in Sector /\ [f \in Frag |-> Original] \in Sector
      /\ 0 \in Frag
  BY DEF ClearBuffer, Sector, Cell, Frag
<1>2. CommonTypeOK
  BY <1>1 DEF Init, CommonInit, CommonTypeOK
<1>3. BootData \in DfuData
  BY <1>1 DEF BootData, DfuData, DfuState, Alt, Timeout, Status
<1>4. NoReply \in Reply /\ <<>> \in Seq(Payload)
  BY DEF Reply, NoReply, DfuState, Timeout
<1> QED
  BY <1>1, <1>2, <1>3, <1>4 DEF Init, TypeOK, DfuState, Status

LEMMA NextType == TypeOK /\ [Next]_vars => TypeOK'
<1> SUFFICES ASSUME TypeOK, [Next]_vars PROVE TypeOK'
  OBVIOUS
<1>1. CASE HostNext \/ ServicerNext
  BY <1>1, ServicerType
<1>2. CASE MachineNext \/ Reset
  BY <1>2, MachineType
<1>3. CASE UNCHANGED vars
  BY <1>3 DEF TypeOK, CommonTypeOK, vars
<1> QED
  BY <1>1, <1>2, <1>3 DEF Next

(* Whatever the host does and whenever the watchdog bites, every variable  *)
(* keeps its type: in particular frag_number never leaves the sector       *)
(* buffer that dfu_int_download copies into.                               *)
THEOREM TypeCorrect == Spec => []TypeOK
BY InitType, NextType, PTL DEF Spec
=============================================================================
